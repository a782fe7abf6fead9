----------------------------- MODULE Greenfield -----------------------------
(***************************************************************************)
(* Publication of one canonical evidence artifact (packages/greenfield):   *)
(* EvidencePublisher drives a durable attempt through its states under a   *)
(* lease, against a storage chain whose storage provider may answer late,  *)
(* wrongly or not at all.  The attempts of one artifact (one for each pair *)
(* of idempotency key and provider) share the object on the chain, the     *)
(* evidence_objects row and the locator rows.                              *)
(*                                                                         *)
(* A call of publish or reconcile is a worker p.  A save, a lease update   *)
(* and a provider call that changes something are one step each; a         *)
(* provider read is taken together with the save of what it saw.           *)
(***************************************************************************)
EXTENDS Naturals, FiniteSets

CONSTANTS Workers,       \* concurrent calls of publish/reconcile
          Attempts,      \* the attempts of the artifact
          Ipfs,          \* those whose provider is ipfs; the others use greenfield
          TooLarge,      \* those whose configuration refuses the artifact's size
          MaxCalls,      \* bound on the calls made
          MaxSealPolls,  \* configuration.maxSealPolls
          Faults         \* what may go wrong, a subset of FaultKinds

Unset == "none"

VARIABLES att,       \* evidence_publication_attempts rows
          locators,  \* evidence_locators: by provider, and the provider verified last
          verifs,    \* evidence_verification_results: latest per attempt, and of the object
          evidence,  \* evidence_objects.state
          chain,     \* the object on the storage chain and at its provider
          worker,    \* the calls in progress
          calls,     \* calls made so far
          duplicate  \* a create was submitted for an object already on the chain

vars == <<att, locators, verifs, evidence, chain, worker, calls, duplicate>>

Provider(a) == IF a \in Ipfs THEN "ipfs" ELSE "greenfield"

(* The legal moves of an attempt. *)
stateTransitions ==
  [pending           |-> {"validating", "retrying", "duplicate"},
   validating        |-> {"creating_object", "uploading", "validation_failed", "provider_failed"},
   creating_object   |-> {"submitted", "uploading", "create_failed", "provider_failed"},
   submitted         |-> {"uploading", "create_failed", "provider_failed"},
   uploading         |-> {"awaiting_seal", "reading_back", "upload_failed", "provider_failed"},
   awaiting_seal     |-> {"awaiting_seal", "reading_back", "seal_timeout", "provider_failed"},
   reading_back      |-> {"verified", "readback_failed", "hash_mismatch", "provider_failed"},
   verified          |-> {},
   validation_failed |-> {"retrying"},
   create_failed     |-> {"retrying"},
   upload_failed     |-> {"retrying"},
   seal_timeout      |-> {"retrying"},
   readback_failed   |-> {"retrying"},
   hash_mismatch     |-> {"retrying"},
   duplicate         |-> {},
   provider_failed   |-> {"retrying"},
   retrying          |-> {"pending"}]

States == DOMAIN stateTransitions
terminalStates == {s \in States : stateTransitions[s] \subseteq {"retrying"}} \ {"retrying"}

(* Failure codes a retry must not follow. *)
NotRetryable == {"MISSING_OBJECT", "ARTIFACT_TOO_LARGE", "CREATE_UNKNOWN"}

(* The evidence row has fewer states than an attempt. *)
evidenceStateFor(s) == CASE s = "submitted" -> "creating_object"
                         [] s \in {"duplicate", "provider_failed", "retrying"} -> "pending"
                         [] OTHER -> s

-----------------------------------------------------------------------------
(* Records.  A row carries revision, lease and provider facts; the record   *)
(* a worker holds also has the locator and verification it was hydrated     *)
(* with.                                                                    *)

NoAttempt == [state |-> Unset, rev |-> 0, owner |-> Unset, expired |-> FALSE,
              ref |-> FALSE, code |-> Unset, retryable |-> FALSE]

newRecord == [NoAttempt EXCEPT !.state = "pending"]

HasLocator(a) == locators.of[Provider(a)].attempt = a

hydrate(a, row) == [row |-> row, loc |-> HasLocator(a)]

(* assertDurablePublicationAttempt: a verified row needs its own verified   *)
(* locator and its own verified readback.                                   *)
Readable(a) == att[a].state = "verified" =>
                 /\ HasLocator(a) /\ locators.of[Provider(a)].verified
                 /\ verifs.of[a] = "verified"

Idle == [pc |-> "idle", a |-> Unset, rec |-> Unset, existing |-> Unset, created |-> FALSE, poll |-> 1]

Goto(p, pc) == worker' = [worker EXCEPT ![p].pc = pc]
Finish(p) == worker' = [worker EXCEPT ![p] = Idle]

GotoOnly(p, pc) == Goto(p, pc) /\ UNCHANGED <<att, evidence, locators, verifs>>

(* The provider may fail a request. *)
ProviderDown == "provider" \in Faults

(* What the storage provider's metadata shows of the object. *)
View == IF chain.indexed THEN chain.object ELSE "absent"

(* What the chain itself answers; its queries may fail too. *)
ChainStatus == {IF chain.object = "absent" THEN "missing" ELSE "present"}
               \cup (IF ProviderDown THEN {"unknown"} ELSE {})

(* reconcileCreate: absence needs the provider and the chain to agree. *)
CreateReconciliation ==
  {IF View # "absent" THEN "present" ELSE IF c = "missing" THEN "missing" ELSE "unknown" : c \in ChainStatus}
  \cup (IF ProviderDown THEN {"unknown"} ELSE {})

-----------------------------------------------------------------------------
(* The store. *)

(* attempts.save matches the row by revision and by an unexpired lease. *)
SaveMatches(p, a) == /\ att[a].rev = worker[p].rec.row.rev
                     /\ att[a].owner = p
                     /\ ~att[a].expired

(* locators.add: the first attempt to record a URI owns its row; a later
   verified record of the same URI only promotes verified_at. *)
AddLocator(a, present, verified) ==
  IF ~present THEN locators
  ELSE LET l == locators.of[Provider(a)]
           row == IF l.attempt = Unset THEN [attempt |-> a, verified |-> verified]
                  ELSE [l EXCEPT !.verified = @ \/ verified]
       IN [of |-> [locators.of EXCEPT ![Provider(a)] = row],
           last |-> IF row.verified /\ ~l.verified THEN Provider(a) ELSE locators.last]

AddVerification(a, v) == IF v = Unset THEN verifs
                         ELSE [of |-> [verifs.of EXCEPT ![a] = v], latest |-> a]

(* The evidence row follows whichever attempt was saved last. *)
SaveObject(next) == evidence' = evidenceStateFor(next)

(* transition(record, next, patch): the move must be legal for the record
   held in memory, then the row, the shared evidence row, the locator and
   the verification are saved in one transaction.  Any refusal is thrown,
   and the call goes to its finally block. *)
Transition(p, next, patch, then) ==
  LET a == worker[p].a
      old == worker[p].rec
      row == [patch.row EXCEPT !.state = next, !.rev = old.row.rev + 1]
  IN IF /\ old.row.state = next \/ next \in stateTransitions[old.row.state]
        /\ SaveMatches(p, a)
     THEN /\ att' = [att EXCEPT ![a] = row]
          /\ SaveObject(next)
          /\ locators' = AddLocator(a, patch.loc, next = "verified")
          /\ verifs' = AddVerification(a, patch.ver)
          /\ worker' = [worker EXCEPT ![p] =
               [worker[p] EXCEPT !.pc = then,
                                 !.rec = [row |-> row, loc |-> patch.loc],
                                 !.poll = IF next = "awaiting_seal" /\ old.row.state = next THEN @ + 1 ELSE 1]]
     ELSE /\ Goto(p, "release")
          /\ UNCHANGED <<att, evidence, locators, verifs>>

Same(p) == [row |-> worker[p].rec.row, loc |-> worker[p].rec.loc, ver |-> Unset]
Move(p, next, then) == Transition(p, next, Same(p), then)

(* fail(record, state, code, patch) *)
FailWith(p, next, code, ver) ==
  Transition(p, next, [row |-> [worker[p].rec.row EXCEPT !.code = code,
                                                        !.retryable = code \notin NotRetryable],
                       loc |-> worker[p].rec.loc, ver |-> ver], "release")
Fail(p, next, code) == FailWith(p, next, code, Unset)

-----------------------------------------------------------------------------
(* publishProvider *)

unknownCreate(r) == r.state = "create_failed" /\ r.code = "CREATE_UNKNOWN"

(* Nothing is left to do for a row found, unless its create is unresolved. *)
Settled(r) == \/ r.state = "verified"
              \/ r.state \in terminalStates /\ ~r.retryable /\ ~unknownCreate(r)

(* createOrGet: one row for each idempotency key and provider. *)
CreatedRow(a) == IF att[a].state = Unset THEN newRecord ELSE att[a]

(* publish/reconcile: createOrGet, then the early returns. *)
CreateOrGet(p, a) ==
  /\ worker[p].pc = "idle"
  /\ calls < MaxCalls
  /\ calls' = calls + 1
  /\ LET created == att[a].state = Unset
         row == CreatedRow(a)
     IN /\ att' = [att EXCEPT ![a] = row]
        /\ evidence' = IF created /\ evidence = Unset THEN "pending" ELSE evidence
        /\ worker' = [worker EXCEPT ![p] =
             IF ~Readable(a) \/ Settled(row) THEN Idle
             ELSE [Idle EXCEPT !.pc = "lease", !.a = a, !.existing = row, !.created = created]]
  /\ UNCHANGED <<locators, verifs, chain, duplicate>>

LeaseFree(a) == att[a].owner = Unset \/ att[a].expired

(* acquireLease: an unreadable row keeps the lease it was just given. *)
AcquireLease(p) ==
  /\ worker[p].pc = "lease"
  /\ LET a == worker[p].a IN
     IF LeaseFree(a)
     THEN LET row == [att[a] EXCEPT !.rev = @ + 1, !.owner = p, !.expired = FALSE] IN
          /\ att' = [att EXCEPT ![a] = row]
          /\ worker' = [worker EXCEPT ![p] =
               IF Readable(a) THEN [worker[p] EXCEPT !.pc = "resume", !.rec = hydrate(a, row)]
               ELSE Idle]
     ELSE Finish(p) /\ UNCHANGED att
  /\ UNCHANGED <<locators, verifs, evidence, chain, calls, duplicate>>

Retry(p, clear) ==
  Transition(p, "retrying",
             [row |-> [worker[p].rec.row EXCEPT !.code = Unset, !.retryable = FALSE, !.ref = @ /\ ~clear],
              loc |-> worker[p].rec.loc /\ ~clear, ver |-> Unset], "repend")

(* The retry decision uses the row read before the lease was taken. *)
Resume(p) ==
  /\ worker[p].pc = "resume"
  /\ LET old == worker[p].existing IN
     IF ~worker[p].created /\ old.state \in terminalStates
     THEN IF unknownCreate(old)
          THEN GotoOnly(p, "reconcile")
          ELSE Retry(p, FALSE)
     ELSE IF worker[p].rec.row.state = "retrying"
          THEN Move(p, "pending", "validate")
          ELSE GotoOnly(p, "validate")
  /\ UNCHANGED <<chain, calls, duplicate>>

Repend(p) ==
  /\ worker[p].pc = "repend"
  /\ Move(p, "pending", "validate")
  /\ UNCHANGED <<chain, calls, duplicate>>

(* reconcileUnknownCreate: without proof that the object is present or
   absent the attempt stays blocked; otherwise it runs again from the start
   with its provider facts cleared. *)
ReconcileUnknownCreate(p) ==
  /\ worker[p].pc = "reconcile"
  /\ \E found \in CreateReconciliation :
        IF found = "unknown" THEN GotoOnly(p, "release") ELSE Retry(p, TRUE)
  /\ UNCHANGED <<chain, calls, duplicate>>

(* finally: releaseLease *)
ReleaseLease(p) ==
  /\ worker[p].pc = "release"
  /\ LET a == worker[p].a IN
     att' = IF att[a].owner = p
            THEN [att EXCEPT ![a] = [att[a] EXCEPT !.rev = @ + 1, !.owner = Unset, !.expired = FALSE]]
            ELSE att
  /\ Finish(p)
  /\ UNCHANGED <<locators, verifs, evidence, chain, calls, duplicate>>

-----------------------------------------------------------------------------
(* runProvider *)

Validate(p) ==
  /\ worker[p].pc = "validate"
  /\ IF worker[p].rec.row.state \in {"pending", "retrying"}
     THEN Move(p, "validating", "run")
     ELSE GotoOnly(p, "run")
  /\ UNCHANGED <<chain, calls, duplicate>>

runIpfs(p) ==
  LET r == worker[p].rec IN
  IF r.row.state = "reading_back"
  THEN IF r.loc THEN GotoOnly(p, "read") ELSE Fail(p, "readback_failed", "MISSING_OBJECT")
  ELSE Move(p, "uploading", "upload")

(* Where runGreenfield takes up an attempt in each durable state. *)
runGreenfield(p) ==
  LET r == worker[p].rec
      s == r.row.state
  IN CASE s = "reading_back" /\ r.row.ref -> GotoOnly(p, "read")
       [] s = "reading_back" /\ ~r.row.ref -> Fail(p, "readback_failed", "MISSING_OBJECT")
       [] s = "awaiting_seal" /\ r.row.ref /\ r.loc -> GotoOnly(p, "seal")
       [] s = "validating" /\ ~r.row.ref -> Move(p, "creating_object", "inspect")
       [] s = "creating_object" /\ ~r.row.ref -> GotoOnly(p, "inspect")
       [] s \in {"submitted", "uploading"} /\ ~r.row.ref -> Fail(p, "create_failed", "CREATE_FAILED")
       [] s = "submitted" /\ r.row.ref -> Move(p, "uploading", "upload")
       [] s = "uploading" /\ r.row.ref /\ ~r.loc -> GotoOnly(p, "upload")
       [] s = "uploading" /\ r.row.ref /\ r.loc -> Move(p, "awaiting_seal", "seal")
       [] OTHER -> Fail(p, "provider_failed", "PROVIDER_FAILED")

Run(p) ==
  /\ worker[p].pc = "run"
  /\ LET a == worker[p].a IN
     IF a \in TooLarge THEN Fail(p, "validation_failed", "ARTIFACT_TOO_LARGE")
     ELSE IF a \in Ipfs THEN runIpfs(p) ELSE runGreenfield(p)
  /\ UNCHANGED <<chain, calls, duplicate>>

WithReference(p) == [Same(p) EXCEPT !.row.ref = TRUE]

(* inspectObject before a create: a created object is uploaded to, a sealed
   one is moved to awaiting_seal, and only a missing one is created. *)
InspectObject(p) ==
  /\ worker[p].pc = "inspect"
  /\ \/ ProviderDown /\ Fail(p, "provider_failed", "PROVIDER_FAILED")
     \/ View = "absent" /\ GotoOnly(p, "create")
     \/ View = "created" /\ Transition(p, "uploading", WithReference(p), "upload")
     \/ View = "sealed" /\ Transition(p, "awaiting_seal", [WithReference(p) EXCEPT !.loc = TRUE], "seal")
  /\ UNCHANGED <<chain, calls, duplicate>>

(* createObject inspects again by itself before it broadcasts. *)
CreateObject(p) ==
  /\ worker[p].pc = "create"
  /\ \/ ProviderDown /\ Fail(p, "create_failed", "PROVIDER_FAILED")
     \/ View = "absent" /\ GotoOnly(p, "broadcast")
     \/ View # "absent" /\ Transition(p, "uploading", WithReference(p), "upload")
  /\ UNCHANGED <<chain, calls, duplicate>>

(* The chain accepts one create of a name.  The answer can be lost, with or
   without the transaction having landed; a refusal is treated alike. *)
Broadcast(p) ==
  /\ worker[p].pc = "broadcast"
  /\ \E lands, answered \in BOOLEAN :
        /\ lands \/ "lost" \in Faults
        /\ answered \/ "lost" \in Faults
        /\ answered => lands
        /\ chain' = IF lands /\ chain.object = "absent"
                    THEN [chain EXCEPT !.object = "created", !.indexed = "lag" \notin Faults]
                    ELSE chain
        /\ Goto(p, IF answered /\ chain.object = "absent" THEN "created" ELSE "unknown")
  /\ duplicate' = (duplicate \/ chain.object # "absent")
  /\ UNCHANGED <<att, evidence, locators, verifs, calls>>

Created(p) ==
  /\ worker[p].pc = "created"
  /\ Transition(p, "uploading", WithReference(p), "upload")
  /\ UNCHANGED <<chain, calls, duplicate>>

(* Mutation: an unresolved create is reported as an ordinary failure. *)
CreateUnknownRetryable(p) ==
  /\ worker[p].pc = "unknown"
  /\ IF View # "absent" THEN Transition(p, "uploading", WithReference(p), "upload")
     ELSE Fail(p, "create_failed", "CREATE_FAILED")
  /\ UNCHANGED <<chain, calls, duplicate>>

(* createObject's catch: reconcileCreate either finds the object or the
   outcome is recorded as unknown. *)
CreateUnknown(p) ==
  /\ worker[p].pc = "unknown"
  /\ \E found \in CreateReconciliation :
        IF found = "present" THEN Transition(p, "uploading", WithReference(p), "upload")
        ELSE Fail(p, "create_failed", "CREATE_UNKNOWN")
  /\ UNCHANGED <<chain, calls, duplicate>>

(* A sealed object refuses another upload; an IPFS URI names its content. *)
Immutable(v) == IF v = "ipfs" THEN chain.bytes[v] = "good" ELSE chain.object = "sealed"

(* uploadObject / ipfs upload: the bytes may arrive damaged, and an error
   does not say whether they arrived. *)
UploadObject(p) ==
  /\ worker[p].pc = "upload"
  /\ \/ \E b \in {"good"} \cup (IF "corrupt" \in Faults THEN {"bad"} ELSE {}) :
        /\ chain' = [chain EXCEPT !.bytes[Provider(worker[p].a)] =
                       IF Immutable(Provider(worker[p].a)) THEN @ ELSE b]
        /\ \/ GotoOnly(p, "uploaded")
           \/ ProviderDown /\ GotoOnly(p, "upload_error")
     \/ ProviderDown /\ UNCHANGED chain /\ GotoOnly(p, "upload_error")
  /\ UNCHANGED <<calls, duplicate>>

Uploaded(p) ==
  /\ worker[p].pc = "uploaded"
  /\ IF worker[p].a \in Ipfs
     THEN Transition(p, "reading_back", [WithReference(p) EXCEPT !.loc = TRUE], "read")
     ELSE Transition(p, "awaiting_seal", [WithReference(p) EXCEPT !.loc = TRUE], "seal")
  /\ UNCHANGED <<chain, calls, duplicate>>

UploadFailed(p) ==
  /\ worker[p].pc = "upload_error"
  /\ Fail(p, "upload_failed", "UPLOAD_FAILED")
  /\ UNCHANGED <<chain, calls, duplicate>>

(* waitForSeal's answer *)
SealStatus == CASE View = "absent" -> "missing" [] View = "sealed" -> "sealed" [] OTHER -> "pending"

(* awaitSeal: at most MaxSealPolls looks at the object. *)
AwaitSeal(p) ==
  /\ worker[p].pc = "seal"
  /\ \/ ProviderDown /\ Fail(p, "provider_failed", "PROVIDER_FAILED")
     \/ SealStatus = "sealed" /\ Move(p, "reading_back", "read")
     \/ SealStatus = "missing" /\ Fail(p, "readback_failed", "MISSING_OBJECT")
     \/ SealStatus = "pending" /\ worker[p].poll < MaxSealPolls /\ Move(p, "awaiting_seal", "seal")
     \/ SealStatus = "pending" /\ worker[p].poll = MaxSealPolls /\ Fail(p, "seal_timeout", "TIMEOUT")
  /\ UNCHANGED <<chain, calls, duplicate>>

(* Mutation: the size is compared and the digests are not. *)
VerifyReadbackSize(p) ==
  /\ worker[p].pc = "read"
  /\ LET served == chain.bytes[Provider(worker[p].a)] IN
     \/ served = Unset /\ FailWith(p, "readback_failed", "MISSING_OBJECT", "failed")
     \/ served # Unset /\ Transition(p, "verified", [Same(p) EXCEPT !.ver = "verified"], "release")
  /\ UNCHANGED <<chain, calls, duplicate>>

(* verifyReadback compares the bytes served with the canonical ones. *)
VerifyReadback(p) ==
  /\ worker[p].pc = "read"
  /\ LET served == chain.bytes[Provider(worker[p].a)] IN
     \/ ProviderDown /\ FailWith(p, "readback_failed", "PROVIDER_FAILED", "failed")
     \/ served = Unset /\ FailWith(p, "readback_failed", "MISSING_OBJECT", "failed")
     \/ served = "bad" /\ FailWith(p, "hash_mismatch", "HASH_MISMATCH", "failed")
     \/ served = "good" /\ Transition(p, "verified", [Same(p) EXCEPT !.ver = "verified"], "release")
  /\ UNCHANGED <<chain, calls, duplicate>>

-----------------------------------------------------------------------------
(* The environment. *)

(* The storage provider indexes an object some time after its create. *)
Index == /\ chain.object # "absent" /\ ~chain.indexed
         /\ chain' = [chain EXCEPT !.indexed = TRUE]
         /\ UNCHANGED <<att, locators, verifs, evidence, worker, calls, duplicate>>

(* The chain seals an object whose bytes have arrived. *)
Seal == /\ chain.object = "created" /\ chain.bytes["greenfield"] # Unset
        /\ chain' = [chain EXCEPT !.object = "sealed"]
        /\ UNCHANGED <<att, locators, verifs, evidence, worker, calls, duplicate>>

(* A worker stops: its lease stays until it expires. *)
Crash(p) == /\ "crash" \in Faults
            /\ worker[p].pc # "idle"
            /\ Finish(p)
            /\ UNCHANGED <<att, locators, verifs, evidence, chain, calls, duplicate>>

(* leaseDurationMs passes. *)
ExpireLease(a) == /\ "expire" \in Faults
                  /\ att[a].owner # Unset /\ ~att[a].expired
                  /\ att' = [att EXCEPT ![a].expired = TRUE]
                  /\ UNCHANGED <<locators, verifs, evidence, chain, worker, calls, duplicate>>

Init ==
  /\ att = [a \in Attempts |-> NoAttempt]
  /\ locators = [of |-> [v \in {"ipfs", "greenfield"} |-> [attempt |-> Unset, verified |-> FALSE]],
                 last |-> Unset]
  /\ verifs = [of |-> [a \in Attempts |-> Unset], latest |-> Unset]
  /\ evidence = Unset
  /\ chain = [object |-> "absent", indexed |-> FALSE, bytes |-> [v \in {"ipfs", "greenfield"} |-> Unset]]
  /\ worker = [p \in Workers |-> Idle]
  /\ calls = 0
  /\ duplicate = FALSE

WorkerStep(p) ==
  \/ AcquireLease(p) \/ Resume(p) \/ Repend(p) \/ ReconcileUnknownCreate(p) \/ ReleaseLease(p)
  \/ Validate(p) \/ Run(p) \/ InspectObject(p) \/ CreateObject(p) \/ Broadcast(p) \/ Created(p)
  \/ CreateUnknown(p) \/ UploadObject(p) \/ Uploaded(p) \/ UploadFailed(p) \/ AwaitSeal(p)
  \/ VerifyReadback(p)

Next ==
  \/ \E p \in Workers, a \in Attempts : CreateOrGet(p, a)
  \/ \E p \in Workers : WorkerStep(p)
  \/ \E p \in Workers : Crash(p)
  \/ \E a \in Attempts : ExpireLease(a)
  \/ Index
  \/ Seal

Spec == Init /\ [][Next]_vars

-----------------------------------------------------------------------------
(* The marketplace's reader. *)

(* verifiedGraph over the rows evidenceForVersion selects: the locator
   verified last and the newest verification of the object must be the
   greenfield attempt's own. *)
Linked == /\ verifs.latest # Unset
          /\ locators.last = "greenfield"
          /\ locators.of["greenfield"].attempt = verifs.latest
          /\ verifs.of[verifs.latest] = "verified"

failureState == {"validation_failed", "create_failed", "upload_failed", "seal_timeout", "readback_failed", "hash_mismatch"}
pendingState == {"pending", "validating", "creating_object", "uploading", "awaiting_seal", "reading_back"}

(* projectGreenfieldEvidence: the status shown for the artifact. *)
EvidenceStatus ==
  IF verifs.latest = Unset
  THEN IF evidence \in failureState THEN "failed" ELSE "pending"
  ELSE CASE Linked -> "verified"
         [] ~Linked /\ (evidence \in failureState \/ verifs.of[verifs.latest] = "failed") -> "failed"
         [] ~Linked /\ evidence \in pendingState /\ verifs.of[verifs.latest] # "failed" -> "pending"
         [] OTHER -> "unavailable"

-----------------------------------------------------------------------------
(* Properties. *)

(* An attempt is verified (publisher.ts verifyReadback) only if its bytes
   can be read back intact, and a Greenfield one only if the object is
   sealed, whatever calls ran, stopped, overlapped or were retried before. *)
VerifiedEvidence ==
  \A a \in DOMAIN att : att[a].state = "verified" =>
     /\ chain.bytes[Provider(a)] = "good"
     /\ a \notin Ipfs => chain.object = "sealed"

(* The marketplace (evidence.ts verifiedGraph) shows a link only to a
   sealed object with the canonical bytes, although the locator and the
   verification it joins can come from different attempts. *)
LinkedIsSealed == EvidenceStatus = "verified" => chain.object = "sealed" /\ chain.bytes["greenfield"] = "good"

(* "a retry can never blindly submit a second create transaction"
   (publisher.ts runGreenfield): no create is submitted for an object that
   is already on the chain. *)
OneCreate == ~duplicate

(* "a later worker must reconcile before any rebroadcast" (greenfield-sdk.ts
   createObject): an attempt whose create is unresolved is retried only when
   the provider shows the object, or when it is not on the chain. *)
ReconciledFirst ==
  \A a \in Attempts :
    unknownCreate(att[a]) /\ att'[a].state = "retrying"
      => View # "absent" \/ chain.object = "absent"

UnknownIsReconciled == [][ReconciledFirst]_<<att, chain>>
=============================================================================
