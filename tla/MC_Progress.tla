----------------------------- MODULE MC_Progress -----------------------------
(***************************************************************************)
(* What must eventually happen, for TLC: a funding is projected (EoaHire), *)
(* a relayed operation is projected (SdkCoordinator), a final block is     *)
(* scanned (RegistrySync), an identity is registered (CreatorRegistration).*)
(* A behaviour is one scene, with the fairness of its component.           *)
(***************************************************************************)
EXTENDS Naturals, Sequences

CONSTANTS Hashes, NoHash, NoTab, NoTx,
          Requests,   \* requests the hire's server runs at a time
          None

VARIABLES scene,
  rows, parent, job, ledger, sends, saved, tab, h, faults,
  ops, store, tx, relayed, contract, frame, crashes,
  chain, final, db, run, budget,
  log, bound, head, finalized, mint, uri, mints, uris, page, closes

hireVars == <<rows, parent, job, ledger, sends, saved, tab, h, faults>>
sdkVars == <<ops, store, tx, relayed, contract, frame, crashes>>
syncVars == <<chain, final, db, run, budget>>
registrationVars == <<log, bound, head, finalized, mint, uri, mints, uris, page, closes>>

NoHire == /\ rows = None /\ parent = None /\ job = None /\ ledger = None /\ sends = None
          /\ saved = None /\ tab = None /\ h = None /\ faults = None
NoSdk == /\ ops = None /\ store = None /\ tx = None /\ relayed = None
         /\ contract = None /\ frame = None /\ crashes = None
NoSync == chain = None /\ final = None /\ db = None /\ run = None /\ budget = None
NoRegistration ==
  /\ log = None /\ bound = None /\ head = None /\ finalized = None /\ mint = None
  /\ uri = None /\ mints = None /\ uris = None /\ page = None /\ closes = None

-----------------------------------------------------------------------------
Hire == INSTANCE EoaHire WITH
  Tabs <- {"t"}, Slots <- Requests, LastStep <- 3, Watched <- {3}, MaxFaults <- 1, chain <- ledger

Operations == {"create", "submit", "settle", "claim_refund"}

\* The worker submits; the owner reconciles by hand, now and then or never,
\* and others reject.
Sdk == INSTANCE SdkCoordinator WITH
  Hashes <- Operations, TxHashes <- Operations \cup {"public", "hire0"}, Procs <- {"p"},
  ServiceKinds <- {}, WorkerKinds <- {"submit"}, BrowserKinds <- {}, SellerKinds <- {},
  PublicVerdicts <- {"REJECTED"}, StartState <- "funded", MaxCrashes <- 1,
  db <- store, sends <- relayed, chain <- contract

Sync == INSTANCE RegistrySync WITH
  Workers <- {"w"}, Identities <- {"a1", "a2"}, Owners <- {"x", "y"}, FinalizedTag <- TRUE, Threshold <- 0,
  NetworkDepth <- 0, MaxBlockRange <- 1, MaxHeight <- 2, MaxReorgs <- 1, MaxRuns <- 0, Versions <- 2,
  MaxFailures <- 1

Registration == INSTANCE CreatorRegistration WITH
  Tabs <- {"t"}, MaxBlock <- 3, Window <- 1, MaxCloses <- 1, Reorgs <- FALSE, SdkPending <- FALSE,
  final <- finalized, tab <- page

Init ==
  \/ scene = "hire" /\ Hire!Init /\ NoSdk /\ NoSync /\ NoRegistration
  \/ scene = "sdk" /\ Sdk!Init /\ NoHire /\ NoSync /\ NoRegistration
  \/ scene = "sync" /\ Sync!Init /\ NoHire /\ NoSdk /\ NoRegistration
  \/ scene = "registration" /\ Registration!Init /\ NoHire /\ NoSdk /\ NoSync

OthersIdle ==
  /\ IF scene = "hire" THEN TRUE ELSE UNCHANGED hireVars
  /\ IF scene = "sdk" THEN TRUE ELSE UNCHANGED sdkVars
  /\ IF scene = "sync" THEN TRUE ELSE UNCHANGED syncVars
  /\ IF scene = "registration" THEN TRUE ELSE UNCHANGED registrationVars
  /\ UNCHANGED scene

Next ==
  /\ \/ scene = "hire" /\ Hire!Next
     \/ scene = "sdk" /\ Sdk!Next
     \/ scene = "sync" /\ Sync!Next
     \/ scene = "registration" /\ Registration!Next
  /\ OthersIdle

vars == <<scene, hireVars, sdkVars, syncVars, registrationVars>>

(* What runs goes on: handlers, the worker's run, the sync, and the page
   between two of the creator's decisions.  A scene is chosen once, so
   fairness of a disjunction over scenes is fairness of each scene's own. *)
Running ==
  \/ scene = "hire" /\ \E r \in Requests : Hire!HandlerStep(r)
  \/ scene = "sdk" /\ (Sdk!ExecStep("p") \/ Sdk!RecStep("p") \/ Sdk!StoreStep("p"))
  \/ scene = "sync" /\ Sync!SyncStep("w")
  \/ scene = "registration" /\ Registration!RunningPage("t")

ChainGoesOn ==
  \/ scene = "sdk" /\ (Sdk!Mine("submit") \/ Sdk!Drop("submit"))
  \/ scene = "registration" /\ Registration!Finalize

(* Retries that are in the code: the buyer's page polls the fund operation
   (commerce-journey.tsx), the worker ticks (t5-reference-service.ts). *)
RetryInCode ==
  \/ scene = "hire" /\ \E r \in Requests : Hire!PollStatus(r, 3)
  \/ scene = "sdk" /\ Sdk!CallWorker("p")

(* Assumed of a person, for nothing in the code repeats it: as long as the
   dashboard shows an unfinished registration its creator comes back, unlocks
   the passkey and clicks "Register ERC-8004 identity".  Whether the passkey
   signs a transaction then is not assumed. *)
CreatorComesBack == scene = "registration" /\ Registration!Start("t")

(* Assumed of others who are asked again and again: a node serves a receipt
   that exists, the directory has stored what is final. *)
AnsweredAtLast ==
  \/ scene = "sdk" /\ Sdk!RecVerified("p")
  \/ scene = "registration" /\ Registration!AppendOperation("t") /\ log'.op

Fairness ==
  /\ WF_vars(Running /\ OthersIdle)
  /\ WF_vars(ChainGoesOn /\ OthersIdle)
  /\ SF_vars(RetryInCode /\ OthersIdle)
  /\ SF_vars(CreatorComesBack /\ OthersIdle)
  /\ SF_vars(AnsweredAtLast /\ OthersIdle)

Spec == Init /\ [][Next]_vars /\ Fairness

-----------------------------------------------------------------------------
(* operationStatus repairs: a funding transaction that succeeded and that
   the fund operation knows is projected in the end, however often a
   projection was interrupted, unless the operation went to manual review,
   which no poll looks at again. *)
FundingProjected ==
  (scene = "hire" /\ \E x \in Hashes : rows[3].hash = x /\ ledger[x] = [step |-> 3, outcome |-> "success"])
    ~> (scene = "hire" /\ (job # NoHash \/ rows[3].status = "manual_review"))

(* The worker (Erc8183ReferenceProviderRunner.run): once the row of its
   submission holds the hash of a transaction that succeeded, some later tick
   shows the submission on the canonical job, or a person is asked to look.
   Only a process that stopped may leave a confirmed row behind without the
   projection, because the worker returns at once on such a row. *)
SubmissionIsSettled ==
  (scene = "sdk" /\ tx["submit"] = "ok" /\ ops["submit"].hash # NoHash)
    ~> (scene = "sdk" /\ \/ Sdk!Projected("submit")
                         \/ ops["submit"].status = "manual_review"
                         \/ ops["submit"].status = "confirmed" /\ crashes > 0)

(* A final block is eventually scanned by the job that keeps running
   (syncRegistry), whatever reads fail and whatever is reorganised above. *)
FinalIsScanned ==
  \A n \in 1..2 : (scene = "sync" /\ final >= n) ~> (scene = "sync" /\ Len(db.checkpoint.scanned) >= n)

(* A registration whose two transactions are final is registered in the
   end, whatever the browser lost or misreported, if its creator keeps asking
   and the authority stays active (creator-registration.ts reconcile). *)
FinalIsRegistered ==
  (scene = "registration" /\ mint.st = "mined" /\ uri.st = "mined")
    ~> (scene = "registration" /\ (Registration!State(log) \in {"registered", "failed"} \/ ~bound))
=============================================================================
