# A formal model of the bnbera commerce core

bnbera is a marketplace for on-chain agents.  Agents enter its directory from the ERC-8004
registries or are created in a studio; a buyer hires one by opening and funding an ERC-8183
job on chain, a provider delivers, and Postgres keeps what the web application shows.  These
TLA+ modules model the parts of the system where several actors write the same rows, where
money moves, and where an answer may be lost: the browser hire, the server's own relay
operations, the providers, the evidence, reviews and payments, the ways into the directory,
the creator studio and the marketplace reads.  TLC checks them on small instances; TLAPS proves
the most important facts for every value of the constants.

Paths are relative to the repository root. `CS` is `apps/web/src/lib/commerce-server.ts`, `CJ` is
`apps/web/src/components/commerce-journey.tsx`, `AC/` is `packages/agent-commerce/src/`,
`AI/` is `packages/agent-ingestion/src/`, `WEB/` is `apps/web/src/lib/`.

## 1. Inventory of the system

| Component | State | Operations | Talks to | What is hard |
|---|---|---|---|---|
| Operation repository `AC/operations.ts` | `erc8183_operations`, one row per idempotency key: status, transaction hash, failure code, dispatch claim, calls ID, job ID, receipt block | reserve, markSubmitted, attachJobId, attachCallsId, claimExternalDispatch, releaseExternalDispatch, markReceipt, markUnknown, markFailed, reconcile, markManualReview; each one is a guarded UPDATE, with an idempotent replay | every handler below | the WHERE clause is the only mutual exclusion in the system |
| Browser hire, server `CS` and the routes under `apps/web/app/api/commerce` | none of its own; acts on rows it has read before an await | prepareHireIntent, claimExternalDispatch, releaseExternalDispatch, attachExternalExecution, operationStatus, reconcile, confirmEoa, advanceEoa | operation, reservation and job repositories, chain RPC | stale rows, mutual recursion, nested catch blocks, a crash between two statements |
| Browser hire, page `CJ` | position in dispatchBrowser, `localStorage` copy of a sent hash | dispatchBrowser, loadOperation, the 4-second poll, attachTransactionHash | dispatch, operation and hire routes, the wallet | several tabs, lost responses, rejected prompts, a wallet that sends and then fails |
| EOA receipt verification `AC/chain.ts`, `AC/eoa.ts` | none | verifyEoaReceipt, verifyReceiptForOperation | RPC | a lagging or failing node, transactions of another step |
| Hire reservations `WEB/commerce-reservations.ts` | `commerce_jobs` (draft, negotiating, funded) | createDraft, get, claim | hire and fund handlers | two intents for one quote, terms that change meanwhile |
| Canonical jobs `AC/postgres-jobs.ts` | `erc8183_jobs`, `commerce_jobs`, results, approvals | create with syncMarketplaceFunding, transition, approveResult | coordinator, marketplace | rows that must agree, replays, a write computed from an older read |
| SDK coordinator `AC/service.ts` | none | executeSdk, reserveExternal, attachExternalExecution, reconcile, persistCanonical* | operations, jobs, chain, relay | unknown outcomes, retry of what was done |
| Job lifecycle `AC/lifecycle.ts`, `AC/repository.ts` | job, events, idempotency records in memory | create, transition, complete | jobs | expiry boundaries, overlapping calls |
| Marketplace projection `AC/marketplace-projection.ts` | projection rows, reviews | project, create, update and revoke a review | jobs | nothing to lock before the first review, replays |
| Reference provider worker `AC/reference-provider*.ts`, `scripts/t5-reference-service.ts` | slots, their operations, the advisory lock | quote, admission, claim, sign, broadcast, record, recover | chain, Postgres | a crash between signing and sending; a lock session that ends unnoticed |
| External sellers `AC/external-*.ts`, `WEB/external-seller-*.ts` | offers, delivery rows, search cursor | offer, hire, notify once, refresh | third-party HTTP, chain logs | timeouts, retries, a cursor over blocks that are reorganised |
| Payment gateway `packages/payment-gateway` | attempts, receipts, reconciliations, replay keys | the attempt life cycle, addReceipt, reconcile | facilitator | a payment relayed twice, a rollback of somebody else's write |
| Greenfield publisher `packages/greenfield` | attempts, locators, verifications, the bucket | publish, reconcile, ensureCanaryBucket | storage chain and provider | unknown outcomes, leases, a provider that lags behind its chain |
| Evidence of settled jobs `scripts/t8-greenfield-*`, `packages/greenfield/src/t8-inputs.ts` | frozen rows, row files, agent_runs | load, freeze, export, publish, record | marketplace rows, publisher | stale files, two operators, a reclassification in between |
| Registry ingestion `AI/` | cursors, leases, agents, claims, embeddings | syncRegistry, claim, revalidate, revoke, reconcile, scan, backfill, ingest | RPC, registries, 8004scan | finality, lost locks, a cursor that skips |
| Directory search and categorisation | predictions, vectors | classify, embed, search | ingestion | a version indexed with the data of another |
| Marketplace read model `packages/marketplace`, `WEB/marketplace-*.ts` | versions, axes of a listing, probes, a one-slot cache | publish, promote, take down, read, judge | ingestion, moderators, pages | reads spread over time, a shared load, a review without a lock |
| Creator studio and worker `WEB/creator-*.ts` | drafts, deployments, append-only events | queue, claim, deploy, prepare and record mint and URI, reconcile | chain, Studio, worker | a lease shorter than a step, two tabs, lost answers |
| Altana authority `packages/altana`, `WEB/creator-authority-*.ts` | `agent_authorities`, the runtime's secret file | grant, observe, hand over, use, revoke; the phase-zero run | KeyStore contract | a revocation racing a use, cached or retried answers |
| Sign-in and sessions `packages/auth`, `WEB/commerce-auth.ts`, `WEB/passkey-bootstrap.ts` | challenges, sessions, the saved first action | challenge, verify, rotate, sign out, bootstrap | browser, relay | a challenge used twice, a first action sent twice |
| API surface, database, configuration, domain, UI kit, scripts and templates | none that changes concurrently | queries, parsing, rendering, command lines | - | - |

What makes each of them correct:

- operations: a step is dispatched to a wallet at most once, and says `confirmed` only of a
  transaction of its own that succeeded;
- browser hire: transactions are sent in order, each after its predecessor has landed; the job
  row and its reservation are funded together; a known successful funding gets projected; a
  rejected prompt leaves the step resumable;
- coordinator and canonical jobs: no call is handed to the relay twice; a reconciled operation
  shows on the job; the job, its result row, its parent and the chain tell one story; an approval
  is not lost;
- job lifecycle: the stored job is what its events make of it;
- providers: one submission per slot, its hash stored before it is sent; one notification per
  job; the search does not pass over the submission;
- evidence: `verified` means readable and sealed; an object is created once; a published run is
  the settled one;
- reviews and payments: one review per settled job; no payment delivered unpaid or relayed twice;
- registry: what is stored is final, a claim names an owner, a scan misses nobody, a cursor moves
  only past what has its vector;
- creator: one deployment, one mint, one URI update, one first action; a session has a challenge of
  its own; the runtime acts only under a live authority;
- marketplace: the published version moves forward, a takedown stands, a card shown as available is
  fresh, an answer is current.

`PROJECT.json` lists every component with its status and the hazards at their lines.

## 2. Modules and their correspondence with the code

| Module | Models |
|---|---|
| `Erc8183Operations` | one row of `erc8183_operations` and each statement of `PostgresErc8183OperationRepository`. `X(r, ...)` is the row after statement X, `XOk(r, ...)` whether the method returns or throws `IDEMPOTENCY_CONFLICT` |
| `EoaHire` | tabs, requests, database and chain for one browser hire: create, register, set_budget, approve, fund |
| `HireProtocol` | the abstract promise to the buyer, which `EoaHire` refines: send each step once, in order, after its predecessor landed; show the job as funded only after the funding landed |
| `EoaRejection` | `EoaHire` with a history variable for steps reopened by a rejection |
| `JobStore` | the canonical job, its result row and its parent, and the statements of `postgres-jobs.ts` on them |
| `SdkCoordinator` | one job from its relay hire to its settlement or refund: concurrent executeSdk, attach, reconcile and canonical persistence over `Erc8183Operations` and `JobStore`, with a relay that loses answers and processes that stop |
| `JobLifecycle` | the process-local repository with its events and overlapping calls, up to the expiry |
| `ReferenceService` | quotes, slots, the singleton lock, and the worker that signs, stores, sends and recovers |
| `ExternalDelivery` | offer, hire, notification and submission search for an external seller |
| `Greenfield`, `GreenfieldBucket` | publication attempts of one artifact under leases; the one bucket mutation of the adapter |
| `FrozenEvidence` | the evidence of one settled job: load, check, freeze, export, publish, record |
| `Reviews` | review transactions at READ COMMITTED behind unique indexes |
| `ReviewContract` | the call-at-a-time contract of the in-memory projection, which `Reviews` refines |
| `PaymentGateway` | payment attempts, receipts, reconciliations, the serialized transaction and its rollback |
| `RegistrySync` | runs of syncRegistry against a chain that reorganises |
| `IdentityClaims` | claim, revalidate, revoke and reconcile of one identity at READ COMMITTED |
| `ScanJob` | runs that page through a growing catalogue, with the client's circuits and fallback |
| `EmbeddingBackfill` | workers that embed versions and move a compare-and-set cursor |
| `Listing` | one agent from document to version, category, vector, review, takedown and card |
| `DirectoryRead` | requests answered through the one-slot cache, the gated read model, a remote API or fixtures |
| `SignIn`, `PasskeyBootstrap` | challenges and sessions; the first action of a passkey wallet |
| `CreatorDeployment`, `CreatorRegistration`, `CreatorAuthority` | the deployment queue and worker; the two-phase identity registration; the authority of a draft |
| `PhaseZero` | the phase-zero run of a session and the report it finalizes |
| `JobPromise`, `ServicePromise`, `RecordsPromise`, `CreatorPromise`, `RegistryPromise` | the properties promised of several components, over the variables they speak of |
| `MC_*` | scenes for TLC (section 3) |
| `*_proofs` | the theorems (section 4) |

A *promise* module declares only the variables its properties mention and states the properties.  The
`MC_` module that composes the components and the proof module that proves one of them both extend
it, so that what TLC checks and what is proved is one definition.  A component is instantiated
there (`Sync == INSTANCE RegistrySync`), and the theorems are about `Sync!Spec`.  `Listing` and `DirectoryRead` share no
name, state their own properties and are extended directly.

**Granularity.** A request is cut at its awaits: one action per database statement, chain read or
external call, and everything between two awaits belongs to the action before it.  A Postgres
transaction is cut at the statements whose effect another transaction can see or wait for (the row
lock, the commit, what the unique indexes refuse).  A crash is an action that may come between any
two of these.  Where two reads in a row are of data nobody changes meanwhile they are one action.

State of `EoaHire`, as an example of the correspondence; every other module lists the code of its variables
beside their declaration:

| Variable | Code |
|---|---|
| `rows[s]` | operation row of step s |
| `parent` | `commerce_jobs` status and funding hash |
| `job` | funding hash of the `erc8183_jobs` row, `NoHash` when there is none |
| `chain[x]` | the step transaction x belongs to and its outcome (external) |
| `sends[s]` | how often the wallet broadcast step s (external, observed by the properties) |
| `saved[s]` | `localStorage` entry with the sent hash |
| `tab[t]` | where dispatchBrowser or loadOperation of tab t awaits |
| `h[r]` | the request in slot r: program counter, operation at hand and the row as it was read, the enclosing try blocks of confirmEoa (`frames`), the error in flight, the response |
| `faults` | how often the environment has misbehaved |

`ConfirmEoa` is the synchronous prefix of confirmEoa and is used by all its callers
(`AttachPosted`, `PollStatus`, `ReconcileOperation`, `AttachTransactionHash`, `AdvanceEoa`).  confirmEoa
and advanceEoa call each other inside a try block, so an error in a later step is caught by
the frame of an earlier one: `frames` is that stack, and `CatchKeeping`, `CatchUnknown`,
`CatchReverted` and `CatchReview` are the branches of the catch block, applied to one frame
at a time.

**Data.** Only what decides control is kept: a hash is a model value or the name of its operation, an
idempotency key is the step it names, a document is a name or a revision number, an error is
one of the codes the catch blocks distinguish, and a verification (a receipt, a signature, a
schema) is its verdict given the state it inspects.  A block hash in `RegistrySync` is the
prefix of the chain it closes, because a hash binds its history.

**The environment.** Modelled as it may behave, never fair unless section 3 says so: lost, late and
repeated answers; processes, tabs and requests that stop anywhere; wallets that reject, fail or
broadcast without telling; relays that accept and answer nothing; nodes and providers that lag behind
their chain; reorganisations above the finality the network gives; leases that run out;
database sessions that end before the process notices; other people who settle, reject, refund,
moderate or transfer meanwhile.

Assumptions about what is outside the repository: a mined transaction of the hire is final; a call
succeeds on chain only after the calls it builds on and a job is funded once; a fetch of the hire page is
delivered at most once; a statement that matched no row is followed by a re-read that sees the row it did
not match; the relay reveals a transaction hash only after the transaction is in a block; a
registry log is mined at most once on a chain; only a wallet's holder signs for it.

## 3. Runs

A run of several components is a choice of *scenes*: a behaviour picks one scene in its initial state, the
other components rest.  A property is about its own component and holds in the rest state, so that one run
answers the question for all of its components.  One scene of a component uses the constants of the `.cfg`, which are those
the theorems are about; the others are instances with constants of their own.

| Run | Module | Checks |
|---|---|---|
| `hire` | `MC_EoaHire` in three scenes: two tabs meet before the fund step; a second tab joins at the fund step; one tab pays while other requests poll, reconcile and repair every step; 2 concurrent requests, 3 steps, 1 fault | `TypeOK`, `AtMostOneSend`, `ConfirmedIsOnChain`, `FundedProjection`, `ImplementsHireProtocol` |
| `sdk` | `MC_Sdk`: `SdkCoordinator` in four scenes (the worker submits with a crash; an external seller submits and the server or somebody else settles; the server refunds while others reject or expire; a whole life), `ReferenceService`, `ExternalDelivery`, `JobLifecycle` | `OneSend`, `ReconciledIsProjected`, `ProjectionAgrees`, `ApprovalSurvives`, `SubmittedOnce`, `OnePostPerJob`, `CursorMissesNothing`, `JobIsItsEvents` |
| `records` | `MC_Records`: `Greenfield` in three scenes (lost answers and a lagging provider, with the constants of the `.cfg`; every fault with fewer calls; several attempts), `GreenfieldBucket`, `Reviews`, `PaymentGateway` in three, `PhaseZero`, `FrozenEvidence` | `VerifiedEvidence`, `OneCreate`, `ReceiptIsOurs`, `OneVerifiedReview`, `ImplementsContract`, `PaidOnce`, `PassedIsTrue`, `EvidenceIsSettled` |
| `registry` | `MC_Registry`: `RegistrySync` by finalized tag and by confirmations, `IdentityClaims`, `ScanJob` by cursor and by offset, `EmbeddingBackfill` with and without the lock held | `ScannedIsFinal`, `ClaimedByOwner`, `NothingSkipped`, `PassedIsEmbedded` |
| `creator` | `MC_Creator`: `CreatorDeployment` with overrun leases and with two drafts, `CreatorRegistration` with reorganisations and with reloads, `SignIn`, `CreatorAuthority`, `PasskeyBootstrap` | `DeployedOnce`, `SignedOnce`, `ReconciledIsFinal`, `SessionIsEarned`, `UsedAuthorityIsLive`, `OneFirstAction` |
| `market` | `MC_Market`: `Listing` published and reviewed, read, and indexed; `DirectoryRead` through the cache (both with the constants of the `.cfg`) and for every configuration | `ShownIsFresh`, `CurrentMovesForward`, `TakenDownStays`, `AnswerIsCurrent` |
| `progress` | `MC_Progress`: one page or worker of `EoaHire`, `SdkCoordinator`, `RegistrySync`, `CreatorRegistration`, with fairness | `FundingProjected`, `SubmissionIsSettled`, `FinalIsScanned`, `FinalIsRegistered` |
| `rejection`, `sdk_approved_refund`, `greenfield_crash`, `greenfield_retry`, `vector_category` | single components | one property each, violated (below) |

What the properties say stands beside each of them in its module.  The ones that relate most:

- `ImplementsHireProtocol`, `ImplementsContract`: refinements.  The hire, with all its requests and
  repairs, sends in order and shows the truth; the review transactions, however they interleave, are calls
  made one at a time, up to the first revocation (section 5).
- `ProjectionAgrees`, `ReconciledIsProjected`: three rows written by different paths and a chain that
  others write, too, tell one story, and an operation nobody will look at again has its effect.
- `ApprovalSurvives` (action property): a transition computed from an older read never erases an approval,
  except by the refund or by the evidence of somebody else's settlement.
- `ScannedIsFinal`: reads of one run may be on different branches, two runs overlap, and yet what is promoted
  is on the final chain.
- `TakenDownStays` (action property): a run that began earlier never promotes what was taken down meanwhile.
- `SubmissionIsSettled`: three retries (the worker's tick, the reconcile it calls, the receipt read) together bring a
  submission to the job or to a person, whatever was interrupted before.

**Bounds.** Every bound is a constant with a name, given in the `.cfg` or in the instances of the `MC_`
module.  Two actors of each kind are enough for a race, since each actor is sequential and they
meet only in rows.  Beyond that each bound is chosen by what the property needs to fail:

- *hire*: three steps keep one of every kind (the first, which creates the job ID; one that builds on another;
  the fund step, which projects).  `Watched` are the steps other requests poll, reconcile or repair, in
  the scene of one tab; the races of the other two come from the second tab, which is enough for them.  One fault at a time with concurrency.  `Hashes` has as many
  values as steps; `AtMostOneSend` is proved for any number.
- *sdk*: two processes; one crash in the scene of the worker; the service has two slots, two drafts and
  two faults, so that a crash and a lost session meet; delivery has two windows of two blocks on a chain of four,
  one reorganisation; the lifecycle has three keys up to the expiry and two calls waiting at once.
- *records*: two callers and two to four calls, so that a second call meets the rows of one that stopped and
  a third repairs; two jobs, three keys and four requests for reviews (two operations can share a
  key, and a third reuses it); `KeysInOrder` takes unused keys in a fixed order, which loses nothing because keys
  are interchangeable.
- *registry*: two blocks above finality, three runs or calls, a catalogue of three or four agents that grows by
  one, two versions, so that a cursor has something to skip.
- *creator*: two workers or pages, one or two drafts, two sessions of a draft, one challenge presented
  by two requests.
- *market*: one run against reviews and moderation, two documents, three versions (a document returns while a
  newer version exists), two loads and two requests that share one.

Each property of a passing run also has a mutant in `PROJECT.json`: a definition of the model changed as a
plausible bug would change its code, under which TLC finds the property violated within
these same bounds.  That is the evidence that the bounds are large enough for the case to happen.
Deadlock is checked in the runs of the hire; elsewhere a bounded number of calls really ends.
Symmetry is used for interchangeable tabs, processes and workers, never with a liveness property.

**Fairness** (`MC_Progress`). The fairness of the specification is a conjunction of five named parts.  Three describe the
code and the chain, two are assumptions about others.  Nothing else is fair: no wallet or passkey needs to sign, and
nobody needs to decide anything or to reconcile by hand.

- `Running`, weak: Node goes on with the handler, worker run or sync it has begun, and a page with the flow between two
  of the creator's decisions; a process that dies does so by a counted fault.
- `ChainGoesOn`, weak: a relayed transaction is mined or dropped, a block becomes final.
- `RetryInCode`, strong: the buyer's page polls the fund operation every `POLL_INTERVAL_MS` (CJ 383-396), and the
  reference service ticks every five seconds and runs the worker on its open slot (`t5-reference-service.ts:145`, 107-117).
  (A slot left in `signing` stops every later tick, line 109: the submissions meant here are those of a service without one.)
  Polls and ticks compete for a bounded number of slots or processes, so they are possible again and again rather than
  continuously, which is why weak fairness would not do.
- `CreatorComesBack`, strong, assumed of a person: a reconcile of the registration runs only inside
  `registerCreatorErc8004Agent`, when the creator clicks "Register ERC-8004 identity" (`creator-dashboard.tsx:144-166`,
  183); no poll and no job repeats it.  `FinalIsRegistered` is therefore a statement about creators who click again as
  long as their dashboard shows an unfinished registration.  What the passkey does when it is asked is left open.
- `AnsweredAtLast`, strong, assumed of those who are asked again and again: a node serves a receipt that exists, and the
  directory has stored what is final.

`FundingProjected` likewise says nothing about a buyer who closes the page and never returns.

**The violations.** Five runs end in a counterexample, each a disagreement between a sentence of the
repository and its code:

- `rejection`: `docs/UI-UX-ACTION-INVENTORY.md:445` asks that a rejected prompt keeps the operation's resume
  path.  A second tab whose claim was denied reports "no hash"; when that arrives after the first tab's
  rejection has released the step, attachExternalExecution marks the reopened step unknown, which no
  claim and no release accepts again.
- `sdk_approved_refund`: a failed projection is "recoverable by `reconcile`" (`AC/service.ts:379`).  The refund of
  a job whose result was approved is not: the expired record still carries the approval, which the record
  schema refuses (`AC/types.ts:191`).
- `greenfield_crash`: "a retry can never blindly submit a second create transaction" (`publisher.ts:547`).  A
  worker that stops after its create was broadcast leaves `creating_object`; the next call asks only the
  storage provider, and creates again while that lags behind its chain.
- `greenfield_retry`: "a later worker must reconcile before any rebroadcast" (`greenfield-sdk.ts:1115`).  runGreenfield
  decides what to do with a failed attempt on the row it read before the lease (`publisher.ts:267`, 300-313).  Two calls
  read a retryable `provider_failed`; one ends `CREATE_UNKNOWN` with its create on the chain; the other takes
  the lease and moves the unresolved attempt to `retrying` without reconciling it.
- `vector_category`: "only a category-bearing, immutable, published version may be indexed"
  (`AI/composition.ts:74`).  The category is saved for the newest version of the agent, which is not the
  published one when a newer version was withheld.

The scenes of the passing runs that check the same properties leave the triggering case out by name:
`OneCreate` in `records` is checked where no call stops or is refused (scene `lost`), and the refund of an approved job is
outside `ReconciledIsProjected` because such an operation never becomes reconciled.  That an unresolved create is
reconciled first is in no passing run: it fails as soon as a request may be refused and a third call may come.

## 4. Theorems

Each theorem holds for any number of actors, rows, calls, crashes and failures, and any value of the other
constants that satisfies the hypotheses named here.  A hypothesis is an `ASSUME` of the component's module or a
definition (`Parameters`, ...) in the proof module, and the instances of section 3 satisfy all of them.

| Theorem | States | For every value of the constants with |
|---|---|---|
| `EoaHire_proofs` `TypeCorrect` | `TypeOK` | the assumptions of the modules: `NoHash` is no hash, `NoTab` no tab, `LastStep >= 3`, `Watched` a set of steps, `MaxFaults` a number |
| `NoDoubleSend` | `AtMostOneSend` | the same |
| `ConfirmedOnChain` | `ConfirmedIsOnChain` | the same |
| `FundedIsProjected` | `FundedProjection` | the same |
| `HireImplementsProtocol` | `ImplementsHireProtocol` | the same |
| `Job_proofs` `SentToRelayOnce` | `OneSend` | any division of the four operations among server, worker, browser and seller; hashes and `NoTx` distinct |
| `ReconciledAreProjected` | `ReconciledIsProjected` | the same |
| `ProjectionsAgree` | `ProjectionAgrees` | the same |
| `ApprovalsSurvive` | `ApprovalSurvives` | the same |
| `SellerNotifiedOnce` | `OnePostPerJob` | `DeliveryParameters`: bounds are numbers, `None` no delivery row |
| `SearchMissesNothing` | `CursorMissesNothing` | the same |
| `EventsMakeTheJob` | `JobIsItsEvents` | `LifecycleParameters`: `None` is no request and no job |
| `ReferenceService_proofs` `SubmissionsAreSentOnce` | `SubmittedOnce` | `MaxDrafts`, `QuoteLife` numbers |
| `Records_proofs` `OneReview` | `OneVerifiedReview` | `Ops` some of create, update, revoke; `MaxRequests` a number |
| `ReviewsImplementContract` | `ImplementsContract` | the same |
| `PaymentsArePaidOnce` | `PaidOnce` | `Missing` no attempt and no receipt; statuses are payment statuses |
| `EvidenceIsVerified` | `VerifiedEvidence` | no hypothesis |
| `ReceiptsAreOurs` | `ReceiptIsOurs` | no hypothesis |
| `PassedReportsAreTrue` | `PassedIsTrue` | `AttestorsNamed`: the attestors are among the three the code has |
| `OneStory` | `EvidenceIsSettled` | `NoEvidence`: `Missing` is no job and no row of an evidence object |
| `NoSecondCreate` | `OneCreate` | `Calm`: answers are lost, the provider lags or returns damaged bytes, but every call ends and no request is refused; at most one Greenfield attempt |
| `Registry_proofs` `ClaimsAreOwned` | `ClaimedByOwner` | `"none"` is no call |
| `StoredIsFinal` | `ScannedIsFinal` | depths and ranges numbers; without the finalized tag, a threshold that is at least the depth the network reverts |
| `ScanSkipsNothing` | `NothingSkipped` | sizes numbers, paging by offset or by cursor |
| `VectorsBeforeCursor` | `PassedIsEmbedded` | no hypothesis |
| `Creator_proofs` `SessionsAreEarned` | `SessionIsEarned` | lifetimes numbers, `None` a value of its own |
| `FirstActionOnce` | `OneFirstAction` | `None` is no record |
| `RegistrationSignsOnce` | `SignedOnce` | `Window` a positive number |
| `RegistrationIsFinal` | `ReconciledIsFinal` | the same |
| `DraftsDeployOnce` | `DeployedOnce` | no hypothesis |
| `AuthorityIsLive` | `UsedAuthorityIsLive` | `Lifetime`, `Observation` numbers, `Unset` a value of its own |
| `Listing_proofs` `PublicationMovesForward` | `CurrentMovesForward` | `MaxAge` a number, `None` a value of its own, takedowns that move an axis to one of its statuses |
| `TakenDownStaysDown` | `TakenDownStays` | the same |
| `ShownCardsAreFresh` | `ShownIsFresh` | the same |
| `AnswersAreCurrent` | `AnswerIsCurrent` | `ReadParameters`: `Nothing` is no time, `Ttl` a positive number, a request names what it asks for |

Few of the properties are inductive.  What had to be added, and why:

**The browser hire.** `TypeOK` lacks what each program counter guarantees of step and hash (`WellFormed`).
`AtMostOneSend` needs to know who may still send: a *holder* of a step is a tab at the wallet prompt, or a
release posted by a tab that rejected its prompt and not yet executed.  `SendInv` says that a step has at most
one holder, that while it is held its row cannot be claimed and nothing was sent, and that what was sent keeps its
row that way.  The release counts as a holder because it is the only statement that reopens a step: outliving its tab
next to another prompt, it would let the step be sent again.  `OnlyFiveMatter` shows that of the 40 actions
all but claim, release, rejection and the two sends are harmless.  `EvidenceInv` adds that a row that
awaits a signature has no hash, that a frame's hash is that of its row, and that a request past verification holds the
hash of a successful transaction of its step; it carries the two invariants about the chain and the step
simulation of `HireProtocol`.

**The coordinator.** `SdkInv`: a row that is present forbids a second run of its operation; what a handler has
learnt of the chain and of the job stays true while it waits, because the chain's verdicts and the terminal
states are final; job, parent and result are written together.  `ApprovalInv` adds that a settlement by the
server or the browser began only after the approval.

**The reference provider.** Two processes may believe to be the only worker.  What keeps them apart is the slot
(`SlotInv`: who signs has moved it from claimed to signing, and nothing makes it claimed again); what keeps the
stored hash ahead of the broadcast is the operation (`OperationInv`, `WorkerInv`: who takes a slot away from
a worker that signs has seen its operation leave `awaiting_signature`, and without that status nothing is sent).
The lock is not used in the proof.

**External delivery.** Who posts the notification made the delivery row, while nothing had been posted, and no statement takes the row
back (`PostInv`).  The cursor stands on a final block before the seller's submission (`ChainInv`) and a search runs over final blocks
and has not gone past it (`ScanInv`): a reorganisation changes only what is above the final block.

**Job lifecycle.** A transaction that waits for its commit holds the job its request makes of the job it expects, and commits only
over that job.  What a list of events makes is stated by a witness, the jobs after each of them (`Run`), which `RunsAgree` shows to
be the only one.

**Reviews and payments.** A transaction that holds the row lock read the row as it is; the unique indexes decide
the rest.  For payments a committed row changes only through a transaction whose snapshot is current, and the
rollback writes back that snapshot.

**Publication.** `PublisherInv`: what a row, a locator or a call in progress says of the stored object stays true of it, since an
object is never unsealed or overwritten: a call may hold a row that others have since changed, but no claim that has become false.
`OnceInv`, for `NoSecondCreate`: the row a call holds is the row of the attempt; an object the provider does not show yet is
remembered, by the call whose create is in flight, by the reference in the row or by its unresolved create; and a row may be
retried only when the provider shows the object or the chain has none.  `Calm` is what the code needs, not what the prover needs:
with a call that stops or a lease that runs out the property fails (`greenfield_crash`), and with requests that are merely refused
it fails too (section 5).  The bucket's receipts need only that a mutation's answer names its owner.

**Reports and evidence.** Each step of the phase-zero run leaves a fact that nothing takes back (granted, used within the limits,
revoked, refused after that), and the evidence of a step is written only with its fact.  For a settled job the marketplace changes nothing the
run is made of once the job is complete (`SameCore`); what a file, an object or a report holds is made of one read of such facts, and
a row file is compared with it before anything is written.

**Registry.** `CallInv`: the block a claim event will name is the one its call read last.  `SyncInv`: what a run
promotes is at or below the finality block it read; with the finalized tag a scanned block is final, so runs never
meet a reorganisation, and with confirmations the depth keeps promoted rows below what is reverted.
`ScanInv`: between an entry and the checkpoint stands only what was collected, whichever run stored it; the
compare-and-set suffices, the advisory lock is not needed.  `FillInv`: a worker holds a version as done only
after its vector.

**Creator.** A request that has consumed its challenge holds it alone until its session is stored; a reservation is made
once and only its maker signs; a confirmed event is appended only from a final read; the durable deploy
intent (`QueueInv`) is never taken back and only its writer spawns; an observation used is at most `Observation` old
(`AuthorityInv`).

**Listing.** A run that publishes holds the row's lock since it read the axes (`ReviewInv` for the seller review, which
compares the locked row with what it reviewed); a view carries the time of its reads (`Sound`).

**Directory.** `ReadInv`: the slot is that of a load under way or of one that succeeded `Ttl` before the slot expires (`SlotOk`), so
who joins it arrived before that (`Joined`); what is in a load was listed after the load began, since it was taken from the rows in one
query and a takedown is dated later (`LoadOk`); who failed left the slot, so nobody joins a failed load afterwards.

**Only model-checked.** Every invariant, action property and refinement of the passing runs has its theorem.  The four properties of
`progress` (`FundingProjected`, `SubmissionIsSettled`, `FinalIsScanned`, `FinalIsRegistered`) have none: fairness and ENABLED are beyond
the prover.  The theorems of a component are about its specification with arbitrary constants; that the scenes of one run do not disturb each
other is by their construction.  What a recursive definition computes for every input needs induction over data, which the prover cannot do;
where a proof needs such a fact the model states it by a predicate instead.

## 5. Disagreements and limits met while modelling

Besides the five findings above, facts of the code that the models reproduce and a reader should know:

- a bounded submission whose receipt takes longer than 25 s is found `unknown` by recordFailure
  (`AC/service.ts:613-633`), goes to manual review and blocks its slot for good, although boundedSubmit says to
  reconcile it without rebroadcasting; a crash between reserving the operation and signing ends the same way;
- the stale choice of `greenfield_retry` can go on to a second create without any crash; `NoSecondCreate` therefore
  excludes refused requests;
- a process that stops between markReceipt and the projection leaves its operation `confirmed` without the projection,
  and nothing scheduled repairs that: the worker returns at once on such a row (`AC/reference-provider.ts:671`), the
  service then closes its slot (`t5-reference-service.ts:117`), and operationStatus reconciles only operations that
  await a signature, are submitted or unknown (`commerce-server.ts:1087`).  Only a reconcile asked for by hand
  does, which is why `SubmissionIsSettled` makes an exception of a process that stopped;
- a slow quote with an older listing version inserts a stale draft that hides the current one;
- the seller refresh compares logs with the deliverable read at the head;
- the in-memory repository validates the terms against the clock again at commit (`AC/repository.ts:148`), so inside the lead
  time no transition commits, a refund never does, and, as it can write no approval, `complete` is unreachable;
- a directory load that hangs keeps its key for ever; the reference provider is added to the directory without the
  publication gate, so a delisted one can still be offered, and the other search path does not read its capacity;
- a late authority put writes `active` over a recorded revocation (the use is still refused, by the chain read); after a
  revoked and handed-over session, no other session of the draft can be handed over;
- the phase-zero run passes its start time to the authority gate, so a live run passes only within one second;
- a review's revocation replaces the key of its row, so a repeated key can then produce a second review: the
  reason why `ImplementsContract` holds up to the first revocation;
- a public settlement recorded from a read older than the approval erases the approval (`AC/postgres-jobs.ts:550`): the
  reason for the exception in `ApprovalSurvives`.

## 6. Not modelled

The steps settle, dispute and claim_refund and the relay path (`callsId`) of the browser hire's handlers; the command-line
ingestion sweep with its state file and the operational scripts with journals; the Greenfield repositories' SQL beyond the
statements the publisher relies on; ABI codecs, schemas, canonical hashing, parsing, rendering, the classifier and the
search ranking, which have no state that actors share.  Components marked `not_modelled` in `PROJECT.json` give
their reasons there; those marked `partly` say what is missing.

## 7. Plan

1. Refinements for the components whose promise is stated as invariants only: the publisher and the delivery as abstract registers.
2. The late steps of the browser hire in `EoaHire`, and the ingestion sweep as a scene of `MC_Registry`.
3. Bounded checks of pure functions (retry delays, eligibility) against reference definitions.
