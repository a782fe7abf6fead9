------------------------------- MODULE MC_Sdk -------------------------------
(***************************************************************************)
(* The server's own transactions for TLC.  A behaviour is one of seven     *)
(* scenes: SdkCoordinator with the constants of the configuration, in      *)
(* which the reference worker submits, and three more instances that       *)
(* differ in who runs which operation of the job; the bounded reference    *)
(* provider; the delivery of an external seller; and the process-local job *)
(* repository.  The job of SdkCoordinator rests in its initial state when  *)
(* its scene is another, the reference provider has no slot then, the      *)
(* seller no delivery and the repository no job, so that what is promised  *)
(* of them (ServicePromise, JobPromise) holds in every scene.              *)
(***************************************************************************)
EXTENDS SdkCoordinator, ServicePromise, JobPromise, TLC

VARIABLES
  now, allowance, jobs, slotTx, lock, proc, faults,  \* ReferenceService, with those of ServicePromise
  job, wallet, head, final, reorgs,                  \* ExternalDelivery, with proc and those of JobPromise
  scene

sdkVars == <<ops, db, tx, sends, chain, frame, crashes>>
serviceVars == <<now, allowance, jobs, slots, slotOps, slotTx, sent, lock, faults>>
deliveryVars == <<job, wallet, head, final, block, delivery, posts, reorgs>>
repositoryVars == <<clock, stored, events, actions, waiting>>

\* An external seller submits, the server settles, or somebody else does.
Settle == INSTANCE SdkCoordinator WITH
  StartState <- "funded",
  ServiceKinds <- {"settle"}, WorkerKinds <- {}, BrowserKinds <- {}, SellerKinds <- {"submit"},
  PublicVerdicts <- {"COMPLETED"}, MaxCrashes <- 0

\* The server refunds, while somebody else may reject or expire the job.
Refund == INSTANCE SdkCoordinator WITH
  StartState <- "funded",
  ServiceKinds <- {"claim_refund"}, WorkerKinds <- {}, BrowserKinds <- {}, SellerKinds <- {},
  PublicVerdicts <- {"REJECTED", "EXPIRED"}, MaxCrashes <- 0

\* A whole life: the server hires, an external seller submits, the browser settles.
Life == INSTANCE SdkCoordinator WITH
  StartState <- "none",
  ServiceKinds <- {"create"}, WorkerKinds <- {}, BrowserKinds <- {"settle"}, SellerKinds <- {"submit"},
  PublicVerdicts <- {}, MaxCrashes <- 0

\* Two unpaid rows for three slots' worth of admission, two workers in turn.
Service == INSTANCE ReferenceService WITH
  Tasks <- {"task"}, Workers <- Procs, MaxSlots <- 2, MaxDrafts <- 2, QuoteLife <- 2, MaxBeatAge <- 1,
  MaxTime <- 2, MaxFaults <- 2, tx <- slotTx

\* Two windows of two blocks for a chain of four, one of them reorganised.
Delivery == INSTANCE ExternalDelivery WITH
  Window <- 2, MaxWindows <- 2, MaxHead <- 4, MaxReorgs <- 1

SdkAtRest == Init
NoService ==
  /\ now = None /\ allowance = None /\ jobs = None /\ slots = <<>> /\ slotOps = None
  /\ slotTx = None /\ sent = None /\ lock = None /\ faults = None
NoDelivery ==
  /\ job = None /\ wallet = None /\ head = None /\ final = None /\ block = 0
  /\ delivery = None /\ posts = 0 /\ reorgs = None
NoLifecycle == Lifecycle!Init

SceneInit ==
  \/ /\ \/ scene = "submit" /\ Init
        \/ scene = "settle" /\ Settle!Init
        \/ scene = "refund" /\ Refund!Init
        \/ scene = "life" /\ Life!Init
     /\ NoService /\ NoDelivery /\ NoLifecycle /\ proc = None
  \/ /\ scene = "service" /\ Service!Init
     /\ SdkAtRest /\ NoDelivery /\ NoLifecycle
  \/ /\ scene = "delivery" /\ Delivery!Init
     /\ SdkAtRest /\ NoService /\ NoLifecycle
  \/ /\ scene = "lifecycle" /\ Lifecycle!Init
     /\ SdkAtRest /\ NoService /\ NoDelivery /\ proc = None

SceneNext ==
  /\ \/ /\ \/ scene = "submit" /\ Next
           \/ scene = "settle" /\ Settle!Next
           \/ scene = "refund" /\ Refund!Next
           \/ scene = "life" /\ Life!Next
        /\ UNCHANGED <<serviceVars, deliveryVars, repositoryVars, proc>>
     \/ /\ scene = "service" /\ Service!Next
        /\ UNCHANGED <<sdkVars, deliveryVars, repositoryVars>>
     \/ /\ scene = "delivery" /\ Delivery!Next
        /\ UNCHANGED <<sdkVars, serviceVars, repositoryVars>>
     \/ /\ scene = "lifecycle" /\ Lifecycle!Next
        /\ UNCHANGED <<sdkVars, serviceVars, deliveryVars, proc>>
  /\ UNCHANGED scene

SdkSpec == SceneInit /\ [][SceneNext]_<<sdkVars, serviceVars, deliveryVars, repositoryVars, proc, scene>>

Symmetry == Permutations(Procs)

(* Idempotency keys are taken in order: keys are only compared for equality,
   so every other choice renames one of these. *)
KeysInOrder == scene = "lifecycle" => Lifecycle!KeysInOrder
=============================================================================
