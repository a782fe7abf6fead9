------------------------- MODULE CreatorDeployment -------------------------
(***************************************************************************)
(* The Creator deployment queue and its worker (apps/web/src/lib:          *)
(* creator-repository.ts, creator-worker.ts, creator-composition.ts,       *)
(* creator-studio.ts).  A creator's draft is queued once; worker ticks     *)
(* claim it under a 30-second lease and take it through scaffold, Studio   *)
(* deploy, identity registration, publication and activation, each step    *)
(* reading the row, doing something outside and recording the outcome.     *)
(* Every draft of the model uses the same execution wallet.  DeployedOnce  *)
(* is the promise of CreatorPromise.                                       *)
(***************************************************************************)
EXTENDS Naturals

CONSTANTS
    Drafts,
    Workers,
    Overlap,    \* a step may outlast its lease, or be run for a named
                \* deployment without a claim
    Crashes     \* a worker may die between two steps

VARIABLES
    auth,       \* the accepted authority of each draft
    dep,        \* its agent_deployments row and the intents among its events
    ws,         \* its workspace: "handoff", "ready", "deployed", "tampered"
    deploys,    \* how often Studio was told to deploy it
    provider,   \* what Studio's status reports: "none", "recorded", "live"
    wk          \* the workers

vars == <<auth, dep, ws, deploys, provider, wk>>

(* current_step, in the order of creatorStages. *)
Scaffold == 1
Deploy == 2
Register == 3
Activate == 6
Completed == 7

NoRow == [state |-> "none", stage |-> 0, id |-> FALSE, url |-> FALSE,
          scaffoldIntent |-> FALSE, deployIntent |-> FALSE, fresh |-> FALSE]
Idle == [pc |-> "idle", d |-> "none", stage |-> 0, outcome |-> "none"]

Init ==
    /\ auth = [d \in Drafts |-> "active"]
    /\ dep = [d \in Drafts |-> NoRow]
    /\ ws = [d \in Drafts |-> "handoff"]
    /\ deploys = [d \in Drafts |-> 0]
    /\ provider = [d \in Drafts |-> "none"]
    /\ wk = [x \in Workers |-> Idle]

----------------------------------------------------------------------------

Active(row) == row.state \notin {"none", "failed"}

(* No other draft of the execution wallet has a deployment that did not fail. *)
WalletFree(d) == \A e \in Drafts \ {d} : ~Active(dep[e])

(* queueDeployment: an existing row of the draft is returned as it is. *)
QueueDeployment(d) ==
    /\ auth[d] = "active"
    /\ WalletFree(d)
    /\ dep[d] = NoRow
    /\ dep' = [dep EXCEPT ![d].state = "queued", ![d].stage = Scaffold, ![d].fresh = TRUE]
    /\ UNCHANGED <<auth, ws, deploys, provider, wk>>

(* recordBrowserRevocation. *)
Revoke(d) ==
    /\ auth[d] = "active"
    /\ auth' = [auth EXCEPT ![d] = "revoked"]
    /\ UNCHANGED <<dep, ws, deploys, provider, wk>>

Held(d) == \E x \in Workers : wk[x].d = d

(* The row was not updated for 30 seconds. *)
LeaseExpires(d) ==
    /\ dep[d].fresh
    /\ Overlap \/ ~Held(d)
    /\ dep' = [dep EXCEPT ![d].fresh = FALSE]
    /\ UNCHANGED <<auth, ws, deploys, provider, wk>>

(* A queued row, or a working one whose lease has run out. *)
Claimable(d) ==
    \/ dep[d].state = "queued"
    \/ dep[d].state = "working" /\ ~dep[d].fresh

(* claimNextQueuedDeployment. *)
Claim(x, d) ==
    /\ wk[x] = Idle
    /\ auth[d] = "active"
    /\ Claimable(d)
    /\ dep' = [dep EXCEPT ![d].state = "working", ![d].fresh = TRUE]
    /\ wk' = [wk EXCEPT ![x] = [Idle EXCEPT !.pc = "load", !.d = d]]
    /\ UNCHANGED <<auth, ws, deploys, provider>>

(* The worker of a named deployment runs without a claim. *)
RunNamed(x, d) ==
    /\ Overlap
    /\ wk[x] = Idle
    /\ dep[d] # NoRow
    /\ wk' = [wk EXCEPT ![x] = [Idle EXCEPT !.pc = "load", !.d = d]]
    /\ UNCHANGED <<auth, dep, ws, deploys, provider>>

----------------------------------------------------------------------------
(* One step of the worker. *)

Goto(x, pc) == wk' = [wk EXCEPT ![x].pc = pc]
EndStep(x) == wk' = [wk EXCEPT ![x] = Idle]
Row(x) == dep[wk[x].d]

(* The store's record: the row's step and state are overwritten, an id or *)
(* endpoint is only ever added, and a template mismatch fails the row.    *)
Record(x, stage, mismatch, id, url) ==
    dep' = [dep EXCEPT ![wk[x].d] =
        [@ EXCEPT !.stage = stage, !.fresh = TRUE,
                  !.id = Row(x).id \/ id, !.url = Row(x).url \/ url,
                  !.state = CASE mismatch -> "failed"
                              [] ~mismatch /\ stage = Completed -> "listed"
                              [] OTHER -> "working"]]

(* workerDeploymentBinding: the accepted authority is still active. *)
Bound(x) == auth[wk[x].d] = "active"

(* inspect: every file of the workspace is the reviewed template's. *)
Exact(d) == ws[d] = "ready"

(* materialize: only missing files are written. *)
Filled(d) == IF ws[d] = "handoff" THEN "ready" ELSE ws[d]

(* runOnce reads the row and the authority binding. *)
Load(x) ==
    /\ wk[x].pc = "load"
    /\ IF ~Bound(x) \/ Row(x).stage = Completed
       THEN EndStep(x)
       ELSE wk' = [wk EXCEPT ![x].stage = Row(x).stage,
                             ![x].pc = CASE Row(x).stage = Scaffold -> "scaffold"
                                         [] Row(x).stage = Deploy /\ Row(x).id -> "confirm"
                                         [] Row(x).stage = Deploy /\ ~Row(x).id -> "pending"
                                         [] OTHER -> "handoff"]
    /\ UNCHANGED <<auth, dep, ws, deploys, provider>>

(* recordScaffoldIntent: only the claimant of a row still in the scaffold *)
(* step materializes at once; any other inspects first.                   *)
RecordScaffoldIntent(x) ==
    /\ wk[x].pc = "scaffold"
    /\ IF Row(x).stage = Scaffold /\ ~Row(x).scaffoldIntent
       THEN dep' = [dep EXCEPT ![wk[x].d] = [@ EXCEPT !.scaffoldIntent = TRUE,
                                                      !.state = "working", !.fresh = TRUE]]
       ELSE UNCHANGED dep
    /\ Goto(x, "materialize")
    /\ UNCHANGED <<auth, ws, deploys, provider>>

(* A file that differs from the reviewed template is a mismatch. *)
Materialize(x) ==
    /\ wk[x].pc = "materialize"
    /\ ws' = [ws EXCEPT ![wk[x].d] = Filled(wk[x].d)]
    /\ wk' = [wk EXCEPT ![x].pc = "recordScaffold",
                        ![x].outcome = IF ws'[wk[x].d] = "ready" THEN "ready" ELSE "mismatch"]
    /\ UNCHANGED <<auth, dep, deploys, provider>>

RecordScaffold(x) ==
    /\ wk[x].pc = "recordScaffold"
    /\ Record(x, Scaffold, wk[x].outcome = "mismatch", FALSE, FALSE)
    /\ IF wk[x].outcome = "mismatch" THEN EndStep(x) ELSE Goto(x, "scaffolded")
    /\ UNCHANGED <<auth, ws, deploys, provider>>

RecordScaffolded(x) ==
    /\ wk[x].pc = "scaffolded"
    /\ Record(x, Deploy, FALSE, FALSE, FALSE)
    /\ EndStep(x)
    /\ UNCHANGED <<auth, ws, deploys, provider>>

(* hasDeployIntent. *)
IntentSeen(x) == Row(x).deployIntent

(* reconcilePendingDeploy before the inspection. *)
PendingDeploy(x) ==
    /\ wk[x].pc = "pending"
    /\ Goto(x, IF IntentSeen(x) THEN "status" ELSE "inspect")
    /\ UNCHANGED <<auth, dep, ws, deploys, provider>>

(* The artifact is compared with the template; on a mismatch the intent *)
(* is looked for once more, because a deploy rewrites studio.toml.      *)
Inspect(x) ==
    /\ wk[x].pc = "inspect"
    /\ Goto(x, IF Exact(wk[x].d) THEN "install" ELSE "pendingAgain")
    /\ UNCHANGED <<auth, dep, ws, deploys, provider>>

PendingDeployAgain(x) ==
    /\ wk[x].pc = "pendingAgain"
    /\ Goto(x, IF IntentSeen(x) THEN "status" ELSE "mismatch")
    /\ UNCHANGED <<auth, dep, ws, deploys, provider>>

(* The bounded dependency install: a failure is recorded and ends the step. *)
Install(x) ==
    /\ wk[x].pc = "install"
    /\ \/ Goto(x, "inspectInstalled") /\ UNCHANGED dep
       \/ Record(x, Deploy, FALSE, FALSE, FALSE) /\ EndStep(x)
    /\ UNCHANGED <<auth, ws, deploys, provider>>

InspectInstalled(x) ==
    /\ wk[x].pc = "inspectInstalled"
    /\ Goto(x, IF Exact(wk[x].d) THEN "intent" ELSE "mismatch")
    /\ UNCHANGED <<auth, dep, ws, deploys, provider>>

RecordMismatch(x) ==
    /\ wk[x].pc = "mismatch"
    /\ Record(x, Deploy, TRUE, FALSE, FALSE)
    /\ EndStep(x)
    /\ UNCHANGED <<auth, ws, deploys, provider>>

(* Mutation: only the provider's id stops a second intent. *)
IntentFreeWithoutEvents(x) == ~Row(x).id

IntentFree(x) == ~Row(x).id /\ ~Row(x).deployIntent

(* recordIntent: the intent is durable before the deploy is spawned. *)
RecordIntent(x) ==
    /\ wk[x].pc = "intent"
    /\ IF IntentFree(x)
       THEN /\ dep' = [dep EXCEPT ![wk[x].d] =
                        [@ EXCEPT !.deployIntent = TRUE, !.stage = Deploy,
                                  !.state = "working", !.fresh = TRUE]]
            /\ Goto(x, "recheck")
       ELSE Goto(x, "status") /\ UNCHANGED dep
    /\ UNCHANGED <<auth, ws, deploys, provider>>

RecheckAuthority(x) ==
    /\ wk[x].pc = "recheck"
    /\ IF Bound(x) THEN Goto(x, "run") ELSE EndStep(x)
    /\ UNCHANGED <<auth, dep, ws, deploys, provider>>

(* bag deploy is spawned: it may rewrite studio.toml and reaches the provider. *)
SpawnDeploy(x) ==
    /\ wk[x].pc = "run"
    /\ deploys' = [deploys EXCEPT ![wk[x].d] = @ + 1]
    /\ ws' \in {ws, [ws EXCEPT ![wk[x].d] = "deployed"]}
    /\ Goto(x, "status")
    /\ UNCHANGED <<auth, dep, provider>>

(* Studio's status command, and the probe of the endpoint it names. *)
ReadStatus(x) ==
    /\ wk[x].pc \in {"status", "confirm"}
    /\ wk' = [wk EXCEPT ![x].outcome = provider[wk[x].d],
                        ![x].pc = IF wk[x].pc = "status" THEN "recordStatus" ELSE "recordConfirm"]
    /\ UNCHANGED <<auth, dep, ws, deploys, provider>>

StatusStage(x) == Deploy

RecordStatus(x) ==
    /\ wk[x].pc = "recordStatus"
    /\ Record(x, StatusStage(x), FALSE, wk[x].outcome # "none", wk[x].outcome = "live")
    /\ EndStep(x)
    /\ UNCHANGED <<auth, ws, deploys, provider>>

RecordConfirm(x) ==
    /\ wk[x].pc = "recordConfirm"
    /\ IF wk[x].outcome = "none" THEN UNCHANGED dep
       ELSE Record(x, IF wk[x].outcome = "live" THEN Register ELSE Deploy,
                   FALSE, TRUE, wk[x].outcome = "live")
    /\ EndStep(x)
    /\ UNCHANGED <<auth, ws, deploys, provider>>

(* Registration, publication, funded job and activation: the handoff's *)
(* read is confirmed and the row moves on, or pending and it stays.    *)
Handoff(x) ==
    /\ wk[x].pc = "handoff"
    /\ \E outcome \in {"confirmed", "pending"} :
        wk' = [wk EXCEPT ![x].pc = "recordHandoff", ![x].outcome = outcome]
    /\ UNCHANGED <<auth, dep, ws, deploys, provider>>

RecordHandoff(x) ==
    /\ wk[x].pc = "recordHandoff"
    /\ Record(x, IF wk[x].outcome = "confirmed" THEN wk[x].stage + 1 ELSE wk[x].stage,
              FALSE, FALSE, FALSE)
    /\ EndStep(x)
    /\ UNCHANGED <<auth, ws, deploys, provider>>

Crash(x) ==
    /\ Crashes
    /\ wk[x] # Idle
    /\ EndStep(x)
    /\ UNCHANGED <<auth, dep, ws, deploys, provider>>

(* Studio registers the deployment, then its endpoint answers. *)
ProviderProgress(d) ==
    /\ deploys[d] > 0
    /\ provider[d] # "live"
    /\ provider' = [provider EXCEPT ![d] = IF @ = "none" THEN "recorded" ELSE "live"]
    /\ UNCHANGED <<auth, dep, ws, deploys, wk>>

(* A file of the workspace is changed by hand before the deploy. *)
Tamper(d) ==
    /\ ws[d] = "ready"
    /\ ws' = [ws EXCEPT ![d] = "tampered"]
    /\ UNCHANGED <<auth, dep, deploys, provider, wk>>

WorkerStep(x) ==
    \/ Load(x) \/ RecordScaffoldIntent(x) \/ Materialize(x) \/ RecordScaffold(x)
    \/ RecordScaffolded(x) \/ PendingDeploy(x) \/ Inspect(x) \/ PendingDeployAgain(x)
    \/ Install(x) \/ InspectInstalled(x) \/ RecordMismatch(x) \/ RecordIntent(x)
    \/ RecheckAuthority(x) \/ SpawnDeploy(x) \/ ReadStatus(x) \/ RecordStatus(x)
    \/ RecordConfirm(x) \/ Handoff(x) \/ RecordHandoff(x)

Next ==
    \/ \E d \in Drafts : QueueDeployment(d) \/ Revoke(d) \/ LeaseExpires(d)
                         \/ ProviderProgress(d) \/ Tamper(d)
    \/ \E x \in Workers, d \in Drafts : Claim(x, d) \/ RunNamed(x, d)
    \/ \E x \in Workers : WorkerStep(x) \/ Crash(x)

Spec == Init /\ [][Next]_vars
=============================================================================
