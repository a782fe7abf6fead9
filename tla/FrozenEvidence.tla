--------------------------- MODULE FrozenEvidence ---------------------------
(***************************************************************************)
(* Evidence of one settled job: scripts/t8-greenfield-inputs.ts loads the  *)
(* rows of a commerce job, packages/greenfield/src/t8-inputs.ts checks     *)
(* that they are one settled job and freezes them into profile and run     *)
(* rows (a file, or an agent_runs row), and scripts/t8-greenfield-publish  *)
(* builds the artifacts (artifacts.ts) and records what it publishes.      *)
(* The marketplace keeps writing the rows meanwhile, two operators may     *)
(* work at once, files go stale and a process can stop anywhere.           *)
(* Publication itself, once recorded, is Greenfield's.                     *)
(***************************************************************************)
EXTENDS Naturals, FiniteSets

CONSTANTS Callers,       \* processes of the operators
          Environments,  \* GREENFIELD_EVIDENCE_ENVIRONMENT
          MaxFiles,      \* bound on the files exported
          None

VARIABLES
  facts,      \* the rows of the job and its agent
  agentRun,   \* the committed agent_runs row, or None
  inserting,  \* an uncommitted insert of it: [by, row], or None
  proc,       \* process -> where it is and what it loaded
  files,      \* exported row files
  objects,    \* artifact type -> its evidence_objects row, or None
  reported    \* artifacts whose publication a process was told succeeded

evidenceVars == <<facts, agentRun, inserting, proc, files, objects, reported>>

-----------------------------------------------------------------------------
(* The rows.  The constraints of the database leave these columns unrelated;
   a seeded or imported job (t4-operator-canary.ts seedParent) can have any
   one of them off. *)
Binding == [identity |-> "id1", version |-> 1]

Stored(value) == [shown |-> value, internal |-> "kept"]   \* a JSON column: allow-listed keys and others

SoundFacts == [
  parent |-> [job |-> "7", agent |-> "a", status |-> "draft", fund |-> None, submit |-> None, settle |-> None],
  job |-> [id |-> "7", state |-> "open", binding |-> Binding, client |-> "buyer", provider |-> "seller",
           digest |-> None, fund |-> None, submit |-> None, settle |-> None, payload |-> Stored("ok")],
  result |-> None,
  agent |-> [id |-> "a", identity |-> "id1", version |-> 1, category |-> "yield", metadata |-> "text",
             pricing |-> Stored("5")],
  services |-> {"private"}]

Seeds == {
  SoundFacts,
  [SoundFacts EXCEPT !.parent.job = "8"],
  [SoundFacts EXCEPT !.job.binding.version = 2],
  [SoundFacts EXCEPT !.agent.identity = "id2"],
  [SoundFacts EXCEPT !.parent.fund = "other"],
  [SoundFacts EXCEPT !.agent.metadata = None],
  [SoundFacts EXCEPT !.agent.metadata = "secret-like"],
  [SoundFacts EXCEPT !.job.payload = Stored("malformed")],
  [SoundFacts EXCEPT !.agent.category = "unlisted"]}

(* The marketplace's own transactions (JobStore, marketplace-projection.ts):
   funding, the submitted result, the settlement. *)
Coalesce(x, y) == IF x = None THEN y ELSE x

Fund ==
  /\ facts.job.state = "open"
  /\ facts' = [facts EXCEPT !.job.state = "funded", !.job.fund = "f",
                            !.parent.fund = Coalesce(@, "f"), !.parent.status = "funded"]

Submit ==
  /\ facts.job.state = "funded"
  /\ facts' = [facts EXCEPT !.job.state = "submitted", !.job.submit = "s", !.job.digest = "d",
                            !.parent.submit = Coalesce(@, "s"), !.parent.status = "submitted",
                            !.result = [state |-> "submitted", binding |-> facts.job.binding,
                                        client |-> facts.job.client, provider |-> facts.job.provider,
                                        digest |-> "d", submit |-> "s", settle |-> None,
                                        payload |-> facts.job.payload]]

(* persistMarketplaceSettlementProjection, and the job's own row. *)
Settle ==
  /\ facts.job.state = "submitted"
  /\ facts' = [facts EXCEPT !.job.state = "completed", !.job.settle = "c",
                            !.result.state = "settled", !.result.settle = "c",
                            !.parent.settle = Coalesce(@, "c"), !.parent.status = "settled"]

(* Reclassification and service discovery go on for the same version. *)
Recategorise(c) == facts.agent.category = "yield" /\ facts' = [facts EXCEPT !.agent.category = c]

AddService(s) == s \notin facts.services /\ facts' = [facts EXCEPT !.services = @ \cup {s}]

Marketplace ==
  /\ \/ Fund
     \/ Submit
     \/ Settle
     \/ Recategorise("swap")
     \/ AddService("https")
  /\ UNCHANGED <<agentRun, inserting, proc, files, objects, reported>>

-----------------------------------------------------------------------------
(* validateFacts, check by check.  stringValue, uuid, address, digest,
   transaction, timestamp: a value is there and in form. *)
Present(x) == x # None

identityFromBinding(b) == [identity |-> b.identity, version |-> b.version]

identityFromRow(f) == [identity |-> f.agent.identity, version |-> f.agent.version]

assertBindingEqual(a, b) == a.identity = b.identity /\ a.version = b.version

BindingsAgree(f) ==
  /\ f.parent.job = f.job.id
  /\ f.parent.agent = f.agent.id
  /\ assertBindingEqual(identityFromBinding(f.result.binding), identityFromRow(f))
  /\ assertBindingEqual(identityFromBinding(f.job.binding), identityFromBinding(f.result.binding))

AllSettled(f) ==
  /\ f.parent.status = "settled"
  /\ f.job.state = "completed"
  /\ f.result.state = "settled"

PartiesAgree(f) == f.job.client = f.result.client /\ f.job.provider = f.result.provider

DigestsAgree(f) == Present(f.result.digest) /\ f.job.digest = f.result.digest

(* The result's receipts are required; the job and the parent must have the same. *)
ReceiptsAgree(f) ==
  /\ Present(f.result.submit) /\ f.job.submit = f.result.submit /\ f.parent.submit = f.result.submit
  /\ Present(f.result.settle) /\ f.job.settle = f.result.settle /\ f.parent.settle = f.result.settle
  /\ Present(f.parent.fund) /\ f.parent.fund = f.job.fund

(* settledCommerceQuery joins the result row: without one there is no row. *)
RowFound(f) == f.result # None

validateFacts(f) ==
  /\ RowFound(f)
  /\ BindingsAgree(f)
  /\ AllSettled(f)
  /\ PartiesAgree(f)
  /\ DigestsAgree(f)
  /\ ReceiptsAgree(f)

(* safeMetadata: a name and a description, or nothing is frozen. *)
safeMetadata(f) == Present(f.agent.metadata)

(* publicPricing, publicResult: the allow-listed keys of a stored object. *)
publicPricing(stored) == [shown |-> stored.shown]

publicResult(stored) == IF stored = None THEN [status |-> "unknown"] ELSE [shown |-> stored.shown]

(* safePublicServiceUrl, publicService: services without a public URL are left out. *)
safePublicServiceUrl(s) == s = "https"

publicServices(ss) == {s \in ss : safePublicServiceUrl(s)}

-----------------------------------------------------------------------------
(* buildT8FrozenInputs. *)
profileRows(f, env) ==
  [type |-> "agent_profile", env |-> env, agent |-> [f.agent EXCEPT !.pricing = publicPricing(@)],
   services |-> publicServices(f.services)]

(* inputSnapshot and decisionSummary: the quote, the parties, the receipts and the result. *)
inputSnapshot(f) == [job |-> f.parent.job, client |-> f.result.client, provider |-> f.result.provider,
                     identity |-> f.agent.identity, version |-> f.agent.version]

decisionSummary(f) == [result |-> publicResult(f.result.payload), submit |-> f.result.submit, settle |-> f.result.settle]

runRows(f, env) ==
  [type |-> "run_bundle", env |-> env, agent |-> [f.agent EXCEPT !.pricing = publicPricing(@)],
   run |-> [digest |-> f.result.digest, input |-> inputSnapshot(f), decision |-> decisionSummary(f), transaction |-> f.result.settle,
            outcome |-> "completed"],
   result |-> [state |-> f.result.state, digest |-> f.result.digest, settle |-> f.result.settle,
               version |-> f.agent.version, identity |-> f.agent.identity]]

-----------------------------------------------------------------------------
(* artifacts.ts.  profileContext: agent, identity and version rows belong
   together (they come from one row here); the category is a listed one. *)
agentCategories == {"yield", "swap"}

requiredString(x) == x # None

identityFrom(row) == row.identity

profileContext(rows) == requiredString(rows.agent.metadata) /\ rows.agent.version > 0

(* The builders select the public keys of stored objects again: row files
   need not come from this exporter. *)
artifactPricing(stored) == [shown |-> stored.shown]

artifactResult(stored) == IF "shown" \in DOMAIN stored THEN [shown |-> stored.shown] ELSE [status |-> "unknown"]

artifactServices(rows) == {s \in rows.services : requiredString(s)}

(* evidence/artifacts.ts: the strict schemas of a summary, a profile and a
   run bundle, and no secret-like text anywhere in a public value. *)
publicSummarySchema(value) == "shown" \in DOMAIN value => value.shown # "malformed"

assertSafePublicValue(text) == text # "secret-like"

profilePayloadSchema(rows) == rows.agent.category \in agentCategories /\ publicSummarySchema(artifactPricing(rows.agent.pricing))

runBundlePayloadSchema(rows) == publicSummarySchema(artifactResult(rows.run.decision.result))

ProfileBuilds(rows) ==
  /\ profileContext(rows)
  /\ profilePayloadSchema(rows)
  /\ assertSafePublicValue(rows.agent.metadata)

finalStatus(run) == IF run.outcome = "completed" THEN "confirmed" ELSE "failed"

(* runBundleContext: a confirmed run needs its settled result, of the same
   version and identity, with its digests and its receipt. *)
runBundleContext(rows) ==
  /\ rows.run.input.version = rows.agent.version
  /\ rows.run.input.identity = identityFrom(rows.agent)
  /\ finalStatus(rows.run) = "confirmed" =>
       /\ rows.result.state = "settled"
       /\ rows.result.version = rows.agent.version /\ identityFrom(rows.result) = identityFrom(rows.agent)
       /\ requiredString(rows.result.digest) /\ rows.run.digest = rows.result.digest
       /\ requiredString(rows.result.settle)

RunBuilds(rows) == runBundleContext(rows) /\ runBundlePayloadSchema(rows)

(* The artifact leaves the category, the services and the name of the agent
   out of a run bundle, and the run out of a profile.  artifactId and version
   are the key of the artifact; the environment is part of its content. *)
buildAgentProfileArtifact(rows) ==
  [type |-> "agent_profile", version |-> rows.agent.version, env |-> rows.env, identity |-> rows.agent.identity,
   content |-> [category |-> rows.agent.category, text |-> rows.agent.metadata, pricing |-> artifactPricing(rows.agent.pricing),
                services |-> artifactServices(rows)]]

buildRunBundleArtifact(rows) ==
  [type |-> "run_bundle", version |-> rows.agent.version, env |-> rows.env, identity |-> rows.agent.identity,
   content |-> [decision |-> [rows.run.decision EXCEPT !.result = artifactResult(@)], transaction |-> rows.run.transaction,
                digest |-> rows.result.digest, status |-> finalStatus(rows.run)]]

Builds(rows) == IF rows.type = "agent_profile" THEN ProfileBuilds(rows) ELSE RunBuilds(rows)

Artifact(rows) == IF rows.type = "agent_profile" THEN buildAgentProfileArtifact(rows) ELSE buildRunBundleArtifact(rows)

(* agentProfileArtifactBinding, runBundleArtifactBinding: what the evidence row points to. *)
ArtifactBinding(rows) ==
  IF rows.type = "agent_profile"
  THEN [resource |-> rows.agent.version, run |-> None]
  ELSE [resource |-> rows.run.input.job, run |-> rows.run.input.job]

(* buildT8FrozenArtifacts builds both before anything is returned. *)
CanFreeze(f, env) ==
  /\ validateFacts(f)
  /\ safeMetadata(f)
  /\ ProfileBuilds(profileRows(f, env))
  /\ RunBuilds(runRows(f, env))

-----------------------------------------------------------------------------
(* runT8GreenfieldInputsCli. *)
Idle == [at |-> "idle", loaded |-> None, env |-> None]

(* loadT8SettledCommerceFacts: one statement reads the job, its result and
   its agent, a second one the services. *)
LoadRow(p, env) ==
  /\ proc[p].at = "idle"
  /\ RowFound(facts)
  /\ proc' = [proc EXCEPT ![p] = [at |-> "row", loaded |-> facts, env |-> env]]
  /\ UNCHANGED <<facts, agentRun, inserting, files, objects, reported>>

LoadServices(p) ==
  /\ proc[p].at = "row"
  /\ LET f == [proc[p].loaded EXCEPT !.services = facts.services]
     IN  proc' = [proc EXCEPT ![p] = IF CanFreeze(f, proc[p].env)
                                     THEN [at |-> "frozen", loaded |-> f, env |-> proc[p].env]
                                     ELSE Idle]
  /\ UNCHANGED <<facts, agentRun, inserting, files, objects, reported>>

(* export: the rows of one kind go to a file. *)
Export(p, kind) ==
  /\ proc[p].at = "frozen"
  /\ Cardinality(files) < MaxFiles
  /\ files' = files \cup {IF kind = "profile" THEN profileRows(proc[p].loaded, proc[p].env)
                                              ELSE runRows(proc[p].loaded, proc[p].env)}
  /\ proc' = [proc EXCEPT ![p] = Idle]
  /\ UNCHANGED <<facts, agentRun, inserting, objects, reported>>

(* expectedProjection, projectionValue: the columns that are compared. *)
expectedProjection(rows) == rows.run

(* project --write: lock and compare the row that is there, else insert it
   (waiting for another insert of the same id) and compare what is there.
   RUN_PROJECTION_CONFLICT rolls back and reports nothing. *)
Expected(p) == expectedProjection(runRows(proc[p].loaded, proc[p].env))

Told(p, row) == IF row = Expected(p) THEN reported \cup {[type |-> "agent_run", row |-> row]} ELSE reported

ProjectSelect(p) ==
  /\ proc[p].at = "frozen"
  /\ IF agentRun = None
     THEN proc' = [proc EXCEPT ![p].at = "insert"] /\ UNCHANGED reported
     ELSE proc' = [proc EXCEPT ![p] = Idle] /\ reported' = Told(p, agentRun)
  /\ UNCHANGED <<facts, agentRun, inserting, files, objects>>

ProjectInsert(p) ==
  /\ proc[p].at = "insert"
  /\ inserting = None
  /\ IF agentRun = None
     THEN inserting' = [by |-> p, row |-> Expected(p)]
     ELSE UNCHANGED inserting
  /\ proc' = [proc EXCEPT ![p].at = "verify"]
  /\ UNCHANGED <<facts, agentRun, files, objects, reported>>

(* The read after the insert: COMMIT its own row, or compare the other's. *)
ProjectVerify(p) ==
  LET mine == inserting # None /\ inserting.by = p
      persisted == IF mine THEN inserting.row ELSE agentRun
  IN  /\ proc[p].at = "verify"
      /\ agentRun' = persisted
      /\ inserting' = IF mine THEN None ELSE inserting
      /\ reported' = Told(p, persisted)
      /\ proc' = [proc EXCEPT ![p] = Idle]
      /\ UNCHANGED <<facts, files, objects>>

(* plan and the preview of project write nothing; a process may stop. *)
Stop(p) ==
  /\ proc[p].at # "idle"
  /\ proc' = [proc EXCEPT ![p] = Idle]
  /\ inserting' = IF inserting # None /\ inserting.by = p THEN None ELSE inserting
  /\ UNCHANGED <<facts, agentRun, files, objects, reported>>
-----------------------------------------------------------------------------
(* runT8GreenfieldCli publish. *)
T8_GREENFIELD_MAX_SEAL_POLLS == 6

T8_GREENFIELD_SEAL_BACKOFF_MS == <<1000, 2000, 4000, 8000, 16000>>

T8_GREENFIELD_LEASE_DURATION_MS == 60000

(* t8GreenfieldSealBackoffBudgetMs: the delays between n polls. *)
SealBackoffBudget[n \in 1..T8_GREENFIELD_MAX_SEAL_POLLS] ==
  IF n = 1 THEN 0
  ELSE SealBackoffBudget[n - 1] + T8_GREENFIELD_SEAL_BACKOFF_MS[IF n - 1 < 5 THEN n - 1 ELSE 5]

(* publicationConfiguration: a lease must outlive the polling it covers. *)
publicationConfiguration == T8_GREENFIELD_LEASE_DURATION_MS > SealBackoffBudget[T8_GREENFIELD_MAX_SEAL_POLLS]

(* readT8GreenfieldCliConfig and the standards lock: the pinned network and
   bucket, and endpoints that the environment may repeat but not change. *)
CliConfigs == [pinned : BOOLEAN, flags : BOOLEAN, complete : BOOLEAN]

applyLockedRuntime(config) == config.pinned

(* requireLiveWrite: all three flags, a complete configuration, and for a
   profile or a run the binding that only row files give. *)
requireLiveWrite(config, binding) == config.flags /\ config.complete /\ binding # None

(* artifactFromArgs: row files are built here, and bind; an artifact file does not. *)
artifactFromArgs(rows, asRows) == IF asRows THEN ArtifactBinding(rows) ELSE None

(* Mutation: only the key of an evidence object is compared. *)
compareKeyOnly(object, artifact, binding) == object.binding = binding

(* greenfield-postgres.ts: a recorded object keeps its binding and its digests. *)
compareImmutableObject(object, artifact, binding) == object.binding = binding /\ object.artifact = artifact

(* evidence_objects.run_id references agent_runs. *)
RunExists(binding) == binding.run # None => agentRun # None

(* PersistentEvidencePublicationStore.createOrGet: the object and the attempt
   in one transaction; Greenfield goes on from the attempt. *)
Publish(rows, config, asRows) ==
  LET artifact == Artifact(rows)
      binding == artifactFromArgs(rows, asRows)
  IN  /\ applyLockedRuntime(config)
      /\ Builds(rows)
      /\ requireLiveWrite(config, binding)
      /\ publicationConfiguration
      /\ IF objects[rows.type] = None
         THEN RunExists(binding) /\ objects' = [objects EXCEPT ![rows.type] = [artifact |-> artifact, binding |-> binding]]
         ELSE compareImmutableObject(objects[rows.type], artifact, binding) /\ UNCHANGED objects
      /\ reported' = reported \cup {artifact}
      /\ UNCHANGED <<facts, agentRun, inserting, proc, files>>

-----------------------------------------------------------------------------
Init ==
  /\ facts \in Seeds
  /\ agentRun = None
  /\ inserting = None
  /\ proc = [p \in Callers |-> Idle]
  /\ files = {}
  /\ objects = [t \in {"agent_profile", "run_bundle"} |-> None]
  /\ reported = {}

Next ==
  \/ Marketplace
  \/ \E p \in Callers :
       \/ \E env \in Environments : LoadRow(p, env)
       \/ LoadServices(p)
       \/ \E kind \in {"profile", "run"} : Export(p, kind)
       \/ ProjectSelect(p)
       \/ ProjectInsert(p)
       \/ ProjectVerify(p)
       \/ Stop(p)
  \/ \E rows \in files, config \in CliConfigs, asRows \in BOOLEAN : Publish(rows, config, asRows)

Spec == Init /\ [][Next]_evidenceVars

-----------------------------------------------------------------------------
(* The evidence of a job is one story: the projected run is what the settled
   rows say, a published run bundle names that run and repeats it, and no two
   operations that were told they succeeded recorded different content for
   the job's run, its bundle or its profile. *)
EvidenceIsSettled ==
  /\ agentRun # None => AllSettled(facts) /\ agentRun = expectedProjection(runRows(facts, None))
  /\ objects["run_bundle"] # None =>
       agentRun # None /\ objects["run_bundle"].artifact.content.decision = agentRun.decision
  /\ \A a, b \in reported : a.type = b.type => a = b
=============================================================================
