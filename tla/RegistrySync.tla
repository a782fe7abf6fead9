---------------------------- MODULE RegistrySync ----------------------------
(***************************************************************************)
(* The direct registry sync of packages/agent-ingestion: workers that run  *)
(* AgentIngestionService.syncRegistry against an ERC-8004 registry through *)
(* an RPC provider and store observations, the canonical owner of every    *)
(* identity and the scan checkpoint in Postgres.                           *)
(*                                                                         *)
(* The chain is the sequence of its blocks' registry logs; the hash of the *)
(* n-th block is the prefix of length n, so that a hash binds its history  *)
(* and a common ancestor is a common prefix.  A log is the transfer of an  *)
(* identity to an owner; each is mined at most once on a chain, and may be *)
(* mined again in another block after a reorganisation.                    *)
(*                                                                         *)
(* One sync is one database transaction.  A worker's writes are kept in    *)
(* its own record until Commit, where the checkpoint's compare-and-set     *)
(* decides; every sync that commits raises the cursor version, so a        *)
(* transaction that passes the compare-and-set read what it overwrites.    *)
(* ScannedIsFinal is the promise of RegistryPromise.                       *)
(***************************************************************************)
EXTENDS Integers, Sequences, FiniteSets, FiniteSetsExt

CONSTANTS
    Workers,        \* concurrent sync runs
    Identities,     \* registry identities
    Owners,         \* addresses an identity can be transferred to
    FinalizedTag,   \* TRUE: finalityMode "rpc-finalized-tag"; FALSE: "confirmations"
    Threshold,      \* confirmationThreshold
    NetworkDepth,   \* blocks a reorganisation can replace on the network
    MaxBlockRange,  \* maxBlockRange: blocks scanned by one run
    MaxHeight,      \* bound: blocks of the chain
    MaxReorgs,      \* bound: reorganisations
    MaxRuns,        \* bound: sync runs started (0: not bounded)
    Versions,       \* bound: the cursor version counts in a ring of this size
    MaxFailures     \* bound: provider reads that fail

VARIABLES
    chain,      \* the canonical chain of the provider
    final,      \* height the network never reverts
    db,         \* the committed rows
    run,        \* the sync run of every worker
    budget      \* what is left of the bounds

vars == <<chain, final, db, run, budget>>

NoLog == [id |-> "none", to |-> "none"]
Transfers == [id : Identities, to : Owners]

Hash(n) == SubSeq(chain, 1, n)
LogOf(hash) == hash[Len(hash)]

(* The logs of the blocks from..through of the branch ending in hash. *)
LogHashes(hash, from, through) ==
    {SubSeq(hash, 1, n) : n \in {m \in from..through : hash[m] # NoLog}}

(* The owner the registry holds for an identity at a block. *)
OwnerAt(id, hash) ==
    LET transfers == {n \in DOMAIN hash : hash[n].id = id}
    IN  IF transfers = {} THEN "none" ELSE hash[Max(transfers)].to

(* indexerVersion: it identifies the finality policy of the rows. *)
Indexer == IF FinalizedTag THEN "finalized-tag" ELSE "confirmations"

NoCheckpoint == [version |-> 0, indexer |-> Indexer, scanned |-> <<>>, finalized |-> <<>>]

Row(owner, block) == [owner |-> owner, block |-> block]

Idle == [pc |-> "idle", head |-> <<>>, tip |-> 0, before |-> NoCheckpoint,
         at |-> <<>>, ancestor |-> <<>>, rewound |-> FALSE, from |-> 0, through |-> 0,
         obs |-> {}, owner |-> <<>>, affected |-> {},
         finality |-> <<>>, scannedHash |-> <<>>, result |-> "none"]

Init ==
    /\ chain = <<>>
    /\ final = 0
    /\ db = [checkpoint |-> NoCheckpoint, obs |-> {},
             owner |-> [i \in Identities |-> Row("none", <<>>)]]
    /\ run = [w \in Workers |-> Idle]
    /\ budget = [reorgs |-> MaxReorgs, runs |-> MaxRuns, failures |-> MaxFailures]

-----------------------------------------------------------------------------
(* The network. *)

Logs(branch) == {branch[n] : n \in DOMAIN branch} \ {NoLog}

Extensions(branch) == {NoLog} \cup (Transfers \ Logs(branch))

(* Without a finality proof the network reverts at most NetworkDepth blocks. *)
Settled(branch) == IF FinalizedTag \/ Len(branch) <= final + NetworkDepth
                   THEN final ELSE Len(branch) - NetworkDepth

Mine ==
    /\ Len(chain) < MaxHeight
    /\ \E log \in Extensions(chain) : chain' = Append(chain, log)
    /\ final' = Settled(chain')
    /\ UNCHANGED <<db, run, budget>>

(* A block becomes final by consensus; only the tag mode reads it. *)
Finalize ==
    /\ FinalizedTag /\ final < Len(chain)
    /\ final' = final + 1
    /\ UNCHANGED <<chain, db, run, budget>>

(* Another branch of the same length becomes the canonical one. *)
Reorg ==
    /\ budget.reorgs > 0
    /\ \E keep \in final..(Len(chain) - 1) :
         \E suffix \in [1..(Len(chain) - keep) -> Transfers \cup {NoLog}] :
            LET branch == SubSeq(chain, 1, keep) \o suffix
                mined  == {n \in DOMAIN branch : branch[n] # NoLog}
            IN  /\ suffix[1] # chain[keep + 1]
                /\ \A m, n \in mined : branch[m] = branch[n] => m = n
                /\ chain' = branch
    /\ budget' = [budget EXCEPT !.reorgs = @ - 1]
    /\ UNCHANGED <<final, db, run>>

-----------------------------------------------------------------------------
(* One sync run, in the order of the code's awaits. *)

End(w, code) == run' = [run EXCEPT ![w] = [Idle EXCEPT !.result = code]]

(* getLatestBlock, and in tag mode getFinalizedBlockTag with its hash. *)
ReadHead(w) ==
    /\ run[w].pc = "idle" /\ (MaxRuns = 0 \/ budget.runs > 0)
    /\ run' = [run EXCEPT ![w] =
                 [Idle EXCEPT !.pc = "cursor", !.tip = Len(chain),
                              !.head = IF FinalizedTag THEN Hash(final) ELSE <<>>]]
    /\ budget' = [budget EXCEPT !.runs = IF MaxRuns = 0 THEN 0 ELSE @ - 1]
    /\ UNCHANGED <<chain, final, db>>

(* The checkpoint, and whether its scanned block is still canonical. *)
ReadCheckpoint(w) ==
    /\ run[w].pc = "cursor"
    /\ LET cp == db.checkpoint
           reorged == Len(cp.scanned) > 0 /\ Hash(Len(cp.scanned)) # cp.scanned
       IN  run' = [run EXCEPT ![w].pc = IF reorged THEN "ancestor" ELSE "window",
                              ![w].before = cp, ![w].at = cp.scanned,
                              ![w].obs = db.obs, ![w].owner = db.owner]
    /\ UNCHANGED <<chain, final, db, budget>>

(* findCommonAncestor walks the old branch down to a canonical block; it   *)
(* must be below the cursor and not below finality.                        *)
IsCommonAncestor(branch, n) ==
    /\ SubSeq(branch, 1, n) = Hash(n)
    /\ \A m \in (n + 1)..Len(branch) : SubSeq(branch, 1, m) # Hash(m)

AncestorAccepted(cp, n) == n < Len(cp.scanned) /\ n >= Len(cp.finalized)

FindAncestor(w) ==
    /\ run[w].pc = "ancestor"
    /\ LET cp == run[w].before
       IN  \E n \in 0..Len(cp.scanned) :
             /\ IsCommonAncestor(cp.scanned, n)
             /\ IF AncestorAccepted(cp, n)
                THEN run' = [run EXCEPT ![w].pc = "rewind",
                                        ![w].ancestor = SubSeq(cp.scanned, 1, n)]
                ELSE End(w, "REORG_RECONCILIATION_REQUIRED")
    /\ UNCHANGED <<chain, final, db, budget>>

Observation(hash, state) == [log |-> LogOf(hash), hash |-> hash, state |-> state]

IdsOf(observations) == {o.log.id : o \in observations}

(* markOrphaned *)
Orphan(observations, above) ==
    {IF Len(o.hash) > above THEN [o EXCEPT !.state = "orphaned"] ELSE o : o \in observations}

ReadIdentity(id, hash) == Row(OwnerAt(id, hash), hash)

(* rewindAndReconcile after the walk: the ancestor's hash is read again,   *)
(* the observations above it are orphaned, and the identities they touch   *)
(* are reread at it.                                                       *)
Rewind(w) ==
    /\ run[w].pc = "rewind"
    /\ LET r        == run[w]
           n        == Len(r.ancestor)
           hash     == Hash(n)
           orphaned == {o \in r.obs : Len(o.hash) > n /\ o.state # "orphaned"}
           affected == IdsOf(orphaned)
       IN  IF n = Len(r.before.finalized) /\ hash # r.before.finalized
           THEN End(w, "REORG_RECONCILIATION_REQUIRED")
           ELSE run' = [run EXCEPT ![w] =
                  [r EXCEPT !.pc = "window", !.at = hash, !.rewound = TRUE,
                            !.obs = Orphan(@, n), !.affected = affected,
                            !.owner = [i \in Identities |->
                               IF i \in affected THEN ReadIdentity(i, hash) ELSE r.owner[i]]]]
    /\ UNCHANGED <<chain, final, db, budget>>

(* Mutation: the window ends one block early. *)
WindowShort(from, top) ==
    IF from + MaxBlockRange - 2 < top THEN from + MaxBlockRange - 2 ELSE top

Window(from, top) ==
    IF from + MaxBlockRange - 1 < top THEN from + MaxBlockRange - 1 ELSE top

(* The bounded window of this run, pinned to the hash of the scan head.  A *)
(* run with no checkpoint and nothing to scan returns without writing.     *)
PinWindow(w) ==
    /\ run[w].pc = "window"
    /\ LET r    == run[w]
           from == Len(r.at) + 1
           top  == IF FinalizedTag THEN Len(r.head) ELSE r.tip
       IN  run' = [run EXCEPT ![w] =
             IF from <= top
             THEN [r EXCEPT !.pc = "events", !.from = from,
                            !.through = Window(from, top),
                            !.head = IF FinalizedTag THEN @ ELSE Hash(r.tip)]
             ELSE IF r.before.version = 0 THEN [Idle EXCEPT !.result = "nothing"]
             ELSE [r EXCEPT !.pc = "finality", !.through = Len(r.at)]]
    /\ UNCHANGED <<chain, final, db, budget>>

(* appendObservation: the log position is unique; a replay of the same     *)
(* block keeps the row as it is, another block hash is a conflict.         *)
LogConflict(observations, hashes) ==
    \E o \in observations, h \in hashes : o.log = LogOf(h) /\ o.hash # h

AppendObservations(observations, hashes) ==
    observations \cup
    {Observation(h, "provisional") : h \in {x \in hashes : \A o \in observations : o.hash # x}}

(* Mutation: the first block of the window is skipped. *)
EventsAfterFirst(r) == LogHashes(chain, r.from + 1, r.through)

RegistryEvents(r) == LogHashes(chain, r.from, r.through)

(* getRegistryEvents checks the pinned tag and every event's block, and    *)
(* ingestRegistryEvents appends what it returns.                           *)
ScanEvents(w) ==
    /\ run[w].pc = "events"
    /\ LET r      == run[w]
           events == RegistryEvents(r)
       IN  IF Hash(Len(r.head)) # r.head THEN End(w, "REORG_RECONCILIATION_REQUIRED")
           ELSE IF LogConflict(r.obs, events) THEN End(w, "DUPLICATE_CHAIN_LOG_CONFLICT")
           ELSE run' = [run EXCEPT ![w] =
                  [r EXCEPT !.pc = "finality", !.obs = AppendObservations(@, events),
                            !.affected = @ \cup {LogOf(h).id : h \in events}]]
    /\ UNCHANGED <<chain, final, db, budget>>

(* Mutation: the confirmations are not subtracted from the head. *)
FinalityAtHead(r) == r.through

(* The finality block may not move backwards; the hashes of the scanned    *)
(* and of the finality block are read for the checkpoint.                  *)
FinalityBlock(r) ==
    LET confirmed == IF FinalizedTag THEN Len(r.head)
                     ELSE IF r.tip > Threshold THEN r.tip - Threshold ELSE 0
    IN  IF confirmed < r.through THEN confirmed ELSE r.through

ReadFinality(w) ==
    /\ run[w].pc = "finality"
    /\ LET r == run[w]
           n == FinalityBlock(r)
       IN  IF \/ n < Len(r.before.finalized)
              \/ FinalizedTag /\ n = Len(r.head) /\ Hash(n) # r.head
           THEN End(w, "REORG_RECONCILIATION_REQUIRED")
           ELSE run' = [run EXCEPT ![w] =
                  [r EXCEPT !.pc = "promote", !.scannedHash = Hash(r.through),
                            !.finality = Hash(n)]]
    /\ UNCHANGED <<chain, final, db, budget>>

(* canonicalizeThrough: every provisional observation up to the finality   *)
(* block must be on the trusted chain; they are promoted and applied in    *)
(* chain order, so the last one of an identity wins.  In tag mode the      *)
(* affected identities are then reread at the finalized tag.               *)
Promotable(r) ==
    {o \in r.obs : o.state = "provisional" /\ Len(o.hash) <= Len(r.finality)}

LastOf(id, observations) ==
    CHOOSE o \in observations :
        o.log.id = id /\ \A p \in observations : p.log.id = id => Len(p.hash) <= Len(o.hash)

Promote(w) ==
    /\ run[w].pc = "promote"
    /\ LET r        == run[w]
           promoted == Promotable(r)
           trusted  == /\ Hash(Len(r.finality)) = r.finality
                       /\ \A o \in promoted : Hash(Len(o.hash)) = o.hash
           reread   == IF FinalizedTag THEN r.affected ELSE {}
           Applied(i) == IF i \in reread THEN ReadIdentity(i, r.head)
                         ELSE IF i \in IdsOf(promoted)
                              THEN LET o == LastOf(i, promoted) IN Row(o.log.to, o.hash)
                              ELSE r.owner[i]
       IN  IF ~trusted THEN End(w, "REORG_RECONCILIATION_REQUIRED")
           ELSE run' = [run EXCEPT ![w] =
                  [r EXCEPT !.pc = "commit",
                            !.obs = (@ \ promoted) \cup
                                    {[o EXCEPT !.state = "canonical"] : o \in promoted},
                            !.owner = [i \in Identities |-> Applied(i)],
                            !.affected = @ \cup IdsOf(promoted)]]
    /\ UNCHANGED <<chain, final, db, budget>>

(* saveCheckpoint: a lower cursor needs a rewind that ends exactly there,  *)
(* and an unmoved cursor keeps its hash.                                   *)
CheckpointRefused(old, r) ==
    LET new == r.scannedHash
    IN  \/ old # r.before
        \/ Len(new) < Len(old.scanned) /\ ~(r.rewound /\ new = r.at)
        \/ Len(new) = Len(old.scanned) /\ new # old.scanned
        \/ Len(r.finality) = Len(old.finalized) /\ r.finality # old.finalized /\ ~r.rewound

(* Never 0, the version of the missing row. *)
NextVersion(v) == 1 + (v % Versions)

Commit(w) ==
    /\ run[w].pc = "commit"
    /\ LET r == run[w]
       IN  IF CheckpointRefused(db.checkpoint, r)
           THEN /\ End(w, IF db.checkpoint = r.before /\ r.rewound
                           THEN "REWIND_REFUSED" ELSE "CHECKPOINT_CONFLICT")
                /\ UNCHANGED db
           ELSE /\ db' = [checkpoint |-> [version |-> NextVersion(r.before.version), indexer |-> Indexer,
                                          scanned |-> r.scannedHash, finalized |-> r.finality],
                          obs |-> r.obs, owner |-> r.owner]
                /\ End(w, "completed")
    /\ UNCHANGED <<chain, final, budget>>

(* A provider read fails or the worker stops: the transaction rolls back.  *)
Abort(w) ==
    /\ run[w].pc # "idle" /\ budget.failures > 0
    /\ End(w, "CHAIN_PROVIDER_UNAVAILABLE")
    /\ budget' = [budget EXCEPT !.failures = @ - 1]
    /\ UNCHANGED <<chain, final, db>>

SyncStep(w) ==
    \/ ReadHead(w) \/ ReadCheckpoint(w) \/ FindAncestor(w) \/ Rewind(w) \/ PinWindow(w)
    \/ ScanEvents(w) \/ ReadFinality(w) \/ Promote(w) \/ Commit(w)

Next ==
    \/ Mine \/ Finalize \/ Reorg
    \/ \E w \in Workers : SyncStep(w) \/ Abort(w)

Spec == Init /\ [][Next]_vars
=============================================================================
