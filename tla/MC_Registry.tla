----------------------------- MODULE MC_Registry -----------------------------
(***************************************************************************)
(* How agents get into the directory, for TLC: the registry sync           *)
(* (RegistrySync), owner claims (IdentityClaims), the catalogue scan       *)
(* (ScanJob) and the embedding backfill (EmbeddingBackfill).  A behaviour  *)
(* is one scene: one of the components; the others rest in an initial      *)
(* state, so that what is promised of them (RegistryPromise,               *)
(* ClaimedByOwner) holds in every scene.                                   *)
(***************************************************************************)
EXTENDS IdentityClaims, RegistryPromise

CONSTANT Workers   \* concurrent runs or calls

VARIABLES scene,
  run, budget,
  scanLock, scan,
  eligible, doc, backfillLock, worker

syncVars == <<chain, final, db, run, budget>>
scanVars == <<catalog, listed, cp, ingested, scanLock, scan, committed>>
backfillVars == <<eligible, doc, vector, backfill, backfillLock, worker, passed>>

-----------------------------------------------------------------------------
(* Two overlapping runs follow the finalized tag. *)
Tagged == INSTANCE RegistrySync WITH
  Identities <- {"agent"}, Owners <- {"x", "y"}, FinalizedTag <- TRUE, Threshold <- 0, NetworkDepth <- 0,
  MaxBlockRange <- 1, MaxHeight <- 2, MaxReorgs <- 1, MaxRuns <- 3, Versions <- 9, MaxFailures <- 0

(* One run after another counts confirmations, as many as the network reverts. *)
Confirmed == INSTANCE RegistrySync WITH
  Workers <- {"w"}, Identities <- {"agent"}, Owners <- {"x", "y"}, FinalizedTag <- FALSE, Threshold <- 2,
  NetworkDepth <- 2, MaxBlockRange <- 2, MaxHeight <- 3, MaxReorgs <- 2, MaxRuns <- 3, Versions <- 9,
  MaxFailures <- 1

(* The provider pages by an opaque cursor, or by an offset that shifts. *)
Cursor == INSTANCE ScanJob WITH
  Runs <- Workers, Entries <- 4, Growth <- 1, PageSizes <- {2}, MaxPages <- 3, MaxCands <- 3,
  Paging <- "cursor", Threshold <- 2, lock <- scanLock, run <- scan

Offset == INSTANCE ScanJob WITH
  Runs <- Workers, Entries <- 3, Growth <- 1, PageSizes <- {1, 2}, MaxPages <- 2, MaxCands <- 3,
  Paging <- "offset", Threshold <- 1, lock <- scanLock, run <- scan

(* The repository is a pool: its advisory lock does not exclude a second run. *)
Pool == INSTANCE EmbeddingBackfill WITH
  Versions <- 2, PageSize <- 2, MaxItems <- 1, MaxDocs <- 2, MaxFails <- 1, LockHeld <- FALSE,
  cp <- backfill, lock <- backfillLock, w <- worker

Held == INSTANCE EmbeddingBackfill WITH
  Versions <- 2, PageSize <- 2, MaxItems <- 2, MaxDocs <- 2, MaxFails <- 1, LockHeld <- TRUE,
  cp <- backfill, lock <- backfillLock, w <- worker

NoSync == Confirmed!Init
NoClaims == Init /\ registry = <<"x">>
NoScan == Offset!Init
NoBackfill == Held!Init /\ eligible = {} /\ vector = [v \in 1..2 |-> 0]

SyncInit == \/ scene = "tagged" /\ Tagged!Init
            \/ scene = "confirmed" /\ Confirmed!Init

SyncNext == \/ scene = "tagged" /\ Tagged!Next
            \/ scene = "confirmed" /\ Confirmed!Next

ScanInit == \/ scene = "cursor" /\ Cursor!Init
            \/ scene = "offset" /\ Offset!Init

ScanNext == \/ scene = "cursor" /\ Cursor!Next
            \/ scene = "offset" /\ Offset!Next

BackfillInit == \/ scene = "pool" /\ Pool!Init
                \/ scene = "held" /\ Held!Init

BackfillNext == \/ scene = "pool" /\ Pool!Next
                \/ scene = "held" /\ Held!Next

RegistryInit ==
  \/ SyncInit /\ NoClaims /\ NoScan /\ NoBackfill
  \/ scene = "claims" /\ Init /\ NoSync /\ NoScan /\ NoBackfill
  \/ ScanInit /\ NoSync /\ NoClaims /\ NoBackfill
  \/ BackfillInit /\ NoSync /\ NoClaims /\ NoScan

RegistryNext ==
  /\ \/ SyncNext /\ UNCHANGED <<vars, scanVars, backfillVars>>
     \/ scene = "claims" /\ Next /\ UNCHANGED <<syncVars, scanVars, backfillVars>>
     \/ ScanNext /\ UNCHANGED <<syncVars, vars, backfillVars>>
     \/ BackfillNext /\ UNCHANGED <<syncVars, vars, scanVars>>
  /\ UNCHANGED scene

RegistrySpec == RegistryInit /\ [][RegistryNext]_<<scene, syncVars, vars, scanVars, backfillVars>>
=============================================================================
