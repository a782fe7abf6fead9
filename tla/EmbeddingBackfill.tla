------------------------- MODULE EmbeddingBackfill -------------------------
(***************************************************************************)
(* The embedding backfill of packages/agent-ingestion/src                  *)
(* (embedding-backfill.ts, vector.ts): workers walk the eligible agent     *)
(* versions in id order, write each one's vector, and only then move a     *)
(* compare-and-set cursor past it.  Versions are numbered in the order of  *)
(* their UUIDs; a semantic document is its revision number.                *)
(* PassedIsEmbedded is the promise of RegistryPromise.                     *)
(***************************************************************************)
EXTENDS Naturals, Sequences, FiniteSets, FiniteSetsExt

CONSTANTS
    Workers,
    Versions,     \* how many agent versions exist
    PageSize,     \* bound on one page
    MaxItems,     \* bound on the items of one run
    MaxDocs,      \* bound on the revisions of a document
    MaxFails,     \* bound on the failures the checkpoint counts
    LockHeld      \* TRUE: the repository wraps a transaction's client;
                  \* FALSE: a pool, whose statement releases the lock at once

VARIABLES
    eligible,   \* verified, live, published and current versions
    doc,        \* the current document of each version
    vector,     \* the document each stored vector was made from, 0 if none
    cp,         \* the scope's checkpoint row
    lock,       \* the worker holding the scope's advisory lock
    w,          \* the local state of every worker
    passed      \* history: the versions the cursor was moved to, in order

vars == <<eligible, doc, vector, cp, lock, w, passed>>

Ids == 1..Versions
NoRow == [version |-> 0, cursor |-> 0, attempted |-> 0, generated |-> 0,
          skipped |-> 0, failed |-> 0, done |-> FALSE]
NoLock == "none"
Idle == [pc |-> "idle", seen |-> NoRow, cursor |-> 0, page |-> <<>>, items |-> 0,
         fresh |-> FALSE]

Init ==
    /\ eligible \in SUBSET Ids
    /\ doc = [v \in Ids |-> 1]
    /\ vector \in [Ids -> {0, 1}]
    /\ cp = NoRow
    /\ lock = NoLock
    /\ w = [x \in Workers |-> Idle]
    /\ passed = <<>>

----------------------------------------------------------------------------

Finish(x) ==
    /\ w' = [w EXCEPT ![x] = Idle]
    /\ lock' = IF lock = x THEN NoLock ELSE lock

(* The cursor a run resumes from. *)
ResumeCursor(row) == row.cursor

(* run() and the first read of runLocked: a completed row is final. *)
Start(x) ==
    /\ w[x].pc = "idle"
    /\ ~LockHeld \/ lock = NoLock
    /\ ~cp.done
    /\ lock' = IF LockHeld THEN x ELSE NoLock
    /\ w' = [w EXCEPT ![x] = [Idle EXCEPT !.pc = "loop", !.seen = cp, !.cursor = ResumeCursor(cp)]]
    /\ UNCHANGED <<eligible, doc, vector, cp, passed>>

(* listCandidates: the first eligible ids after the cursor, in order. *)
Candidates(cursor, limit) ==
    LET after == {v \in eligible : v > cursor}
        Ordered(ids) == \A i, j \in DOMAIN ids : i < j => ids[i] < ids[j]
        First(ids) == \A v \in after : \/ \E i \in DOMAIN ids : ids[i] = v
                                       \/ Len(ids) = limit /\ \A i \in DOMAIN ids : ids[i] < v
    IN  {ids \in UNION {[1..n -> after] : n \in 0..limit} : Ordered(ids) /\ First(ids)}

(* The page holds every id with its document of now. *)
ListPage(x) ==
    /\ w[x].pc = "loop" /\ w[x].page = <<>>
    /\ w[x].items < MaxItems
    /\ \E ids \in Candidates(w[x].cursor, Min({PageSize, MaxItems - w[x].items})) :
         w' = [w EXCEPT ![x].page = [i \in DOMAIN ids |-> [id |-> ids[i], doc |-> doc[ids[i]]]],
                        ![x].pc = IF ids = <<>> THEN "complete" ELSE "find"]
    /\ UNCHANGED <<eligible, doc, vector, cp, lock, passed>>

StopAtBudget(x) ==
    /\ w[x].pc = "loop" /\ w[x].page = <<>>
    /\ w[x].items >= MaxItems
    /\ Finish(x)
    /\ UNCHANGED <<eligible, doc, vector, cp, passed>>

(* The stored vector was made from this document by this model. *)
Found(v, d) == vector[v] = d

(* The upsert keeps one vector per version and model. *)
Upsert(v, d) == [vector EXCEPT ![v] = d]

(* ensureSemanticVector, find: a vector of the same document and model is *)
(* kept and the provider is not called.                                   *)
FindVector(x) ==
    /\ w[x].pc = "find"
    /\ w' = [w EXCEPT ![x].pc =
                IF Found(Head(w[x].page).id, Head(w[x].page).doc) THEN "save" ELSE "embed",
             ![x].fresh = FALSE]
    /\ UNCHANGED <<eligible, doc, vector, cp, lock, passed>>

(* embedSemanticDocument answered and the vector upserted. *)
EmbedAndUpsert(x) ==
    /\ w[x].pc = "embed"
    /\ vector' = Upsert(Head(w[x].page).id, Head(w[x].page).doc)
    /\ w' = [w EXCEPT ![x].pc = "save", ![x].fresh = TRUE]
    /\ UNCHANGED <<eligible, doc, cp, lock, passed>>

(* The provider or the repository still fails after the bounded retries, *)
(* or the run is cancelled between two of them.                          *)
EmbedFails(x) ==
    /\ w[x].pc \in {"find", "embed"}
    /\ w[x].seen.failed < MaxFails
    /\ w' = [w EXCEPT ![x].pc = "failed"]
    /\ UNCHANGED <<eligible, doc, vector, cp, lock, passed>>

(* saveEmbeddingBackfillCheckpoint: insert, or update under the predicate *)
(* that the row is the one read, is open, and nothing in it moves back.   *)
Accepted(seen, input) ==
    /\ cp.version = seen.version
    /\ ~cp.done
    /\ input.version = cp.version + 1
    /\ input.attempted >= cp.attempted
    /\ input.generated >= cp.generated
    /\ input.skipped >= cp.skipped
    /\ input.failed >= cp.failed
    /\ input.cursor >= cp.cursor

(* Mutation: a failed item is passed over. *)
RowSkippingFailed(x) ==
    [w[x].seen EXCEPT !.version = @ + 1, !.attempted = @ + 1, !.failed = @ + 1,
                      !.cursor = Head(w[x].page).id]

(* A failed item leaves the cursor before itself. *)
FailedRow(x) ==
    [w[x].seen EXCEPT !.version = @ + 1, !.attempted = @ + 1, !.failed = @ + 1]

PassedRow(x) ==
    [w[x].seen EXCEPT !.version = @ + 1, !.attempted = @ + 1,
                      !.cursor = Head(w[x].page).id,
                      !.generated = @ + (IF w[x].fresh THEN 1 ELSE 0),
                      !.skipped = @ + (IF w[x].fresh THEN 0 ELSE 1)]

SaveFailed(x) ==
    /\ w[x].pc = "failed"
    /\ cp' = IF Accepted(w[x].seen, FailedRow(x)) THEN FailedRow(x) ELSE cp
    /\ Finish(x)
    /\ UNCHANGED <<eligible, doc, vector, passed>>

SavePassed(x) ==
    /\ w[x].pc = "save"
    /\ IF Accepted(w[x].seen, PassedRow(x))
       THEN /\ cp' = PassedRow(x)
            /\ passed' = Append(passed, Head(w[x].page).id)
            /\ w' = [w EXCEPT ![x].seen = PassedRow(x), ![x].cursor = Head(w[x].page).id,
                              ![x].page = Tail(w[x].page), ![x].items = @ + 1,
                              ![x].pc = IF Tail(w[x].page) = <<>> THEN "loop" ELSE "find"]
            /\ UNCHANGED lock
       ELSE Finish(x) /\ UNCHANGED <<cp, passed>>
    /\ UNCHANGED <<eligible, doc, vector>>

(* An empty page completes the scope. *)
Complete(x) ==
    /\ w[x].pc = "complete"
    /\ LET row == [w[x].seen EXCEPT !.version = @ + 1, !.done = TRUE]
       IN  cp' = IF Accepted(w[x].seen, row) THEN row ELSE cp
    /\ Finish(x)
    /\ UNCHANGED <<eligible, doc, vector, passed>>

(* The run's time limit, a cancellation or a crash at any await. *)
Abort(x) ==
    /\ w[x].pc # "idle"
    /\ Finish(x)
    /\ UNCHANGED <<eligible, doc, vector, cp, passed>>

(* Another part of the program lists or delists a version, or its        *)
(* document changes with a new category prediction or service.           *)
Relist(v) ==
    /\ eligible' = IF v \in eligible THEN eligible \ {v} ELSE eligible \union {v}
    /\ UNCHANGED <<doc, vector, cp, lock, w, passed>>

Revise(v) ==
    /\ doc[v] < MaxDocs
    /\ doc' = [doc EXCEPT ![v] = @ + 1]
    /\ UNCHANGED <<eligible, vector, cp, lock, w, passed>>

Next ==
    \/ \E v \in Ids : Relist(v) \/ Revise(v)
    \/ \E x \in Workers :
        \/ Start(x) \/ ListPage(x) \/ StopAtBudget(x)
        \/ FindVector(x) \/ EmbedAndUpsert(x) \/ EmbedFails(x)
        \/ SaveFailed(x) \/ SavePassed(x) \/ Complete(x) \/ Abort(x)

Spec == Init /\ [][Next]_vars
=============================================================================
