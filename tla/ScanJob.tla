------------------------------ MODULE ScanJob ------------------------------
(***************************************************************************)
(* The resumable discovery job over the 8004scan catalogue                 *)
(* (packages/agent-ingestion/src/scan-job.ts): runs that page through a    *)
(* catalogue which may grow meanwhile, commit every page together with the *)
(* checkpoint of their scope, and are cut short by failures, timeouts and  *)
(* crashes.  The HTTP client (adapters/8004scan.ts) is modelled by its     *)
(* per-route circuit and by the fallback to the latest-agents route.       *)
(* NothingSkipped is the promise of RegistryPromise.                       *)
(***************************************************************************)
EXTENDS Naturals, Sequences, SequencesExt

CONSTANTS
    Runs,        \* invocations of the job for one scope
    Entries,     \* how many agents the catalogue lists at first
    Growth,      \* how many more are registered while the job runs
    PageSizes,   \* page sizes the invocations may be configured with
    MaxPages,    \* bound on the pages of one run
    MaxCands,    \* bound on the candidates of one run
    Paging,      \* "offset" or "cursor": how /agents pages
    Threshold    \* failures that open a route's circuit

VARIABLES
    catalog,    \* the provider's list, newest first
    listed,     \* history: the agents listed at first
    cp,         \* the scope's row of scan_discovery_checkpoints
    ingested,   \* agents with a stored discovery source
    lock,       \* the run holding the scope's advisory lock
    run,        \* the local state of every run
    committed   \* history: the pages committed, in order

vars == <<catalog, listed, cp, ingested, lock, run, committed>>

Routes == {"agents", "latest"}
NoCheckpoint == [version |-> 0]
NoLock == "none"
End == [kind |-> "end", at |-> 0]
NoPage == [items |-> <<>>, from |-> End, next |-> End, route |-> "none"]

Idle == [pc |-> "idle", size |-> 0, seen |-> NoCheckpoint, position |-> End,
         page |-> NoPage, pages |-> 0, cands |-> 0,
         failures |-> [t \in Routes |-> 0]]

(***************************************************************************)
(* Positions.  An offset counts from the head of the list, so it shifts    *)
(* when an agent is registered; an opaque cursor stays at its entry and is *)
(* represented by how many entries follow it.                              *)
(***************************************************************************)
Index(position) ==
    IF position.kind = "cursor" THEN Len(catalog) - position.at ELSE position.at

Following(index, kind) ==
    IF index >= Len(catalog) THEN End
    ELSE [kind |-> kind, at |-> IF kind = "cursor" THEN Len(catalog) - index ELSE index]

(* Mutation: the cursor moves by the configured page size although a *)
(* smaller page was requested.                                       *)
NextByPageSize(r, limit, kind) == Following(Index(run[r].position) + run[r].size, kind)

(* The next position of a page of at most limit entries: page.offset plus *)
(* page.limit, or the provider's cursor, or none at the end.              *)
NextPosition(r, limit, kind) == Following(Index(run[r].position) + limit, kind)

PageItems(list, index, limit) ==
    SubSeq(list, index + 1, IF index + limit < Len(list) THEN index + limit ELSE Len(list))

Limit(r) ==
    IF run[r].size < MaxCands - run[r].cands THEN run[r].size ELSE MaxCands - run[r].cands

Open(r, route) == run[r].failures[route] >= Threshold

InitialPosition == [kind |-> "offset", at |-> 0]

(* Where a run begins: the persisted position, or the query's. *)
StartPosition(checkpoint) ==
    IF checkpoint = NoCheckpoint THEN InitialPosition ELSE checkpoint.next

Init ==
    /\ catalog = [i \in 1..Entries |-> Entries + 1 - i]
    /\ listed = 1..Entries
    /\ cp = NoCheckpoint
    /\ ingested = {}
    /\ lock = NoLock
    /\ run = [r \in Runs |-> Idle]
    /\ committed = <<>>

----------------------------------------------------------------------------

(* run() until the lock query: the scope's lock is free or the run ends. *)
TakeLock(r, size) ==
    /\ run[r].pc = "idle"
    /\ lock = NoLock
    /\ lock' = r
    /\ run' = [run EXCEPT ![r] = [Idle EXCEPT !.pc = "locked", !.size = size]]
    /\ UNCHANGED <<catalog, listed, cp, ingested, committed>>

Finish(r) ==
    /\ run' = [run EXCEPT ![r] = Idle]
    /\ lock' = IF lock = r THEN NoLock ELSE lock

(* runLocked reads the checkpoint: a completed one ends the run, one of *)
(* another configuration is refused.                                    *)
ReadCheckpoint(r) ==
    /\ run[r].pc = "locked"
    /\ IF cp # NoCheckpoint /\ (cp.size # run[r].size \/ cp.next = End)
       THEN Finish(r)
       ELSE /\ run' = [run EXCEPT ![r].pc = "loop", ![r].seen = cp,
                                  ![r].position = StartPosition(cp)]
            /\ UNCHANGED lock
    /\ UNCHANGED <<catalog, listed, cp, ingested, committed>>

MoreToFetch(r) == run[r].pages < MaxPages /\ run[r].cands < MaxCands

(* The loop's bounds are used up: the run returns a partial result. *)
StopAtBudget(r) ==
    /\ run[r].pc = "loop"
    /\ ~MoreToFetch(r)
    /\ Finish(r)
    /\ UNCHANGED <<catalog, listed, cp, ingested, committed>>

Received(r, items, next, route, failures) ==
    run' = [run EXCEPT ![r].pc = "page", ![r].failures = failures,
                       ![r].page = [items |-> items, from |-> run[r].position,
                                    next |-> next, route |-> route]]

(* fetchPage answered by /agents, its circuit closed. *)
FetchAgents(r) ==
    /\ run[r].pc = "loop" /\ MoreToFetch(r)
    /\ ~Open(r, "agents")
    /\ Received(r, PageItems(catalog, Index(run[r].position), Limit(r)),
                NextPosition(r, Limit(r),
                             IF run[r].position.kind = "cursor" THEN "cursor" ELSE Paging),
                "agents", [run[r].failures EXCEPT !["agents"] = 0])
    /\ UNCHANGED <<catalog, listed, cp, ingested, lock, committed>>

AgentsFailed(r) ==
    [run[r].failures EXCEPT !["agents"] = IF Open(r, "agents") THEN @ ELSE @ + 1]

(* /agents is down or its circuit open: the latest route answers the same *)
(* offset in its own order.  It takes no opaque cursor.                   *)
FetchLatest(r) ==
    /\ run[r].pc = "loop" /\ MoreToFetch(r)
    /\ run[r].position.kind = "offset"
    /\ ~Open(r, "latest")
    /\ Received(r, PageItems(Reverse(catalog), Index(run[r].position), Limit(r)),
                NextPosition(r, Limit(r), "offset"), "latest",
                [AgentsFailed(r) EXCEPT !["latest"] = 0])
    /\ UNCHANGED <<catalog, listed, cp, ingested, lock, committed>>

(* A request that fails on both routes, a page that validatePage refuses, *)
(* a cancelled or timed-out run, or the end of its process: whatever was  *)
(* not committed is gone, and with it the lock.                           *)
Abort(r) ==
    /\ run[r].pc # "idle"
    /\ Finish(r)
    /\ UNCHANGED <<catalog, listed, cp, ingested, committed>>

(* The lock's own connection is dropped while the run goes on. *)
LoseLock(r) ==
    /\ lock = r
    /\ lock' = NoLock
    /\ UNCHANGED <<catalog, listed, cp, ingested, run, committed>>

(***************************************************************************)
(* saveScanDiscoveryCheckpoint.                                            *)
(***************************************************************************)
NextCheckpoint(r) ==
    [version |-> run[r].seen.version + 1,
     size |-> run[r].size,
     next |-> run[r].page.next,
     pages |-> IF run[r].seen = NoCheckpoint THEN 1 ELSE run[r].seen.pages + 1,
     cands |-> Len(run[r].page.items)
               + IF run[r].seen = NoCheckpoint THEN 0 ELSE run[r].seen.cands]

Refused(existing, seen, input) ==
    \/ existing.version # seen.version
    \/ /\ existing # NoCheckpoint
       /\ \/ input.version # existing.version + 1
          \/ existing.next = End
          \/ input.size # existing.size
          \/ input.pages # existing.pages + 1
          \/ input.cands < existing.cands
          \/ existing.next.kind = "cursor" /\ input.next.kind = "offset"
          \/ /\ existing.next.kind = "offset" /\ input.next.kind = "offset"
             /\ input.next.at <= existing.next.at
          \/ existing.next.kind = "cursor" /\ input.next = existing.next

(* Every candidate's identity, source and observations are upserted. *)
Ingest(items) == ingested \union ToSet(items)

(* One transaction stores the page's candidates and the checkpoint; a *)
(* refused checkpoint rolls both back and ends the run.               *)
CommitPage(r) ==
    /\ run[r].pc = "page"
    /\ IF Refused(cp, run[r].seen, NextCheckpoint(r))
       THEN Finish(r) /\ UNCHANGED <<cp, ingested, committed>>
       ELSE /\ cp' = NextCheckpoint(r)
            /\ ingested' = Ingest(run[r].page.items)
            /\ committed' = Append(committed, run[r].page)
            /\ IF run[r].page.next = End
               THEN Finish(r)
               ELSE /\ run' = [run EXCEPT
                         ![r].pc = "loop", ![r].page = NoPage,
                         ![r].seen = NextCheckpoint(r),
                         ![r].position = run[r].page.next,
                         ![r].pages = @ + 1,
                         ![r].cands = @ + Len(run[r].page.items)]
                    /\ UNCHANGED lock
    /\ UNCHANGED <<catalog, listed>>

(* An agent is registered: it appears at the head of the list. *)
Register ==
    /\ Len(catalog) < Entries + Growth
    /\ catalog' = <<Len(catalog) + 1>> \o catalog
    /\ UNCHANGED <<listed, cp, ingested, lock, run, committed>>

Next ==
    \/ Register
    \/ \E r \in Runs :
        \/ \E size \in PageSizes : TakeLock(r, size)
        \/ ReadCheckpoint(r)
        \/ StopAtBudget(r)
        \/ FetchAgents(r)
        \/ FetchLatest(r)
        \/ Abort(r)
        \/ LoseLock(r)
        \/ CommitPage(r)

Spec == Init /\ [][Next]_vars
=============================================================================
