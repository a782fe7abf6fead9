--------------------------- MODULE IdentityClaims ---------------------------
(***************************************************************************)
(* The owner claim of one ERC-8004 identity: claims.ts (claim, revalidate, *)
(* revoke), reconcileIdentity of ingestion.ts, and the Postgres statements *)
(* they run (applyCanonicalState, mutateClaim).                            *)
(*                                                                         *)
(* Transactions run at READ COMMITTED: a SELECT sees what is committed or  *)
(* what the transaction itself wrote; the first UPDATE takes the row lock  *)
(* and keeps it until the end.  The identity row and its projection in     *)
(* agents are always updated together and are one row here.                *)
(***************************************************************************)
EXTENDS Integers, Sequences, SequencesExt

CONSTANTS
    Calls,      \* concurrent calls of the service
    Kinds,      \* what they call: subset of {"claim", "revalidate", "reconcile", "revoke"}
    Owners,     \* wallets that own the identity at some block
    MaxBlocks,  \* bound: finalized blocks
    MaxCalls    \* bound: calls started

VARIABLES
    registry,   \* owner at every finalized block
    row,        \* the committed row
    events,     \* agent_claim_events
    lock,       \* the call that holds the row lock, or "free"
    call,       \* the calls in progress
    started     \* calls started

vars == <<registry, row, events, lock, call, started>>

Unclaimed == [status |-> "unclaimed", version |-> 0, claimant |-> "none"]

(* A read at a block: owner and provenance. *)
Read == [owner |-> Last(registry), block |-> Len(registry)]
NoRead == [owner |-> "none", block |-> 0]

Idle == [pc |-> "idle", kind |-> "none", wallet |-> "none", read |-> NoRead,
         prior |-> Unclaimed, prev |-> Unclaimed, prevOwner |-> "none",
         stored |-> "none", mine |-> [read |-> NoRead, claim |-> Unclaimed], result |-> "none"]

Init ==
    /\ \E o \in Owners : registry = <<o>>
    /\ row = [read |-> NoRead, claim |-> Unclaimed]
    /\ events = <<>>
    /\ lock = "free"
    /\ call = [c \in Calls |-> Idle]
    /\ started = 0

(* The ERC-721 token moves. *)
Transfer ==
    /\ Len(registry) < MaxBlocks
    /\ \E o \in Owners \ {Last(registry)} : registry' = Append(registry, o)
    /\ UNCHANGED <<row, events, lock, call, started>>

-----------------------------------------------------------------------------
(* What a transaction sees: its own uncommitted row or the committed one. *)
Seen(c) == IF lock = c THEN call[c].mine ELSE row

(* The end of a call, with its transaction rolled back. *)
Throw(c, code) ==
    /\ call' = [call EXCEPT ![c] = [Idle EXCEPT !.result = code]]
    /\ lock' = IF lock = c THEN "free" ELSE lock
    /\ UNCHANGED <<row, events>>

Step(c, next) ==
    /\ call' = [call EXCEPT ![c] = next]
    /\ UNCHANGED <<row, events, lock>>

(* A call starts with its read of the chain, outside any transaction; a    *)
(* claim goes on only for the wallet that is the owner at this read.       *)
Start(c, kind, wallet) ==
    /\ call[c].pc = "idle" /\ started < MaxCalls
    /\ started' = started + 1
    /\ kind = "claim" => wallet = Read.owner
    /\ Step(c, [Idle EXCEPT !.pc = "begin", !.kind = kind, !.wallet = wallet, !.read = Read])
    /\ UNCHANGED registry

(* The transaction begins with the prior claim and the stored owner. *)
Begin(c) ==
    /\ call[c].pc = "begin"
    /\ Step(c, [call[c] EXCEPT !.pc = CASE call[c].kind = "revoke" -> "mutate"
                                        [] call[c].kind = "claim" -> "reread"
                                        [] OTHER -> "select",
                               !.prior = row.claim, !.stored = row.read.owner])
    /\ UNCHANGED <<registry, started>>

(* Mutation: the owner is not compared with the second read. *)
AnyOwner(r, read) == TRUE

(* claim() reads the owner again inside the transaction. *)
SameOwner(r, read) == read.owner = r.wallet /\ r.stored \in {"none", r.wallet}

Reread(c) ==
    /\ call[c].pc = "reread"
    /\ IF SameOwner(call[c], Read)
       THEN Step(c, [call[c] EXCEPT !.pc = "select", !.read = Read])
       ELSE Throw(c, "CLAIM_OWNER_MISMATCH")
    /\ UNCHANGED <<registry, started>>

(* applyCanonicalState, the SELECT. *)
SelectPrevious(c) ==
    /\ call[c].pc = "select"
    /\ Step(c, [call[c] EXCEPT !.pc = "update", !.prev = Seen(c).claim,
                               !.prevOwner = Seen(c).read.owner])
    /\ UNCHANGED <<registry, started>>

(* applyCanonicalState, the UPDATE: the read replaces the row's owner, and *)
(* claim_status is written from the SELECT above.                          *)
NextStatus(prev, prevOwner, owner) ==
    IF prev.status = "claimed" /\ prevOwner # owner THEN "stale" ELSE prev.status

ApplyCanonicalState(c) ==
    /\ call[c].pc = "update" /\ lock = "free"
    /\ lock' = c
    /\ LET r == call[c]
       IN  call' = [call EXCEPT ![c] =
             [r EXCEPT !.pc = "mutate",
                       !.mine = [read  |-> r.read,
                                 claim |-> [row.claim EXCEPT !.status =
                                              NextStatus(r.prev, r.prevOwner, r.read.owner)]]]]
    /\ UNCHANGED <<registry, row, events, started>>

(* COMMIT *)
Commit(c, stored, log) ==
    /\ row' = stored
    /\ events' = events \o log
    /\ lock' = IF lock = c THEN "free" ELSE lock
    /\ call' = [call EXCEPT ![c] = [Idle EXCEPT !.result = "ok"]]

(* Mutation: mutateClaim does not compare version and status. *)
NoCas(prior, stored) == TRUE

(* The version and status mutateClaim expects. *)
ClaimUnchanged(prior, stored) ==
    prior.version = stored.version /\ prior.status = stored.status

Event(type, claimant, block) == [type |-> type, claimant |-> claimant, block |-> block]

(* claim(): another owner's active claim is not replaced. *)
MutateClaim(c) ==
    LET r == call[c]
        claimed == [status |-> "claimed", version |-> r.prior.version + 1, claimant |-> r.wallet]
    IN  /\ r.pc = "mutate" /\ r.kind = "claim"
        /\ IF r.prior.status = "claimed" /\ r.prior.claimant # r.wallet
           THEN Throw(c, "CLAIM_NOT_ACTIVE")
           ELSE IF ~ClaimUnchanged(r.prior, r.mine.claim) THEN Throw(c, "CLAIM_CONFLICT")
           ELSE Commit(c, [r.mine EXCEPT !.claim = claimed],
                       <<Event("claimed", r.wallet, r.read.block)>>)
        /\ UNCHANGED <<registry, started>>

(* revalidate(): a claim of someone who is not the owner becomes stale. *)
MutateStale(c) ==
    LET r == call[c]
        stale == [r.prior EXCEPT !.status = "stale", !.version = @ + 1]
    IN  /\ r.pc = "mutate" /\ r.kind = "revalidate"
        /\ IF r.prior.status # "claimed" \/ r.prior.claimant = r.read.owner
           THEN Commit(c, r.mine, <<>>)
           ELSE IF ~ClaimUnchanged(r.prior, r.mine.claim) THEN Throw(c, "CLAIM_CONFLICT")
           ELSE Commit(c, [r.mine EXCEPT !.claim = stale],
                       <<Event("stale", r.prior.claimant, r.read.block)>>)
        /\ UNCHANGED <<registry, started>>

(* reconcileIdentity() and the rereads of syncRegistry: markClaimStale     *)
(* reads the claim back from the row applyCanonicalState has written.      *)
MarkClaimStale(c) ==
    LET r == call[c]
        stale == [r.mine.claim EXCEPT !.status = "stale", !.version = @ + 1]
    IN  /\ r.pc = "mutate" /\ r.kind = "reconcile"
        /\ IF /\ r.prior.status = "claimed" /\ r.stored # r.read.owner
              /\ r.mine.claim.status = "claimed"
           THEN Commit(c, [r.mine EXCEPT !.claim = stale],
                       <<Event("stale", r.mine.claim.claimant, r.read.block)>>)
           ELSE Commit(c, r.mine, <<>>)
        /\ UNCHANGED <<registry, started>>

(* revoke(): by an authorised operator, for the claim it read. *)
MutateRevoked(c) ==
    LET r == call[c]
        stale == [r.prior EXCEPT !.status = "stale", !.version = @ + 1]
    IN  /\ r.pc = "mutate" /\ r.kind = "revoke" /\ lock = "free"
        /\ IF r.prior.status # "claimed"
           THEN Commit(c, row, <<>>)
           ELSE IF ~ClaimUnchanged(r.prior, row.claim) THEN Throw(c, "CLAIM_CONFLICT")
           ELSE Commit(c, [row EXCEPT !.claim = stale],
                       <<Event("revoked", r.prior.claimant, row.read.block)>>)
        /\ UNCHANGED <<registry, started>>

(* A read or a statement fails, or the process stops. *)
Abort(c) ==
    /\ call[c].pc # "idle"
    /\ Throw(c, "aborted")
    /\ UNCHANGED <<registry, started>>

Next ==
    \/ Transfer
    \/ \E c \in Calls :
         \/ \E kind \in Kinds, wallet \in Owners : Start(c, kind, wallet)
         \/ Begin(c) \/ Reread(c) \/ SelectPrevious(c) \/ ApplyCanonicalState(c)
         \/ MutateClaim(c) \/ MutateStale(c) \/ MarkClaimStale(c) \/ MutateRevoked(c)
         \/ Abort(c)

Spec == Init /\ [][Next]_vars

-----------------------------------------------------------------------------
(* Claims and their events are written together and once: the version of   *)
(* the row counts the events (the compare-and-set of mutateClaim).         *)
VersionCountsEvents == row.claim.version = Len(events)

(* A claim event names a block, and the claimant owned the identity at it. *)
ClaimantOwned ==
    \A n \in DOMAIN events :
        events[n].type = "claimed" => registry[events[n].block] = events[n].claimant

(* A claim event names a block at which the claimant owned the identity,   *)
(* also when the token moved between the two reads of claims.ts claim, and *)
(* the version of the row counts the events, whatever calls overlap        *)
(* (mutateClaim writes both together and once).                            *)
ClaimedByOwner == ClaimantOwned /\ VersionCountsEvents
=============================================================================
