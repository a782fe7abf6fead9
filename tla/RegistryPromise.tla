-------------------------- MODULE RegistryPromise --------------------------
(***************************************************************************)
(* What the ways into the directory promise: the registry sync             *)
(* (RegistrySync), the catalogue scan (ScanJob) and the embedding backfill *)
(* (EmbeddingBackfill).  The owner claim is in IdentityClaims.             *)
(***************************************************************************)
EXTENDS Naturals, Sequences

VARIABLES
    chain, final, db,                       \* of RegistrySync
    catalog, listed, cp, ingested, committed,  \* of ScanJob
    vector, backfill, passed                \* of EmbeddingBackfill

(* What the chain says of an identity at block n: its last transfer made
   the owner, "none" before the first. *)
IsOwner(id, owner, n) ==
    \/ owner = "none" /\ \A m \in 1..n : chain[m].id # id
    \/ \E m \in 1..n : /\ chain[m] = [id |-> id, to |-> owner]
                       /\ \A k \in (m + 1)..n : chain[k].id # id

(* What a sync run stores is final, whatever was reorganised between its
   reads and whatever other run overlaps it: a canonical observation
   (canonicalizeThrough) is a log of the present chain, and with the
   finalized tag the owner shown is the owner at the scanned block or at a
   later final one. *)
ScannedIsFinal ==
    /\ \A o \in db.obs : o.state = "canonical" =>
         Len(o.hash) <= final /\ SubSeq(chain, 1, Len(o.hash)) = o.hash
    /\ db.checkpoint.indexer = "finalized-tag" =>
         \A i \in DOMAIN db.owner :
           \E n \in Len(db.checkpoint.scanned)..final : IsOwner(i, db.owner[i].owner, n)

(* How many agents of the catalogue a position of the scan stands after. *)
Before(position) ==
    IF position.kind = "cursor" THEN Len(catalog) - position.at ELSE position.at

(* While every stored page came from /agents (scan-job.ts runLocked), no
   agent listed at first and standing before the checkpoint's position is
   missing: no resume, smaller page or registration in between skips one. *)
NothingSkipped ==
    cp.version # 0 /\ (\A i \in DOMAIN committed : committed[i].route = "agents") =>
      \A i \in DOMAIN catalog :
        catalog[i] \in listed /\ (cp.next.kind = "end" \/ i <= Before(cp.next))
          => catalog[i] \in ingested

(* "advances a compare-and-set cursor only after the vector write succeeds"
   (embedding-backfill.ts): whatever fails, stops or overlaps, no version
   the cursor was moved to is left without a vector. *)
PassedIsEmbedded ==
    /\ backfill.cursor = 0 \/ \E i \in DOMAIN passed : backfill.cursor = passed[i]
    /\ \A i \in DOMAIN passed : vector[passed[i]] # 0
=============================================================================
