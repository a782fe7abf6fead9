--------------------------- MODULE Registry_proofs ---------------------------
(***************************************************************************)
(* What is promised of the ways into the directory, for any number of      *)
(* runs, calls, blocks, pages and versions.                                *)
(*                                                                         *)
(* Owner claims (IdentityClaims): the block a claim event names is the one *)
(* its call read last, and the call goes on only if the owner it read      *)
(* there is its wallet.  The version counts the events because a call that *)
(* writes a claim holds the row lock since its own update, which kept the  *)
(* version of the committed row, or takes a lock that nobody holds.        *)
(*                                                                         *)
(* The registry sync (RegistrySync): whatever a run promotes is at most    *)
(* the finality block it read, which the network had already settled.      *)
(* With the finalized tag the scanned block is itself final, so the runs   *)
(* never meet a reorganisation; an identity outside "affected" has no log  *)
(* in the window, and the others are reread at the head.                   *)
(*                                                                         *)
(* The catalogue scan (ScanJob): a page continues what its run had read    *)
(* without a gap, and only a run that read the stored checkpoint commits.  *)
(* The advisory lock plays no part.                                        *)
(*                                                                         *)
(* The embedding backfill (EmbeddingBackfill): before a worker saves an    *)
(* item its vector is stored, and no vector is ever removed; a row written *)
(* for a failed item or for the end keeps the cursor it read.              *)
(***************************************************************************)
EXTENDS IdentityClaims, RegistryPromise, SequenceTheorems, TLAPS

CONSTANTS
  Workers,
  Identities, FinalizedTag, Threshold, NetworkDepth, MaxBlockRange, MaxHeight, MaxReorgs, MaxRuns,
  Versions, MaxFailures,                                        \* of RegistrySync
  Entries, Growth, PageSizes, MaxPages, MaxCands, Paging, CircuitThreshold,   \* of ScanJob
  EmbeddingVersions, PageSize, MaxItems, MaxDocs, MaxFails, LockHeld          \* of EmbeddingBackfill

VARIABLES
  run, budget,
  scanLock, scan,
  eligible, doc, backfillLock, worker

Sync == INSTANCE RegistrySync

Scan == INSTANCE ScanJob WITH
          Runs <- Workers, Threshold <- CircuitThreshold, lock <- scanLock, run <- scan

Fill == INSTANCE EmbeddingBackfill WITH
          Versions <- EmbeddingVersions, cp <- backfill, lock <- backfillLock, w <- worker

-----------------------------------------------------------------------------
(* Owner claims. *)

\* No call is named like the open lock.
FreeIsNoCall == "free" \notin Calls

Wallets == Owners \cup {"none"}

Reads == [owner : Wallets, block : Nat]

Claims == [status : {"unclaimed", "claimed", "stale"}, version : Nat, claimant : Wallets]

Rows == [read : Reads, claim : Claims]

EventRecords == [type : {"claimed", "stale", "revoked"}, claimant : Wallets, block : Nat]

Codes == {"aborted", "CLAIM_OWNER_MISMATCH", "CLAIM_NOT_ACTIVE", "CLAIM_CONFLICT"}

CallRecords ==
  [pc : {"idle", "begin", "reread", "select", "update", "mutate"}, kind : Kinds \cup {"none"}, wallet : Wallets,
   read : Reads, prior : Claims, prev : Claims, prevOwner : Wallets, stored : Wallets, mine : Rows,
   result : Codes \cup {"none", "ok"}]

TypeInv ==
  /\ registry \in Seq(Owners) /\ registry # <<>>
  /\ row \in Rows
  /\ events \in Seq(EventRecords)
  /\ lock \in Calls \cup {"free"}
  /\ call \in [Calls -> CallRecords]

\* What a call in progress knows, under lock l and a committed row of version v.
CallInv(r, c, reg, l, v) ==
  /\ r.pc # "idle" => r.read.block \in DOMAIN reg /\ reg[r.read.block] = r.read.owner
  /\ r.pc \in {"select", "update", "mutate"} /\ r.kind = "claim" => r.read.owner = r.wallet
  /\ r.pc \in {"reread", "select", "update"} => r.kind # "revoke"
  /\ r.pc = "mutate" /\ r.kind # "revoke" <=> l = c
  /\ l = c => r.mine.claim.version = v

\* The owner at the block of a claim event.
EventInv(es, reg) ==
  \A n \in DOMAIN es :
    es[n].type = "claimed" => es[n].block \in DOMAIN reg /\ reg[es[n].block] = es[n].claimant

Inv ==
  /\ TypeInv
  /\ \A c \in Calls : CallInv(call[c], c, registry, lock, row.claim.version)
  /\ EventInv(events, registry)
  /\ VersionCountsEvents

-----------------------------------------------------------------------------
\* The read of the chain: its owner at its block.
LEMMA ReadFacts ==
  ASSUME TypeInv
  PROVE  /\ Read \in Reads /\ Read.owner \in Owners
         /\ Read.block \in DOMAIN registry /\ registry[Read.block] = Read.owner
  <1>1. registry \in Seq(Owners) /\ registry # <<>> BY DEF TypeInv
  <1>2. Len(registry) \in DOMAIN registry /\ Len(registry) \in Nat BY <1>1
  <1>3. registry[Len(registry)] \in Owners BY <1>1, <1>2
  <1>. QED BY <1>2, <1>3 DEF Read, Last, Reads, Wallets

LEMMA TransferInv ==
  ASSUME Inv, Transfer
  PROVE  Inv'
  <1>1. registry \in Seq(Owners) BY DEF Inv, TypeInv
  <1>2. PICK o \in Owners : registry' = Append(registry, o) BY DEF Transfer
  <1>3. UNCHANGED <<row, events, lock, call>> BY DEF Transfer
  <1>4. registry' \in Seq(Owners) /\ registry' # <<>> BY <1>1, <1>2
  <1>5. \A b \in DOMAIN registry : b \in DOMAIN registry' /\ registry'[b] = registry[b] BY <1>1, <1>2
  <1>6. TypeInv' BY <1>3, <1>4 DEF Inv, TypeInv
  <1>7. \A c \in Calls : CallInv(call'[c], c, registry', lock', row'.claim.version)
    BY <1>3, <1>5 DEF Inv, CallInv
  <1>8. EventInv(events', registry') BY <1>3, <1>5 DEF Inv, EventInv
  <1>9. VersionCountsEvents' BY <1>3 DEF Inv, VersionCountsEvents
  <1>. QED BY <1>6, <1>7, <1>8, <1>9 DEF Inv

-----------------------------------------------------------------------------
(* The steps of a call. *)

\* A call becomes r; the row and its lock are left alone, or are the call's to change.
LEMMA OneCall ==
  ASSUME FreeIsNoCall, Inv, NEW c \in Calls, NEW r \in CallRecords,
         call' = [call EXCEPT ![c] = r], registry' = registry,
         row' \in Rows, events' \in Seq(EventRecords),
         \/ lock' = lock /\ row' = row
         \/ lock \in {c, "free"} /\ lock' \in {c, "free"},
         CallInv(r, c, registry, lock', row'.claim.version),
         EventInv(events', registry),
         row'.claim.version = Len(events')
  PROVE  Inv'
  <1>1. call \in [Calls -> CallRecords] BY DEF Inv, TypeInv
  <1>2. TypeInv' BY <1>1 DEF Inv, TypeInv
  <1>3. ASSUME NEW d \in Calls PROVE CallInv(call'[d], d, registry', lock', row'.claim.version)
    <2>1. CASE d = c BY <1>1, <2>1
    <2>2. CASE d # c
      <3>1. call'[d] = call[d] BY <1>1, <2>2
      <3>2. CallInv(call[d], d, registry, lock, row.claim.version) BY DEF Inv
      <3>3. (lock' = lock /\ row' = row) \/ (lock # d /\ lock' # d) BY <2>2 DEF FreeIsNoCall
      <3>. QED BY <3>1, <3>2, <3>3 DEF CallInv
    <2>. QED BY <2>1, <2>2
  <1>4. VersionCountsEvents' BY DEF VersionCountsEvents
  <1>. QED BY <1>2, <1>3, <1>4 DEF Inv

\* A call takes a step and the row is left alone.
LEMMA StepInv ==
  ASSUME FreeIsNoCall, Inv, NEW c \in Calls, NEW r \in CallRecords, Step(c, r), registry' = registry,
         CallInv(r, c, registry, lock, row.claim.version)
  PROVE  Inv'
  <1>1. call' = [call EXCEPT ![c] = r] /\ UNCHANGED <<row, events, lock>> BY DEF Step
  <1>2. row' \in Rows /\ events' \in Seq(EventRecords) BY <1>1 DEF Inv, TypeInv
  <1>3. EventInv(events', registry) BY <1>1 DEF Inv
  <1>4. row'.claim.version = Len(events') BY <1>1 DEF Inv, VersionCountsEvents
  <1>5. CallInv(r, c, registry, lock', row'.claim.version) BY <1>1
  <1>. QED BY <1>1, <1>2, <1>3, <1>4, <1>5, OneCall

LEMMA IdleFacts ==
  /\ Idle \in CallRecords
  /\ \A code \in Codes \cup {"ok"} :
       [Idle EXCEPT !.result = code] \in CallRecords /\ [Idle EXCEPT !.result = code].pc = "idle"
  <1>1. NoRead \in Reads /\ Unclaimed \in Claims /\ "none" \in Wallets
    BY DEF NoRead, Unclaimed, Reads, Claims, Wallets
  <1>2. [read |-> NoRead, claim |-> Unclaimed] \in Rows BY <1>1 DEF Rows
  <1>3. Idle \in CallRecords /\ Idle.pc = "idle" BY <1>1, <1>2 DEF Idle, CallRecords
  <1>4. PICK i : i = Idle OBVIOUS
  <1>5. ASSUME NEW code \in Codes \cup {"ok"}
        PROVE  [i EXCEPT !.result = code] \in CallRecords /\ [i EXCEPT !.result = code].pc = "idle"
    BY <1>3, <1>4, <1>5 DEF CallRecords
  <1>. QED BY <1>3, <1>4, <1>5

\* A call ends without an effect.
LEMMA ThrowInv ==
  ASSUME FreeIsNoCall, Inv, NEW c \in Calls,
         NEW code \in Codes, Throw(c, code), registry' = registry
  PROVE  Inv'
  <1> DEFINE r == [Idle EXCEPT !.result = code]
  <1>1. r \in CallRecords /\ r.pc = "idle" BY IdleFacts
  <1>2. call' = [call EXCEPT ![c] = r] /\ lock' = (IF lock = c THEN "free" ELSE lock) /\ UNCHANGED <<row, events>>
    BY DEF Throw
  <1> HIDE DEF r
  <1>3. lock' # c BY <1>2 DEF FreeIsNoCall
  <1>4. CallInv(r, c, registry, lock', row'.claim.version) BY <1>1, <1>3 DEF CallInv
  <1>5. (lock' = lock /\ row' = row) \/ (lock \in {c, "free"} /\ lock' \in {c, "free"}) BY <1>2
  <1>6. row' \in Rows /\ events' \in Seq(EventRecords) BY <1>2 DEF Inv, TypeInv
  <1>7. EventInv(events', registry) /\ row'.claim.version = Len(events') BY <1>2 DEF Inv, VersionCountsEvents
  <1>. QED BY <1>1, <1>2, <1>4, <1>5, <1>6, <1>7, OneCall

\* A transaction commits the row of its call and what it logged.
LEMMA CommitInv ==
  ASSUME FreeIsNoCall, Inv, NEW c \in Calls, NEW stored \in Rows, NEW log \in Seq(EventRecords),
         Commit(c, stored, log), registry' = registry, lock \in {c, "free"},
         stored.claim.version = Len(events) + Len(log), EventInv(log, registry)
  PROVE  Inv'
  <1> DEFINE r == [Idle EXCEPT !.result = "ok"]
  <1>1. r \in CallRecords /\ r.pc = "idle" BY IdleFacts
  <1>2. call' = [call EXCEPT ![c] = r] /\ row' = stored /\ events' = events \o log /\ lock' = "free"
    BY DEF Commit
  <1> HIDE DEF r
  <1>3. CallInv(r, c, registry, lock', row'.claim.version) BY <1>1, <1>2 DEF CallInv, FreeIsNoCall
  <1>4. events \in Seq(EventRecords) /\ EventInv(events, registry) BY DEF Inv, TypeInv
  <1>5. events' \in Seq(EventRecords) /\ Len(events') = Len(events) + Len(log) BY <1>2, <1>4
  <1>6. EventInv(events', registry)
    <2> SUFFICES ASSUME NEW n \in DOMAIN events', events'[n].type = "claimed"
                 PROVE  events'[n].block \in DOMAIN registry /\ registry[events'[n].block] = events'[n].claimant
      BY DEF EventInv
    <2>1. \/ n \in DOMAIN events /\ events'[n] = events[n]
          \/ n - Len(events) \in DOMAIN log /\ events'[n] = log[n - Len(events)]
      BY <1>2, <1>4
    <2>. QED BY <1>4, <2>1 DEF EventInv
  <1>. QED BY <1>1, <1>2, <1>3, <1>5, <1>6, OneCall

LEMMA ReadInv ==
  ASSUME FreeIsNoCall, Inv, NEW c \in Calls,
         (\E kind \in Kinds, wallet \in Owners : Start(c, kind, wallet)) \/ Begin(c) \/ Reread(c) \/ SelectPrevious(c)
  PROVE  Inv'
  <1> DEFINE q == call[c]
  <1>1. q \in CallRecords /\ row \in Rows /\ CallInv(q, c, registry, lock, row.claim.version) /\ TypeInv
    BY DEF Inv, TypeInv
  <1>2. /\ Read \in Reads /\ Read.owner \in Owners /\ Read.block \in DOMAIN registry
        /\ registry[Read.block] = Read.owner
    BY <1>1, ReadFacts
  <1> HIDE DEF q
  <1>3. ASSUME NEW kind \in Kinds, NEW wallet \in Owners, Start(c, kind, wallet) PROVE Inv'
    <2> DEFINE r == [Idle EXCEPT !.pc = "begin", !.kind = kind, !.wallet = wallet, !.read = Read]
    <2>1. r \in CallRecords /\ r.pc = "begin" /\ r.read = Read
      <3>1. PICK i \in CallRecords : i = Idle BY IdleFacts
      <3>2. wallet \in Wallets /\ kind \in Kinds \cup {"none"} BY DEF Wallets
      <3> DEFINE s == [i EXCEPT !.pc = "begin", !.kind = kind, !.wallet = wallet, !.read = Read]
      <3>3. s \in CallRecords /\ s.pc = "begin" /\ s.read = Read BY <1>2, <3>2 DEF CallRecords
      <3>. QED BY <3>1, <3>3
    <2>2. Step(c, r) /\ registry' = registry /\ q.pc = "idle" BY <1>3 DEF Start, q
    <2> HIDE DEF r
    <2>3. CallInv(r, c, registry, lock, row.claim.version) BY <1>1, <1>2, <2>1, <2>2 DEF CallInv
    <2>. QED BY <2>1, <2>2, <2>3, StepInv
  <1>4. CASE Begin(c)
    <2> DEFINE pc == CASE q.kind = "revoke" -> "mutate" [] q.kind = "claim" -> "reread" [] OTHER -> "select"
               r == [q EXCEPT !.pc = pc, !.prior = row.claim, !.stored = row.read.owner]
    <2>1. /\ pc \in {"mutate", "reread", "select"} /\ (pc = "mutate" <=> q.kind = "revoke")
          /\ (q.kind = "claim" => pc = "reread")
      OBVIOUS
    <2>2. Step(c, r) /\ registry' = registry /\ q.pc = "begin" BY <1>4 DEF Begin, q
    <2> HIDE DEF pc
    <2>3. row.claim \in Claims /\ row.read.owner \in Wallets BY <1>1 DEF Rows, Reads
    <2>4. r \in CallRecords /\ r.pc = pc /\ r.kind = q.kind /\ r.read = q.read /\ r.mine = q.mine
      BY <1>1, <2>1, <2>3 DEF CallRecords
    <2> HIDE DEF r
    <2>5. CallInv(r, c, registry, lock, row.claim.version) BY <1>1, <2>1, <2>2, <2>4 DEF CallInv
    <2>. QED BY <2>2, <2>4, <2>5, StepInv
  <1>5. CASE Reread(c)
    <2>1. CASE SameOwner(q, Read)
      <3> DEFINE r == [q EXCEPT !.pc = "select", !.read = Read]
      <3>1. Step(c, r) /\ registry' = registry /\ q.pc = "reread" BY <1>5, <2>1 DEF Reread, q
      <3>2. r \in CallRecords /\ r.pc = "select" /\ r.kind = q.kind /\ r.read = Read /\ r.wallet = q.wallet
            /\ r.mine = q.mine
        BY <1>1, <1>2 DEF CallRecords
      <3> HIDE DEF r
      <3>3. Read.owner = q.wallet BY <2>1 DEF SameOwner
      <3>4. CallInv(r, c, registry, lock, row.claim.version) BY <1>1, <1>2, <3>1, <3>2, <3>3 DEF CallInv
      <3>. QED BY <3>1, <3>2, <3>4, StepInv
    <2>2. CASE ~SameOwner(q, Read)
      <3>1. Throw(c, "CLAIM_OWNER_MISMATCH") /\ registry' = registry BY <1>5, <2>2 DEF Reread, q
      <3>2. "CLAIM_OWNER_MISMATCH" \in Codes BY DEF Codes
      <3>. QED BY <3>1, <3>2, ThrowInv
    <2>. QED BY <2>1, <2>2
  <1>6. CASE SelectPrevious(c)
    <2> DEFINE r == [q EXCEPT !.pc = "update", !.prev = Seen(c).claim, !.prevOwner = Seen(c).read.owner]
    <2>1. Step(c, r) /\ registry' = registry /\ q.pc = "select" BY <1>6 DEF SelectPrevious, q
    <2>2. Seen(c) \in Rows BY <1>1 DEF Seen, CallRecords, q
    <2>3. Seen(c).claim \in Claims /\ Seen(c).read.owner \in Wallets BY <2>2 DEF Rows, Reads
    <2>4. r \in CallRecords /\ r.pc = "update" /\ r.kind = q.kind /\ r.read = q.read /\ r.wallet = q.wallet
          /\ r.mine = q.mine
      BY <1>1, <2>3 DEF CallRecords
    <2> HIDE DEF r
    <2>5. CallInv(r, c, registry, lock, row.claim.version) BY <1>1, <2>1, <2>4 DEF CallInv
    <2>. QED BY <2>1, <2>4, <2>5, StepInv
  <1>. QED BY <1>3, <1>4, <1>5, <1>6

LEMMA ApplyInv ==
  ASSUME FreeIsNoCall, Inv, NEW c \in Calls, ApplyCanonicalState(c)
  PROVE  Inv'
  <1> DEFINE q == call[c]
             status == NextStatus(q.prev, q.prevOwner, q.read.owner)
             claim == [row.claim EXCEPT !.status = status]
             mine == [read |-> q.read, claim |-> claim]
             r == [q EXCEPT !.pc = "mutate", !.mine = mine]
  <1>1. /\ q \in CallRecords /\ row \in Rows /\ events \in Seq(EventRecords)
        /\ CallInv(q, c, registry, lock, row.claim.version)
    BY DEF Inv, TypeInv
  <1>2. q.pc = "update" /\ lock = "free" /\ lock' = c /\ call' = [call EXCEPT ![c] = r] /\ UNCHANGED <<registry, row, events>>
    BY DEF ApplyCanonicalState
  <1> HIDE DEF q
  <1>3. q.prev \in Claims /\ q.read \in Reads /\ row.claim \in Claims BY <1>1 DEF CallRecords, Rows
  <1>4. status \in {"unclaimed", "claimed", "stale"} BY <1>3 DEF NextStatus, Claims
  <1> HIDE DEF status
  <1>5. claim \in Claims /\ claim.version = row.claim.version BY <1>3, <1>4 DEF Claims
  <1> HIDE DEF claim
  <1>6. mine \in Rows /\ mine.claim = claim BY <1>3, <1>5 DEF Rows
  <1> HIDE DEF mine
  <1>7. r \in CallRecords /\ r.pc = "mutate" /\ r.kind = q.kind /\ r.read = q.read /\ r.wallet = q.wallet /\ r.mine = mine
    BY <1>1, <1>6 DEF CallRecords
  <1> HIDE DEF r
  <1>8. CallInv(r, c, registry, lock', row'.claim.version) BY <1>1, <1>2, <1>5, <1>6, <1>7 DEF CallInv
  <1>9. row' \in Rows /\ events' \in Seq(EventRecords) /\ EventInv(events', registry) BY <1>1, <1>2 DEF Inv
  <1>10. row'.claim.version = Len(events') BY <1>2 DEF Inv, VersionCountsEvents
  <1>. QED BY <1>2, <1>7, <1>8, <1>9, <1>10, OneCall

-----------------------------------------------------------------------------
(* The writes of a claim. *)

\* A single event is logged.
LEMMA LogFacts ==
  ASSUME NEW e \in EventRecords,
         e.type = "claimed" => e.block \in DOMAIN registry /\ registry[e.block] = e.claimant
  PROVE  /\ <<e>> \in Seq(EventRecords) /\ Len(<<e>>) = 1 /\ EventInv(<<e>>, registry)
         /\ <<>> \in Seq(EventRecords) /\ Len(<<>>) = 0 /\ EventInv(<<>>, registry)
  BY DEF EventInv

\* The version a call expects is the number of events.
LEMMA ExpectedFacts ==
  ASSUME Inv, NEW c \in Calls, call[c].pc = "mutate"
  PROVE  /\ call[c] \in CallRecords /\ row \in Rows /\ row.claim.version = Len(events) /\ Len(events) \in Nat
         /\ call[c].prior \in Claims /\ call[c].mine \in Rows /\ call[c].read \in Reads /\ call[c].wallet \in Wallets
         /\ call[c].mine.claim \in Claims /\ row.claim \in Claims
         /\ call[c].read.block \in Nat /\ row.read.block \in Nat
         /\ call[c].read.block \in DOMAIN registry /\ registry[call[c].read.block] = call[c].read.owner
         /\ call[c].kind = "claim" => call[c].read.owner = call[c].wallet
         /\ call[c].kind # "revoke" => lock = c /\ call[c].mine.claim.version = Len(events)
  <1>1. call[c] \in CallRecords /\ row \in Rows /\ events \in Seq(EventRecords) BY DEF Inv, TypeInv
  <1>2. row.claim.version = Len(events) /\ Len(events) \in Nat BY <1>1 DEF Inv, VersionCountsEvents
  <1>3. /\ call[c].prior \in Claims /\ call[c].mine \in Rows /\ call[c].read \in Reads /\ call[c].wallet \in Wallets
    BY <1>1 DEF CallRecords
  <1>4. call[c].mine.claim \in Claims /\ row.claim \in Claims /\ row.read \in Reads BY <1>1, <1>3 DEF Rows
  <1>5. call[c].read.block \in Nat /\ row.read.block \in Nat BY <1>3, <1>4 DEF Reads
  <1>6. CallInv(call[c], c, registry, lock, row.claim.version) BY DEF Inv
  <1>. QED BY <1>1, <1>2, <1>3, <1>4, <1>5, <1>6 DEF CallInv

LEMMA MutateClaimInv ==
  ASSUME FreeIsNoCall, Inv, NEW c \in Calls, MutateClaim(c)
  PROVE  Inv'
  <1> DEFINE q == call[c]
             claimed == [status |-> "claimed", version |-> q.prior.version + 1, claimant |-> q.wallet]
             stored == [q.mine EXCEPT !.claim = claimed]
             e == Event("claimed", q.wallet, q.read.block)
  <1>1. q.pc = "mutate" /\ q.kind = "claim" /\ registry' = registry BY DEF MutateClaim
  <1>2. /\ q.prior \in Claims /\ q.mine \in Rows /\ q.wallet \in Wallets /\ q.read.block \in Nat
        /\ q.read.block \in DOMAIN registry /\ registry[q.read.block] = q.wallet
        /\ lock = c /\ q.mine.claim.version = Len(events) /\ Len(events) \in Nat
    BY <1>1, ExpectedFacts
  <1>3. CASE Throw(c, "CLAIM_NOT_ACTIVE") \/ Throw(c, "CLAIM_CONFLICT") BY <1>1, <1>3, ThrowInv DEF Codes
  <1>4. CASE ClaimUnchanged(q.prior, q.mine.claim) /\ Commit(c, stored, <<e>>)
    <2> HIDE DEF q
    <2>1. q.prior.version = Len(events) BY <1>2, <1>4 DEF ClaimUnchanged
    <2>2. claimed \in Claims /\ claimed.version = Len(events) + 1 BY <1>2, <2>1 DEF Claims
    <2> HIDE DEF claimed
    <2>3. stored \in Rows /\ stored.claim.version = Len(events) + 1 BY <1>2, <2>2 DEF Rows
    <2> HIDE DEF stored
    <2>4. e \in EventRecords /\ e.block = q.read.block /\ e.claimant = q.wallet BY <1>2 DEF Event, EventRecords
    <2> HIDE DEF e
    <2>5. <<e>> \in Seq(EventRecords) /\ Len(<<e>>) = 1 /\ EventInv(<<e>>, registry) BY <1>2, <2>4, LogFacts
    <2>. QED BY <1>1, <1>2, <1>4, <2>3, <2>5, CommitInv
  <1>. QED BY <1>3, <1>4 DEF MutateClaim

\* What a stale or a revoked claim logs.
LEMMA StaleFacts ==
  ASSUME NEW r \in Claims, NEW b \in Nat, NEW type \in {"stale", "revoked"}
  PROVE  /\ [r EXCEPT !.status = "stale", !.version = @ + 1] \in Claims
         /\ [r EXCEPT !.status = "stale", !.version = @ + 1].version = r.version + 1
         /\ <<Event(type, r.claimant, b)>> \in Seq(EventRecords) /\ Len(<<Event(type, r.claimant, b)>>) = 1
         /\ EventInv(<<Event(type, r.claimant, b)>>, registry)
  <1> DEFINE e == Event(type, r.claimant, b)
  <1>1. /\ [r EXCEPT !.status = "stale", !.version = @ + 1] \in Claims
        /\ [r EXCEPT !.status = "stale", !.version = @ + 1].version = r.version + 1
    <2>1. PICK v \in Nat : v = r.version + 1
      <3>1. r.version \in Nat BY DEF Claims
      <3>. QED BY <3>1
    <2>2. [r EXCEPT !.status = "stale", !.version = @ + 1] = [r EXCEPT !.status = "stale", !.version = v] BY <2>1 DEF Claims
    <2>3. [r EXCEPT !.status = "stale", !.version = v] \in Claims BY DEF Claims
    <2>4. [r EXCEPT !.status = "stale", !.version = v].version = v BY DEF Claims
    <2>. QED BY <2>1, <2>2, <2>3, <2>4
  <1>2. e \in EventRecords /\ e.type # "claimed" BY DEF Event, EventRecords, Claims
  <1> HIDE DEF e
  <1>3. <<e>> \in Seq(EventRecords) /\ Len(<<e>>) = 1 /\ EventInv(<<e>>, registry) BY <1>2, LogFacts
  <1>. QED BY <1>1, <1>3 DEF e

\* A call commits a row with the claim it found.
LEMMA PlainCommit ==
  ASSUME FreeIsNoCall, Inv, NEW c \in Calls, lock \in {c, "free"}, registry' = registry,
         NEW base \in Rows, base.claim.version = Len(events), Commit(c, base, <<>>)
  PROVE  Inv'
  <1>1. <<>> \in Seq(EventRecords) /\ Len(<<>>) = 0 /\ EventInv(<<>>, registry) BY DEF EventInv
  <1>2. Len(events) \in Nat BY DEF Inv, TypeInv
  <1>3. base.claim.version = Len(events) + Len(<<>>) BY <1>1, <1>2
  <1>. QED BY <1>1, <1>3, CommitInv

\* A call makes the claim r stale.
LEMMA CommitStale ==
  ASSUME FreeIsNoCall, Inv, NEW c \in Calls, lock \in {c, "free"}, registry' = registry,
         NEW base \in Rows, NEW r \in Claims, r.version = Len(events), NEW b \in Nat,
         NEW type \in {"stale", "revoked"},
         Commit(c, [base EXCEPT !.claim = [r EXCEPT !.status = "stale", !.version = @ + 1]],
                <<Event(type, r.claimant, b)>>)
  PROVE  Inv'
  <1> DEFINE stale == [r EXCEPT !.status = "stale", !.version = @ + 1]
             stored == [base EXCEPT !.claim = stale]
             log == <<Event(type, r.claimant, b)>>
  <1>1. Len(events) \in Nat BY DEF Inv, TypeInv
  <1>2. stale \in Claims /\ stale.version = Len(events) + 1 /\ log \in Seq(EventRecords) /\ Len(log) = 1
        /\ EventInv(log, registry)
    BY StaleFacts
  <1>3. Commit(c, stored, log) OBVIOUS
  <1> HIDE DEF stale, log
  <1>4. stored \in Rows /\ stored.claim.version = Len(events) + 1 BY <1>2 DEF Rows
  <1> HIDE DEF stored
  <1>5. stored.claim.version = Len(events) + Len(log) BY <1>2, <1>4
  <1>. QED BY <1>2, <1>3, <1>4, <1>5, CommitInv

LEMMA MutateStaleInv ==
  ASSUME FreeIsNoCall, Inv, NEW c \in Calls, MutateStale(c)
  PROVE  Inv'
  <1> DEFINE q == call[c]
             stale == [q.prior EXCEPT !.status = "stale", !.version = @ + 1]
             log == <<Event("stale", q.prior.claimant, q.read.block)>>
  <1>1. q.pc = "mutate" /\ q.kind = "revalidate" /\ registry' = registry BY DEF MutateStale
  <1>2. /\ q.prior \in Claims /\ q.mine \in Rows /\ q.read.block \in Nat /\ lock \in {c, "free"}
        /\ q.mine.claim.version = Len(events)
    BY <1>1, ExpectedFacts
  <1>3. CASE Throw(c, "CLAIM_CONFLICT") BY <1>1, <1>3, ThrowInv DEF Codes
  <1>4. CASE Commit(c, q.mine, <<>>) BY <1>1, <1>2, <1>4, PlainCommit
  <1>5. CASE ClaimUnchanged(q.prior, q.mine.claim) /\ Commit(c, [q.mine EXCEPT !.claim = stale], log)
    <2>1. q.prior.version = Len(events) BY <1>2, <1>5 DEF ClaimUnchanged
    <2>. QED BY <1>1, <1>2, <1>5, <2>1, CommitStale
  <1>. QED BY <1>3, <1>4, <1>5 DEF MutateStale

LEMMA MarkClaimStaleInv ==
  ASSUME FreeIsNoCall, Inv, NEW c \in Calls, MarkClaimStale(c)
  PROVE  Inv'
  <1> DEFINE q == call[c]
             stale == [q.mine.claim EXCEPT !.status = "stale", !.version = @ + 1]
             log == <<Event("stale", q.mine.claim.claimant, q.read.block)>>
  <1>1. q.pc = "mutate" /\ q.kind = "reconcile" /\ registry' = registry BY DEF MarkClaimStale
  <1>2. /\ q.mine \in Rows /\ q.mine.claim \in Claims /\ q.read.block \in Nat /\ lock \in {c, "free"}
        /\ q.mine.claim.version = Len(events)
    BY <1>1, ExpectedFacts
  <1>3. CASE Commit(c, q.mine, <<>>) BY <1>1, <1>2, <1>3, PlainCommit
  <1>4. CASE Commit(c, [q.mine EXCEPT !.claim = stale], log) BY <1>1, <1>2, <1>4, CommitStale
  <1>. QED BY <1>3, <1>4 DEF MarkClaimStale

LEMMA MutateRevokedInv ==
  ASSUME FreeIsNoCall, Inv, NEW c \in Calls, MutateRevoked(c)
  PROVE  Inv'
  <1> DEFINE q == call[c]
             stale == [q.prior EXCEPT !.status = "stale", !.version = @ + 1]
             log == <<Event("revoked", q.prior.claimant, row.read.block)>>
  <1>1. q.pc = "mutate" /\ registry' = registry /\ lock \in {c, "free"} BY DEF MutateRevoked
  <1>2. q.prior \in Claims /\ row \in Rows /\ row.read.block \in Nat /\ row.claim.version = Len(events)
    BY <1>1, ExpectedFacts
  <1>3. CASE Throw(c, "CLAIM_CONFLICT") BY <1>1, <1>3, ThrowInv DEF Codes
  <1>4. CASE Commit(c, row, <<>>) BY <1>1, <1>2, <1>4, PlainCommit
  <1>5. CASE ClaimUnchanged(q.prior, row.claim) /\ Commit(c, [row EXCEPT !.claim = stale], log)
    <2>1. q.prior.version = Len(events) BY <1>2, <1>5 DEF ClaimUnchanged
    <2>. QED BY <1>1, <1>2, <1>5, <2>1, CommitStale
  <1>. QED BY <1>3, <1>4, <1>5 DEF MutateRevoked

LEMMA InitInv ==
  ASSUME FreeIsNoCall, Init
  PROVE  Inv
  <1>1. PICK o \in Owners : registry = <<o>> BY DEF Init
  <1>2. /\ row = [read |-> NoRead, claim |-> Unclaimed] /\ events = <<>> /\ lock = "free"
        /\ call = [c \in Calls |-> Idle]
    BY DEF Init
  <1>3. row \in Rows /\ row.claim = Unclaimed BY <1>2 DEF Rows, Reads, Claims, NoRead, Unclaimed, Wallets
  <1>4. Idle \in CallRecords BY IdleFacts
  <1>5. Idle.pc = "idle" BY DEF Idle
  <1>6. TypeInv BY <1>1, <1>2, <1>3, <1>4 DEF TypeInv
  <1>7. \A c \in Calls : CallInv(call[c], c, registry, lock, row.claim.version)
    BY <1>2, <1>5 DEF CallInv, FreeIsNoCall
  <1>8. EventInv(events, registry) BY <1>2 DEF EventInv
  <1>9. VersionCountsEvents BY <1>2, <1>3 DEF VersionCountsEvents, Unclaimed
  <1>. QED BY <1>6, <1>7, <1>8, <1>9 DEF Inv

LEMMA NextInv ==
  ASSUME FreeIsNoCall, Inv, [Next]_vars
  PROVE  Inv'
  <1>1. CASE UNCHANGED vars
    BY <1>1 DEF vars, Inv, TypeInv, CallInv, EventInv, VersionCountsEvents
  <1>2. CASE Transfer BY <1>2, TransferInv
  <1>3. ASSUME NEW c \in Calls,
               (\E kind \in Kinds, wallet \in Owners : Start(c, kind, wallet))
               \/ Begin(c) \/ Reread(c) \/ SelectPrevious(c)
        PROVE  Inv'
    BY <1>3, ReadInv
  <1>4. ASSUME NEW c \in Calls,
               ApplyCanonicalState(c) \/ MutateClaim(c) \/ MutateStale(c) \/ MarkClaimStale(c) \/ MutateRevoked(c)
        PROVE  Inv'
    BY <1>4, ApplyInv, MutateClaimInv, MutateStaleInv, MarkClaimStaleInv, MutateRevokedInv
  <1>5. ASSUME NEW c \in Calls, Abort(c) PROVE Inv'
    <2>1. Throw(c, "aborted") /\ registry' = registry /\ "aborted" \in Codes BY <1>5 DEF Abort, Codes
    <2>. QED BY <2>1, ThrowInv
  <1>. QED BY <1>1, <1>2, <1>3, <1>4, <1>5 DEF Next

(* In every behaviour a claim event names a block at which the claimant
   owned the identity, and the version of the row counts the events
   (claims.ts claim, mutateClaim). *)
THEOREM ClaimsAreOwned ==
  ASSUME FreeIsNoCall
  PROVE  Spec => []ClaimedByOwner
  <1>1. Init => Inv BY InitInv
  <1>2. Inv /\ [Next]_vars => Inv' BY NextInv
  <1>3. Inv => ClaimedByOwner BY DEF Inv, EventInv, ClaimedByOwner, ClaimantOwned
  <1>. QED BY <1>1, <1>2, <1>3, PTL DEF Spec

-----------------------------------------------------------------------------
(* The registry sync. *)

SyncParameters ==
    /\ Threshold \in Nat /\ NetworkDepth \in Nat /\ MaxBlockRange \in Nat
    /\ FinalizedTag \in BOOLEAN
    /\ ~FinalizedTag => NetworkDepth <= Threshold
    /\ "none" \notin Identities

Log == Sync!Transfers \cup {Sync!NoLog}
Obs == [log : Log, hash : Seq(Log), state : {"provisional", "canonical", "orphaned"}]
SyncFields == {"pc", "head", "tip", "before", "at", "ancestor", "rewound", "from", "through", "obs",
               "owner", "affected", "finality", "scannedHash", "result"}
SyncPcs == {"idle", "cursor", "ancestor", "rewind", "window", "events", "finality", "promote", "commit"}

(* A chain c of which the first f blocks are final. *)
Net(c, f) == c \in Seq(Log) /\ f \in Nat /\ f <= Len(c)

(* The hash of a final block, and of a block that is or was in a chain. *)
FinalHash(h, c, f) == h \in Seq(Log) /\ Len(h) <= f /\ \A n \in 1..Len(h) : h[n] = c[n]
Known(h, c) == h \in Seq(Log) /\ Len(h) <= Len(c)

OwnedAt(id, owner, n, c) ==
    \/ owner = "none" /\ \A m \in 1..n : c[m].id # id
    \/ \E m \in 1..n : /\ c[m] = [id |-> id, to |-> owner]
                       /\ \A k \in (m + 1)..n : c[k].id # id

(* Every identity's rec shows an owner it had at block n or at a later final one. *)
OwnersOk(rows, n, c, f) ==
    \A i \in Identities : \E m \in n..f : OwnedAt(i, rows[i].owner, m, c)

ObsOk(s, c, f) ==
    \A o \in s : /\ o \in Obs
                 /\ o.state = "canonical" => FinalHash(o.hash, c, f)
                 /\ FinalizedTag => FinalHash(o.hash, c, f) /\ o.state # "orphaned"

AllCanonical(s) == \A o \in s : o.state = "canonical"

CheckpointOk(p, c, f) ==
    /\ p.indexer = Sync!Indexer
    /\ Known(p.scanned, c) /\ Known(p.finalized, c)
    /\ FinalizedTag => FinalHash(p.scanned, c, f) /\ p.finalized = p.scanned

RowsOk(d, c, f) ==
    /\ CheckpointOk(d.checkpoint, c, f)
    /\ ObsOk(d.obs, c, f)
    /\ DOMAIN d.owner = Identities
    /\ FinalizedTag => AllCanonical(d.obs) /\ OwnersOk(d.owner, Len(d.checkpoint.scanned), c, f)

(* What the run has read. *)
ReadOk(r, c, f) ==
    /\ CheckpointOk(r.before, c, f) /\ Known(r.at, c)
    /\ ObsOk(r.obs, c, f)
    /\ DOMAIN r.owner = Identities
    /\ FinalizedTag => r.at = r.before.scanned

HeadOk(r, c, f) ==
    /\ r.tip \in Nat /\ r.tip <= Len(c)
    /\ Known(r.head, c)
    /\ FinalizedTag => FinalHash(r.head, c, f)
    /\ ~FinalizedTag => r.tip <= f + Threshold

(* Nothing of the window was applied yet; with the tag the run's rows are those of the checkpoint. *)
Unscanned(r, c, f) ==
    FinalizedTag => AllCanonical(r.obs) /\ OwnersOk(r.owner, Len(r.before.scanned), c, f)

(* With the tag: an identity outside "affected" has no log in the window, *)
(* and what is still to be promoted is inside it.                         *)
Scanned(r, c, f) ==
    FinalizedTag =>
      /\ r.through <= f
      /\ r.through <= Len(r.head) \/ r.through = Len(r.at)
      /\ OwnersOk(r.owner, Len(r.before.scanned), c, f)
      /\ \A o \in r.obs : o.state = "provisional" =>
           o.log.id \in r.affected /\ Len(o.hash) <= r.through
      /\ \A i \in Identities : i \notin r.affected =>
           \A k \in (Len(r.before.scanned) + 1)..r.through : c[k].id # i

SyncRunOk(r, c, f) ==
    /\ DOMAIN r = SyncFields
    /\ r.pc \in SyncPcs
    /\ r.pc # "idle" => HeadOk(r, c, f)
    /\ r.pc \notin {"idle", "cursor"} => ReadOk(r, c, f)
    /\ r.pc \in {"ancestor", "rewind"} => ~FinalizedTag
    /\ r.pc = "rewind" => Known(r.ancestor, c)
    /\ r.pc \in {"window", "events"} => Unscanned(r, c, f)
    /\ r.pc \in {"events", "finality", "promote"} => r.through \in Nat /\ r.through <= Len(c)
    /\ r.pc = "events" => /\ r.from = Len(r.at) + 1
                          /\ FinalizedTag => r.through <= Len(r.head)
    /\ r.pc \in {"finality", "promote"} => Scanned(r, c, f)
    /\ r.pc = "promote" =>
         /\ Len(r.finality) <= f
         /\ FinalizedTag => Len(r.finality) = r.through /\ r.through <= Len(r.head)
                            /\ Len(r.scannedHash) = r.through
    /\ r.pc \in {"promote", "commit"} =>
         /\ Known(r.scannedHash, c) /\ Known(r.finality, c)
         /\ FinalizedTag => FinalHash(r.scannedHash, c, f) /\ r.finality = r.scannedHash
    /\ r.pc = "commit" => (FinalizedTag => AllCanonical(r.obs)
                            /\ OwnersOk(r.owner, Len(r.scannedHash), c, f))

(* The network: how deep a reorganisation reaches, and that every final *)
(* block gives every identity an owner.                                 *)
NetworkOk ==
    /\ Net(chain, final)
    /\ ~FinalizedTag => Len(chain) <= final + NetworkDepth
    /\ FinalizedTag => \A i \in Identities : \A n \in 0..final :
         \E o \in Owners \cup {"none"} : OwnedAt(i, o, n, chain)

SyncInv ==
    /\ NetworkOk
    /\ RowsOk(db, chain, final)
    /\ DOMAIN run = Workers
    /\ \A w \in Workers : SyncRunOk(run[w], chain, final)

(* c2, f2 is what c, f may become. *)
Grows(c, f, c2, f2) ==
    /\ Net(c, f) /\ Net(c2, f2)
    /\ f <= f2 /\ Len(c) <= Len(c2)
    /\ \A n \in 1..f : c2[n] = c[n]

LEMMA FinalStays ==
    ASSUME NEW c, NEW f, NEW c2, NEW f2, Grows(c, f, c2, f2), NEW h, FinalHash(h, c, f)
    PROVE  FinalHash(h, c2, f2)
<1>1. Len(h) \in Nat /\ f \in Nat /\ f2 \in Nat BY DEF FinalHash, Grows, Net
<1>2. ASSUME NEW n \in 1..Len(h) PROVE h[n] = c2[n]
  BY <1>1 DEF FinalHash, Grows
<1> QED BY <1>1, <1>2 DEF FinalHash, Grows

LEMMA KnownStays ==
    ASSUME NEW c, NEW f, NEW c2, NEW f2, Grows(c, f, c2, f2), NEW h, Known(h, c)
    PROVE  Known(h, c2)
<1>1. Len(h) \in Nat /\ Len(c) \in Nat /\ Len(c2) \in Nat BY DEF Known, Grows, Net
<1> QED BY <1>1 DEF Known, Grows

LEMMA OwnerStays ==
    ASSUME NEW c, NEW f, NEW c2, NEW f2, Grows(c, f, c2, f2), NEW id, NEW owner,
           NEW n \in Int, n <= f, OwnedAt(id, owner, n, c)
    PROVE  OwnedAt(id, owner, n, c2)
<1>1. \A m \in 1..n : c2[m] = c[m] BY DEF Grows, Net
<1>2. CASE owner = "none" /\ \A m \in 1..n : c[m].id # id BY <1>1, <1>2 DEF OwnedAt
<1>3. CASE \E m \in 1..n : c[m] = [id |-> id, to |-> owner] /\ \A k \in (m + 1)..n : c[k].id # id
  <2>1. PICK m \in 1..n : c[m] = [id |-> id, to |-> owner] /\ \A k \in (m + 1)..n : c[k].id # id
    BY <1>3
  <2>2. \A k \in (m + 1)..n : k \in 1..n OBVIOUS
  <2> QED BY <1>1, <2>1, <2>2 DEF OwnedAt
<1> QED BY <1>2, <1>3 DEF OwnedAt

LEMMA OwnersStay ==
    ASSUME NEW c, NEW f, NEW c2, NEW f2, Grows(c, f, c2, f2), NEW rows, NEW n, OwnersOk(rows, n, c, f)
    PROVE  OwnersOk(rows, n, c2, f2)
<1> SUFFICES ASSUME NEW i \in Identities PROVE \E m \in n..f2 : OwnedAt(i, rows[i].owner, m, c2)
  BY DEF OwnersOk
<1>1. PICK m \in n..f : OwnedAt(i, rows[i].owner, m, c) BY DEF OwnersOk
<1>2. m \in Int /\ m <= f OBVIOUS
<1>3. OwnedAt(i, rows[i].owner, m, c2) BY <1>1, <1>2, OwnerStays
<1>4. m \in n..f2 BY <1>2 DEF Grows, Net
<1> QED BY <1>3, <1>4

LEMMA ObsStay ==
    ASSUME NEW c, NEW f, NEW c2, NEW f2, Grows(c, f, c2, f2), NEW s, ObsOk(s, c, f)
    PROVE  ObsOk(s, c2, f2)
BY FinalStays DEF ObsOk

LEMMA CheckpointStays ==
    ASSUME NEW c, NEW f, NEW c2, NEW f2, Grows(c, f, c2, f2), NEW p, CheckpointOk(p, c, f)
    PROVE  CheckpointOk(p, c2, f2)
<1>1. Known(p.scanned, c2) /\ Known(p.finalized, c2) BY KnownStays DEF CheckpointOk
<1>2. FinalizedTag => FinalHash(p.scanned, c2, f2) BY FinalStays DEF CheckpointOk
<1> QED BY <1>1, <1>2 DEF CheckpointOk

LEMMA RowsStay ==
    ASSUME NEW c, NEW f, NEW c2, NEW f2, Grows(c, f, c2, f2), NEW d, RowsOk(d, c, f)
    PROVE  RowsOk(d, c2, f2)
<1>1. CheckpointOk(d.checkpoint, c2, f2) BY CheckpointStays DEF RowsOk
<1>2. ObsOk(d.obs, c2, f2) BY ObsStay DEF RowsOk
<1>3. FinalizedTag => OwnersOk(d.owner, Len(d.checkpoint.scanned), c2, f2) BY OwnersStay DEF RowsOk
<1> QED BY <1>1, <1>2, <1>3 DEF RowsOk

LEMMA RunStays ==
    ASSUME SyncParameters,
           NEW c, NEW f, NEW c2, NEW f2, Grows(c, f, c2, f2), NEW r, SyncRunOk(r, c, f)
    PROVE  SyncRunOk(r, c2, f2)
<1>1. DOMAIN r = SyncFields /\ r.pc \in SyncPcs BY DEF SyncRunOk
<1>2. ASSUME r.pc # "idle" PROVE HeadOk(r, c2, f2)
  <2>1. HeadOk(r, c, f) BY <1>2 DEF SyncRunOk
  <2>2. Known(r.head, c2) BY <2>1, KnownStays DEF HeadOk
  <2>3. FinalizedTag => FinalHash(r.head, c2, f2) BY <2>1, FinalStays DEF HeadOk
  <2>4. Len(c) \in Nat /\ Len(c2) \in Nat BY DEF Grows, Net
  <2>5. r.tip \in Nat /\ r.tip <= Len(c2) BY <2>1, <2>4 DEF HeadOk, Grows
  <2>6. ~FinalizedTag => r.tip <= f2 + Threshold BY <2>1 DEF HeadOk, Grows, Net, SyncParameters
  <2> QED BY <2>2, <2>3, <2>5, <2>6 DEF HeadOk
<1>3. ASSUME r.pc \notin {"idle", "cursor"} PROVE ReadOk(r, c2, f2)
  <2>1. ReadOk(r, c, f) BY <1>3 DEF SyncRunOk
  <2>2. CheckpointOk(r.before, c2, f2) BY <2>1, CheckpointStays DEF ReadOk
  <2>3. Known(r.at, c2) BY <2>1, KnownStays DEF ReadOk
  <2>4. ObsOk(r.obs, c2, f2) BY <2>1, ObsStay DEF ReadOk
  <2> QED BY <2>1, <2>2, <2>3, <2>4 DEF ReadOk
<1>4. ASSUME r.pc = "rewind" PROVE Known(r.ancestor, c2)
  BY <1>4, KnownStays DEF SyncRunOk
<1>5. ASSUME r.pc \in {"window", "events"} PROVE Unscanned(r, c2, f2)
  <2>1. Unscanned(r, c, f) BY <1>5 DEF SyncRunOk
  <2> QED BY <2>1, OwnersStay DEF Unscanned
<1>6. ASSUME r.pc \in {"events", "finality", "promote"} PROVE r.through \in Nat /\ r.through <= Len(c2)
  <2>1. r.through \in Nat /\ r.through <= Len(c) BY <1>6 DEF SyncRunOk
  <2>2. Len(c) \in Nat /\ Len(c2) \in Nat BY DEF Grows, Net
  <2> QED BY <2>1, <2>2 DEF Grows
<1>7. ASSUME r.pc = "events" PROVE r.from = Len(r.at) + 1 /\ (FinalizedTag => r.through <= Len(r.head))
  BY <1>7 DEF SyncRunOk
<1>8. ASSUME r.pc \in {"finality", "promote"} PROVE Scanned(r, c2, f2)
  <2>1. Scanned(r, c, f) /\ r.through \in Nat /\ ReadOk(r, c, f) BY <1>8 DEF SyncRunOk
  <2>2. OwnersOk(r.owner, Len(r.before.scanned), c, f) => OwnersOk(r.owner, Len(r.before.scanned), c2, f2)
    BY OwnersStay
  <2>3. FinalizedTag => r.through <= f2 BY <2>1 DEF Scanned, Grows, Net
  <2>4. ASSUME FinalizedTag, NEW i \in Identities, i \notin r.affected,
               NEW k \in (Len(r.before.scanned) + 1)..r.through
        PROVE  c2[k].id # i
    <3>1. c[k].id # i /\ r.through <= f BY <2>1, <2>4 DEF Scanned
    <3>2. r.before.scanned \in Seq(Log) BY <2>1 DEF ReadOk, CheckpointOk, Known
    <3>3. Len(r.before.scanned) \in Nat BY <3>2
    <3>4. k \in 1..f BY <2>1, <3>1, <3>3 DEF Grows, Net
    <3> QED BY <3>1, <3>4 DEF Grows
  <2> QED BY <2>1, <2>2, <2>3, <2>4 DEF Scanned
<1>9. ASSUME r.pc = "promote"
      PROVE  /\ Len(r.finality) <= f2
             /\ FinalizedTag => Len(r.finality) = r.through /\ r.through <= Len(r.head)
                                /\ Len(r.scannedHash) = r.through
  <2>1. Known(r.finality, c) /\ Len(r.finality) <= f BY <1>9 DEF SyncRunOk
  <2>2. Len(r.finality) \in Nat BY <2>1 DEF Known
  <2>3. Len(r.finality) <= f2 BY <2>1, <2>2 DEF Grows, Net
  <2> QED BY <1>9, <2>3 DEF SyncRunOk
<1>10. ASSUME r.pc \in {"promote", "commit"}
       PROVE  /\ Known(r.scannedHash, c2) /\ Known(r.finality, c2)
              /\ FinalizedTag => FinalHash(r.scannedHash, c2, f2) /\ r.finality = r.scannedHash
  <2>1. /\ Known(r.scannedHash, c) /\ Known(r.finality, c)
        /\ FinalizedTag => FinalHash(r.scannedHash, c, f) /\ r.finality = r.scannedHash
    BY <1>10 DEF SyncRunOk
  <2> QED BY <2>1, KnownStays, FinalStays
<1>11. ASSUME r.pc = "commit", FinalizedTag
       PROVE  AllCanonical(r.obs) /\ OwnersOk(r.owner, Len(r.scannedHash), c2, f2)
  BY <1>11, OwnersStay DEF SyncRunOk
<1>12. r.pc \in {"ancestor", "rewind"} => ~FinalizedTag BY DEF SyncRunOk
<1> QED
  BY <1>1, <1>2, <1>3, <1>4, <1>5, <1>6, <1>7, <1>8, <1>9, <1>10, <1>11, <1>12 DEF SyncRunOk

(* The hash of the n-th block. *)
LEMMA HashIs ==
    ASSUME NetworkOk, NEW n \in Nat, n <= Len(chain)
    PROVE  /\ Sync!Hash(n) \in Seq(Log) /\ Len(Sync!Hash(n)) = n
           /\ \A k \in 1..n : Sync!Hash(n)[k] = chain[k]
           /\ Known(Sync!Hash(n), chain)
           /\ n <= final => FinalHash(Sync!Hash(n), chain, final)
<1>1. chain \in Seq(Log) /\ Len(chain) \in Nat BY DEF NetworkOk, Net
<1>2. Sync!Hash(n) \in Seq(Log) /\ Len(Sync!Hash(n)) = n /\ \A k \in 1..n : Sync!Hash(n)[k] = chain[k]
  BY <1>1 DEF Sync!Hash
<1> QED BY <1>1, <1>2 DEF Known, FinalHash

(* A final hash is that of its block. *)
LEMMA FinalIsCurrent ==
    ASSUME NetworkOk, NEW h, FinalHash(h, chain, final)
    PROVE  Len(h) <= final /\ Sync!Hash(Len(h)) = h /\ SubSeq(chain, 1, Len(h)) = h
<1>1. h \in Seq(Log) /\ Len(h) \in Nat /\ Len(h) <= Len(chain) /\ chain \in Seq(Log)
  BY DEF NetworkOk, Net, FinalHash
<1>2. SubSeq(chain, 1, Len(h)) \in Seq(Log) /\ Len(SubSeq(chain, 1, Len(h))) = Len(h)
      /\ \A k \in 1..Len(h) : SubSeq(chain, 1, Len(h))[k] = h[k]
  BY <1>1 DEF FinalHash
<1>3. SubSeq(chain, 1, Len(h)) = h
  <2>1. DOMAIN SubSeq(chain, 1, Len(h)) = 1..Len(h) /\ DOMAIN h = 1..Len(h) BY <1>1, <1>2
  <2> QED BY <1>1, <1>2, <2>1
<1> QED BY <1>3 DEF Sync!Hash, FinalHash

(* getOwner at a block reads the owner of the last transfer up to it. *)
LEMMA OwnerRead ==
    ASSUME NEW h, FinalHash(h, chain, final), NetworkOk, FinalizedTag, NEW i \in Identities
    PROVE  OwnedAt(i, Sync!OwnerAt(i, h), Len(h), chain)
<1>1. h \in Seq(Log) /\ Len(h) \in 0..final /\ DOMAIN h = 1..Len(h)
  BY DEF FinalHash, NetworkOk, Net
<1>2. PICK o : OwnedAt(i, o, Len(h), chain) BY <1>1 DEF NetworkOk
<1> DEFINE T == {n \in DOMAIN h : h[n].id = i}
<1>3. \A n \in 1..Len(h) : h[n] = chain[n] BY DEF FinalHash
<1>4. CASE T = {}
  <2>1. Sync!OwnerAt(i, h) = "none" BY <1>4 DEF Sync!OwnerAt
  <2>2. \A m \in 1..Len(h) : chain[m].id # i BY <1>1, <1>3, <1>4
  <2> QED BY <2>1, <2>2 DEF OwnedAt
<1>5. CASE T # {}
  <2>1. PICK t \in 1..Len(h) : chain[t].id = i BY <1>1, <1>3, <1>5
  <2>2. PICK m \in 1..Len(h) : chain[m] = [id |-> i, to |-> o]
                                 /\ \A k \in (m + 1)..Len(h) : chain[k].id # i
    BY <1>2, <2>1 DEF OwnedAt
  <2>3. m \in T BY <1>1, <1>3, <2>2
  <2>4. \A k \in T : k <= m
    <3> SUFFICES ASSUME NEW k \in T, k > m PROVE FALSE BY <1>1, <2>2
    <3>1. k \in (m + 1)..Len(h) BY <1>1
    <3> QED BY <1>1, <1>3, <2>2, <3>1
  <2>5. Sync!Max(T) = m
    <3>1. Sync!Max(T) \in T /\ \A y \in T : Sync!Max(T) >= y
      BY <2>3, <2>4, <1>1 DEF Sync!Max
    <3>2. Sync!Max(T) >= m /\ Sync!Max(T) <= m BY <2>3, <2>4, <3>1
    <3> QED BY <1>1, <3>1, <3>2
  <2>6. Sync!OwnerAt(i, h) = h[m].to BY <1>5, <2>5 DEF Sync!OwnerAt
  <2>7. Sync!OwnerAt(i, h) = o BY <1>3, <2>2, <2>6
  <2> QED BY <1>2, <2>7
<1> QED BY <1>4, <1>5

LEMMA OwnedIsOwner ==
    ASSUME NEW i, NEW o, NEW n PROVE OwnedAt(i, o, n, chain) <=> IsOwner(i, o, n)
BY DEF OwnedAt, IsOwner

LEMMA SyncInitially == ASSUME SyncParameters PROVE Sync!Init => SyncInv
<1> SUFFICES ASSUME Sync!Init PROVE SyncInv OBVIOUS
<1>1. chain = <<>> /\ final = 0 /\ run = [w \in Workers |-> Sync!Idle]
      /\ db = [checkpoint |-> Sync!NoCheckpoint, obs |-> {},
               owner |-> [i \in Identities |-> Sync!Row("none", <<>>)]]
  BY DEF Sync!Init
<1>2. NetworkOk
  <2>1. \A i \in Identities : OwnedAt(i, "none", 0, chain) BY <1>1 DEF OwnedAt
  <2>2. \A n \in 0..final : n = 0 BY <1>1
  <2>3. Net(chain, final) BY <1>1 DEF Net
  <2>4. Len(chain) <= final + NetworkDepth BY <1>1 DEF SyncParameters
  <2> QED BY <2>1, <2>2, <2>3, <2>4 DEF NetworkOk
<1>3. RowsOk(db, chain, final)
  <2>1. FinalHash(<<>>, chain, final) /\ Known(<<>>, chain) BY <1>1 DEF FinalHash, Known
  <2>2. CheckpointOk(db.checkpoint, chain, final) BY <1>1, <2>1 DEF CheckpointOk, Sync!NoCheckpoint
  <2>3. \A i \in Identities : OwnedAt(i, db.owner[i].owner, 0, chain)
    BY <1>1 DEF OwnedAt, Sync!Row
  <2>4. 0 \in 0..final BY <1>1
  <2>5. Len(db.checkpoint.scanned) = 0 BY <1>1 DEF Sync!NoCheckpoint
  <2>6. OwnersOk(db.owner, Len(db.checkpoint.scanned), chain, final) BY <2>3, <2>4, <2>5 DEF OwnersOk
  <2> QED BY <1>1, <2>2, <2>6 DEF RowsOk, ObsOk, AllCanonical
<1>4. SyncRunOk(Sync!Idle, chain, final) BY DEF SyncRunOk, Sync!Idle, SyncFields, SyncPcs
<1> QED BY <1>1, <1>2, <1>3, <1>4 DEF SyncInv

(* The network moves on: every run keeps what it holds. *)
LEMMA NetworkMoves ==
    ASSUME SyncParameters, SyncInv, Grows(chain, final, chain', final'), NetworkOk', UNCHANGED <<db, run>>
    PROVE  SyncInv'
<1>1. RowsOk(db', chain', final') BY RowsStay DEF SyncInv
<1>2. \A w \in Workers : SyncRunOk(run'[w], chain', final') BY RunStays DEF SyncInv
<1> QED BY <1>1, <1>2 DEF SyncInv

LEMMA OwnersOfFinal ==
    ASSUME NetworkOk, FinalizedTag, Grows(chain, final, chain', final'), final' = final
    PROVE  \A i \in Identities : \A n \in 0..final' :
             \E o \in Owners \cup {"none"} : OwnedAt(i, o, n, chain')
<1> SUFFICES ASSUME NEW i \in Identities, NEW n \in 0..final
             PROVE \E o \in Owners \cup {"none"} : OwnedAt(i, o, n, chain')
  OBVIOUS
<1>1. PICK o \in Owners \cup {"none"} : OwnedAt(i, o, n, chain) BY DEF NetworkOk
<1>2. n \in Int /\ n <= final BY DEF Grows, Net
<1> QED BY <1>1, <1>2, OwnerStays

LEMMA SyncMine == ASSUME SyncParameters, SyncInv, Sync!Mine PROVE SyncInv'
<1>1. PICK log \in Log : chain' = Append(chain, log)
  BY DEF Sync!Mine, Sync!Extensions, Log
<1>2. /\ chain \in Seq(Log) /\ final \in Nat /\ final <= Len(chain) /\ Len(chain) \in Nat
      /\ ~FinalizedTag => Len(chain) <= final + NetworkDepth
  BY DEF SyncInv, NetworkOk, Net
<1>3. /\ chain' \in Seq(Log) /\ Len(chain') = Len(chain) + 1
      /\ \A n \in 1..Len(chain) : chain'[n] = chain[n]
  BY <1>1, <1>2
<1>4. final' = IF FinalizedTag \/ Len(chain') <= final + NetworkDepth
               THEN final ELSE Len(chain') - NetworkDepth
  BY DEF Sync!Mine, Sync!Settled
<1>5. final' \in Nat /\ final <= final' /\ final' <= Len(chain')
      /\ (~FinalizedTag => Len(chain') <= final' + NetworkDepth)
  BY <1>2, <1>3, <1>4 DEF SyncParameters
<1>6. Grows(chain, final, chain', final')
  BY <1>2, <1>3, <1>5 DEF Grows, Net
<1>7. FinalizedTag => final' = final BY <1>4
<1>8. NetworkOk'
  <2>1. FinalizedTag => \A i \in Identities : \A n \in 0..final' :
          \E o \in Owners \cup {"none"} : OwnedAt(i, o, n, chain')
    BY <1>6, <1>7, OwnersOfFinal DEF SyncInv
  <2> QED BY <1>3, <1>5, <2>1 DEF NetworkOk, Net
<1>9. UNCHANGED <<db, run>> BY DEF Sync!Mine
<1> QED BY <1>6, <1>8, <1>9, NetworkMoves

LEMMA SyncFinalize == ASSUME SyncParameters, SyncInv, Sync!Finalize PROVE SyncInv'
<1>1. final' = final + 1 /\ chain' = chain /\ FinalizedTag /\ final < Len(chain) /\ UNCHANGED <<db, run>>
  BY DEF Sync!Finalize
<1>2. chain \in Seq(Log) /\ final \in Nat /\ Len(chain) \in Nat BY DEF SyncInv, NetworkOk, Net
<1>3. Grows(chain, final, chain', final') BY <1>1, <1>2 DEF Grows, Net
<1>4. ASSUME NEW i \in Identities, NEW n \in 0..final'
      PROVE  \E o \in Owners \cup {"none"} : OwnedAt(i, o, n, chain)
  <2>1. CASE n \in 0..final BY <1>1, <2>1 DEF SyncInv, NetworkOk
  <2>2. CASE n = final + 1
    <3>1. PICK o \in Owners \cup {"none"} : OwnedAt(i, o, final, chain)
      BY <1>1, <1>2 DEF SyncInv, NetworkOk
    <3>2. n \in 1..Len(chain) /\ chain[n] \in Log BY <1>1, <1>2, <2>2
    <3>3. CASE chain[n].id = i
      <4>1. chain[n] \in Sync!Transfers BY <3>2, <3>3 DEF Log, Sync!NoLog, SyncParameters
      <4>2. PICK t \in Owners : chain[n] = [id |-> i, to |-> t] BY <3>3, <4>1 DEF Sync!Transfers
      <4>3. \A k \in (n + 1)..n : FALSE BY <3>2
      <4>4. n \in 1..n BY <3>2
      <4> QED BY <4>2, <4>3, <4>4 DEF OwnedAt
    <3>4. CASE chain[n].id # i
      <4>1. CASE o = "none" /\ \A m \in 1..final : chain[m].id # i
        <5>1. \A m \in 1..n : m \in 1..final \/ m = n BY <1>2, <2>2
        <5>2. \A m \in 1..n : chain[m].id # i BY <3>4, <4>1, <5>1
        <5> QED BY <4>1, <5>2 DEF OwnedAt
      <4>2. CASE \E m \in 1..final : /\ chain[m] = [id |-> i, to |-> o]
                                     /\ \A k \in (m + 1)..final : chain[k].id # i
        <5>1. PICK m \in 1..final : /\ chain[m] = [id |-> i, to |-> o]
                                    /\ \A k \in (m + 1)..final : chain[k].id # i
          BY <4>2
        <5>2. m \in 1..n BY <1>2, <2>2
        <5>3. \A k \in (m + 1)..n : k \in (m + 1)..final \/ k = n BY <1>2, <2>2
        <5>4. \A k \in (m + 1)..n : chain[k].id # i BY <3>4, <5>1, <5>3
        <5> QED BY <5>1, <5>2, <5>4 DEF OwnedAt
      <4> QED BY <3>1, <4>1, <4>2 DEF OwnedAt
    <3> QED BY <3>3, <3>4
  <2> QED BY <1>1, <1>2, <2>1, <2>2
<1>5. NetworkOk' BY <1>1, <1>3, <1>4 DEF NetworkOk, Grows
<1> QED BY <1>1, <1>3, <1>5, NetworkMoves

LEMMA SyncReorg == ASSUME SyncParameters, SyncInv, Sync!Reorg PROVE SyncInv'
<1>1. /\ chain \in Seq(Log) /\ final \in Nat /\ final <= Len(chain) /\ Len(chain) \in Nat
      /\ ~FinalizedTag => Len(chain) <= final + NetworkDepth
  BY DEF SyncInv, NetworkOk, Net
<1>2. PICK keep \in final..(Len(chain) - 1) :
        \E suffix \in [1..(Len(chain) - keep) -> Sync!Transfers \cup {Sync!NoLog}] :
          chain' = SubSeq(chain, 1, keep) \o suffix
  BY DEF Sync!Reorg
<1>3. PICK suffix \in [1..(Len(chain) - keep) -> Log] : chain' = SubSeq(chain, 1, keep) \o suffix
  BY <1>2 DEF Log
<1>4. keep \in Nat /\ keep < Len(chain) /\ final <= keep BY <1>1
<1>5. suffix \in Seq(Log) /\ Len(suffix) = Len(chain) - keep
  <2>0. Len(chain) - keep \in Nat BY <1>1, <1>4
  <2>1. PICK k \in Nat : k = Len(chain) - keep BY <2>0
  <2>2. suffix \in [1..k -> Log] BY <2>1
  <2>3. suffix \in Seq(Log) /\ Len(suffix) = k BY <2>2
  <2> QED BY <2>1, <2>3
<1>6. PICK before \in Seq(Log) : before = SubSeq(chain, 1, keep)
  <2>1. SubSeq(chain, 1, keep) \in Seq(Log) BY <1>1, <1>4
  <2> QED BY <2>1
<1>7. Len(before) = keep /\ \A n \in 1..keep : before[n] = chain[n] BY <1>1, <1>4, <1>6
<1>8. /\ chain' \in Seq(Log) /\ Len(chain') = Len(chain)
      /\ \A n \in 1..keep : chain'[n] = chain[n]
  <2>1. chain' = before \o suffix BY <1>3, <1>6
  <2>2. chain' \in Seq(Log) /\ Len(chain') = Len(before) + Len(suffix) 
    <3>1. before \in Seq(Log) /\ suffix \in Seq(Log) BY <1>5
    <3> QED BY <2>1, <3>1
  <2>3. \A n \in 1..keep : chain'[n] = before[n] BY <1>4, <1>5, <1>7, <2>1
  <2> QED BY <1>1, <1>4, <1>5, <1>7, <2>2, <2>3
<1>9. UNCHANGED <<final, db, run>> BY DEF Sync!Reorg
<1>10. \A n \in 1..final : chain'[n] = chain[n] BY <1>1, <1>4, <1>8
<1>11. Grows(chain, final, chain', final') BY <1>1, <1>8, <1>9, <1>10 DEF Grows, Net
<1>12. NetworkOk'
  <2>1. FinalizedTag => \A i \in Identities : \A n \in 0..final' :
          \E o \in Owners \cup {"none"} : OwnedAt(i, o, n, chain')
    BY <1>9, <1>11, OwnersOfFinal DEF SyncInv
  <2> QED BY <1>1, <1>8, <1>9, <2>1 DEF NetworkOk, Net
<1> QED BY <1>9, <1>11, <1>12, NetworkMoves

(* The shape of nearly every step of a run: one record changes. *)
LEMMA SyncRunMoves ==
    ASSUME SyncInv, NEW w \in Workers, NEW n, run' = [run EXCEPT ![w] = n],
           SyncRunOk(n, chain, final), UNCHANGED <<chain, final, db>>
    PROVE  SyncInv'
<1>1. DOMAIN run = Workers /\ NetworkOk /\ RowsOk(db, chain, final) BY DEF SyncInv
<1>2. DOMAIN run' = Workers BY <1>1
<1>3. NetworkOk' BY <1>1 DEF NetworkOk, Net
<1>4. RowsOk(db', chain', final') BY <1>1
<1>5. ASSUME NEW y \in Workers PROVE SyncRunOk(run'[y], chain', final')
  <2>1. CASE y = w BY <2>1, <1>1
  <2>2. CASE y # w BY <2>2, <1>1 DEF SyncInv
  <2> QED BY <2>1, <2>2
<1> QED BY <1>2, <1>3, <1>4, <1>5 DEF SyncInv

LEMMA EndedRun ==
    ASSUME NEW code, NEW n, n = [Sync!Idle EXCEPT !.result = code]
    PROVE  SyncRunOk(n, chain, final)
<1>1. DOMAIN n = SyncFields /\ n.pc = "idle" BY DEF Sync!Idle, SyncFields
<1> QED BY <1>1 DEF SyncRunOk, SyncPcs

LEMMA SyncEnds ==
    ASSUME SyncInv, NEW w \in Workers, NEW code, Sync!End(w, code), UNCHANGED <<chain, final, db>>
    PROVE  SyncInv'
<1>1. PICK n : n = [Sync!Idle EXCEPT !.result = code] OBVIOUS
<1>2. SyncRunOk(n, chain, final) BY <1>1, EndedRun
<1>3. run' = [run EXCEPT ![w] = n] BY <1>1 DEF Sync!End
<1> QED BY <1>2, <1>3, SyncRunMoves

LEMMA SyncReadHead ==
    ASSUME SyncParameters, SyncInv, NEW w \in Workers, Sync!ReadHead(w) PROVE SyncInv'
<1>1. PICK head : head = IF FinalizedTag THEN Sync!Hash(final) ELSE <<>> OBVIOUS
<1>2. PICK n : n = [Sync!Idle EXCEPT !.pc = "cursor", !.tip = Len(chain), !.head = head] OBVIOUS
<1>3. run' = [run EXCEPT ![w] = n] /\ UNCHANGED <<chain, final, db>>
  BY <1>1, <1>2 DEF Sync!ReadHead
<1>4. DOMAIN n = SyncFields /\ n.pc = "cursor" /\ n.tip = Len(chain) /\ n.head = head
  BY <1>2 DEF Sync!Idle, SyncFields
<1>5. NetworkOk /\ final \in Nat /\ final <= Len(chain) /\ Len(chain) \in Nat
      /\ (~FinalizedTag => Len(chain) <= final + NetworkDepth)
  BY DEF SyncInv, NetworkOk, Net
<1>6. Known(Sync!Hash(final), chain) /\ FinalHash(Sync!Hash(final), chain, final) BY <1>5, HashIs
<1>7. Known(<<>>, chain) BY <1>5 DEF Known
<1>8. HeadOk(n, chain, final)
  <2>1. Known(n.head, chain) /\ (FinalizedTag => FinalHash(n.head, chain, final))
    BY <1>1, <1>4, <1>6, <1>7
  <2>2. n.tip \in Nat /\ n.tip <= Len(chain) BY <1>4, <1>5
  <2>3. ~FinalizedTag => n.tip <= final + Threshold BY <1>4, <1>5 DEF SyncParameters
  <2> QED BY <2>1, <2>2, <2>3 DEF HeadOk
<1>9. SyncRunOk(n, chain, final) BY <1>4, <1>8 DEF SyncRunOk, SyncPcs
<1> QED BY <1>3, <1>9, SyncRunMoves

LEMMA SyncReadCheckpoint ==
    ASSUME SyncParameters, SyncInv, NEW w \in Workers, Sync!ReadCheckpoint(w) PROVE SyncInv'
<1>1. PICK o : o = run[w] OBVIOUS
<1>2. SyncRunOk(o, chain, final) /\ o.pc = "cursor" /\ DOMAIN run = Workers
  BY <1>1 DEF SyncInv, Sync!ReadCheckpoint
<1>3. PICK pc : pc = IF Len(db.checkpoint.scanned) > 0
                        /\ Sync!Hash(Len(db.checkpoint.scanned)) # db.checkpoint.scanned
                     THEN "ancestor" ELSE "window" OBVIOUS
<1>4. PICK n : n = [o EXCEPT !.pc = pc, !.before = db.checkpoint, !.at = db.checkpoint.scanned,
                             !.obs = db.obs, !.owner = db.owner] OBVIOUS
<1>5. run' = [run EXCEPT ![w] = n]
  BY <1>1, <1>2, <1>3, <1>4 DEF Sync!ReadCheckpoint
<1>6. UNCHANGED <<chain, final, db>> BY DEF Sync!ReadCheckpoint
<1>7. DOMAIN o = SyncFields /\ HeadOk(o, chain, final) BY <1>2 DEF SyncRunOk
<1>8. /\ DOMAIN n = SyncFields /\ n.pc = pc /\ n.before = db.checkpoint /\ n.at = db.checkpoint.scanned
      /\ n.obs = db.obs /\ n.owner = db.owner /\ n.tip = o.tip /\ n.head = o.head
  BY <1>4, <1>7 DEF SyncFields
<1>9. RowsOk(db, chain, final) /\ NetworkOk BY DEF SyncInv
<1>10. HeadOk(n, chain, final) BY <1>7, <1>8 DEF HeadOk
<1>11. ReadOk(n, chain, final) BY <1>8, <1>9 DEF ReadOk, RowsOk, CheckpointOk
<1>12. Unscanned(n, chain, final) BY <1>8, <1>9 DEF Unscanned, RowsOk
<1>13. ASSUME FinalizedTag PROVE pc = "window"
  <2>1. FinalHash(db.checkpoint.scanned, chain, final) BY <1>9, <1>13 DEF RowsOk, CheckpointOk
  <2> QED BY <1>3, <1>9, <2>1, FinalIsCurrent
<1>14. pc \in {"ancestor", "window"} BY <1>3
<1>15. SyncRunOk(n, chain, final)
  BY <1>8, <1>10, <1>11, <1>12, <1>13, <1>14 DEF SyncRunOk, SyncPcs
<1> QED BY <1>5, <1>6, <1>15, SyncRunMoves

LEMMA SyncFindAncestor ==
    ASSUME SyncParameters, SyncInv, NEW w \in Workers, Sync!FindAncestor(w) PROVE SyncInv'
<1>1. PICK o : o = run[w] OBVIOUS
<1>2. SyncRunOk(o, chain, final) /\ o.pc = "ancestor" /\ DOMAIN run = Workers
  BY <1>1 DEF SyncInv, Sync!FindAncestor
<1>3. UNCHANGED <<chain, final, db>> BY DEF Sync!FindAncestor
<1>4. PICK m \in 0..Len(o.before.scanned) :
        IF Sync!AncestorAccepted(o.before, m)
        THEN run' = [run EXCEPT ![w].pc = "rewind", ![w].ancestor = SubSeq(o.before.scanned, 1, m)]
        ELSE Sync!End(w, "REORG_RECONCILIATION_REQUIRED")
  BY <1>1 DEF Sync!FindAncestor
<1>5. CASE Sync!End(w, "REORG_RECONCILIATION_REQUIRED") BY <1>3, <1>5, SyncEnds
<1>6. CASE run' = [run EXCEPT ![w].pc = "rewind", ![w].ancestor = SubSeq(o.before.scanned, 1, m)]
  <2>1. PICK n : n = [o EXCEPT !.pc = "rewind", !.ancestor = SubSeq(o.before.scanned, 1, m)] OBVIOUS
  <2>2. run' = [run EXCEPT ![w] = n] BY <1>1, <1>2, <1>6, <2>1
  <2>3. /\ DOMAIN o = SyncFields /\ HeadOk(o, chain, final) /\ ReadOk(o, chain, final)
        /\ ~FinalizedTag
    BY <1>2 DEF SyncRunOk
  <2>4. /\ DOMAIN n = SyncFields /\ n.pc = "rewind" /\ n.before = o.before /\ n.at = o.at
        /\ n.obs = o.obs /\ n.owner = o.owner /\ n.tip = o.tip /\ n.head = o.head
        /\ n.ancestor = SubSeq(o.before.scanned, 1, m)
    BY <2>1, <2>3 DEF SyncFields
  <2>5. Known(o.before.scanned, chain) BY <2>3 DEF ReadOk, CheckpointOk
  <2>6. Known(SubSeq(o.before.scanned, 1, m), chain)
    <3>1. o.before.scanned \in Seq(Log) /\ m \in Nat /\ m <= Len(o.before.scanned)
          /\ Len(o.before.scanned) <= Len(chain) /\ Len(o.before.scanned) \in Nat
      BY <1>4, <2>5 DEF Known
    <3>2. SubSeq(o.before.scanned, 1, m) \in Seq(Log) /\ Len(SubSeq(o.before.scanned, 1, m)) = m
      BY <3>1
    <3>3. Len(chain) \in Nat BY DEF SyncInv, NetworkOk, Net
    <3> QED BY <3>1, <3>2, <3>3 DEF Known
  <2>7. HeadOk(n, chain, final) BY <2>3, <2>4 DEF HeadOk
  <2>8. ReadOk(n, chain, final) BY <2>3, <2>4 DEF ReadOk
  <2>9. SyncRunOk(n, chain, final) BY <2>3, <2>4, <2>6, <2>7, <2>8 DEF SyncRunOk, SyncPcs
  <2> QED BY <1>3, <2>2, <2>9, SyncRunMoves
<1> QED BY <1>4, <1>5, <1>6

LEMMA SyncRewind ==
    ASSUME SyncParameters, SyncInv, NEW w \in Workers, Sync!Rewind(w) PROVE SyncInv'
<1>1. PICK o : o = run[w] OBVIOUS
<1>2. SyncRunOk(o, chain, final) /\ o.pc = "rewind" /\ DOMAIN run = Workers
  BY <1>1 DEF SyncInv, Sync!Rewind
<1>3. UNCHANGED <<chain, final, db>> BY DEF Sync!Rewind
<1>4. /\ DOMAIN o = SyncFields /\ HeadOk(o, chain, final) /\ ReadOk(o, chain, final)
      /\ ~FinalizedTag /\ Known(o.ancestor, chain)
  BY <1>2 DEF SyncRunOk
<1>5. PICK k : k = Len(o.ancestor) OBVIOUS
<1>6. k \in Nat /\ k <= Len(chain) BY <1>4, <1>5 DEF Known
<1>7. CASE Sync!End(w, "REORG_RECONCILIATION_REQUIRED") BY <1>3, <1>7, SyncEnds
<1>8. CASE ~Sync!End(w, "REORG_RECONCILIATION_REQUIRED")
  <2>1. PICK affected : affected = Sync!IdsOf({p \in o.obs : Len(p.hash) > k /\ p.state # "orphaned"})
    OBVIOUS
  <2>2. PICK owner : owner = [i \in Identities |->
                       IF i \in affected THEN Sync!ReadIdentity(i, Sync!Hash(k)) ELSE o.owner[i]]
    OBVIOUS
  <2>3. PICK obs : obs = Sync!Orphan(o.obs, k) OBVIOUS
  <2>4. PICK n : n = [o EXCEPT !.pc = "window", !.at = Sync!Hash(k), !.rewound = TRUE,
                               !.obs = obs, !.affected = affected, !.owner = owner] OBVIOUS
  <2>5. run' = [run EXCEPT ![w] = n]
    BY <1>1, <1>5, <1>8, <2>1, <2>2, <2>3, <2>4 DEF Sync!Rewind
  <2>6. /\ DOMAIN n = SyncFields /\ n.pc = "window" /\ n.before = o.before /\ n.at = Sync!Hash(k)
        /\ n.obs = obs /\ n.owner = owner /\ n.tip = o.tip /\ n.head = o.head
    BY <1>4, <2>4 DEF SyncFields
  <2>7. Known(Sync!Hash(k), chain) BY <1>6, HashIs DEF SyncInv
  <2>8. ObsOk(obs, chain, final)
    <3> SUFFICES ASSUME NEW p \in obs
                 PROVE p \in Obs /\ (p.state = "canonical" => FinalHash(p.hash, chain, final))
      BY <1>4 DEF ObsOk
    <3>1. PICK q \in o.obs : p = IF Len(q.hash) > k THEN [q EXCEPT !.state = "orphaned"] ELSE q
      BY <2>3 DEF Sync!Orphan
    <3>2. q \in Obs /\ (q.state = "canonical" => FinalHash(q.hash, chain, final))
      BY <1>4 DEF ReadOk, ObsOk
    <3>3. CASE p = q BY <3>2, <3>3
    <3>4. CASE p = [q EXCEPT !.state = "orphaned"]
      <4>1. p \in Obs /\ p.state = "orphaned" BY <3>2, <3>4 DEF Obs
      <4> QED BY <4>1
    <3> QED BY <3>1, <3>3, <3>4
  <2>9. DOMAIN owner = Identities BY <2>2
  <2>10. HeadOk(n, chain, final) BY <1>4, <2>6 DEF HeadOk
  <2>11. ReadOk(n, chain, final) BY <1>4, <2>6, <2>7, <2>8, <2>9 DEF ReadOk
  <2>12. Unscanned(n, chain, final) BY <1>4 DEF Unscanned
  <2>13. SyncRunOk(n, chain, final) BY <2>6, <2>10, <2>11, <2>12 DEF SyncRunOk, SyncPcs
  <2> QED BY <1>3, <2>5, <2>13, SyncRunMoves
<1> QED BY <1>7, <1>8

LEMMA SyncPinWindow ==
    ASSUME SyncParameters, SyncInv, NEW w \in Workers, Sync!PinWindow(w) PROVE SyncInv'
<1>1. PICK o : o = run[w] OBVIOUS
<1>2. SyncRunOk(o, chain, final) /\ o.pc = "window" /\ DOMAIN run = Workers
  BY <1>1 DEF SyncInv, Sync!PinWindow
<1>3. UNCHANGED <<chain, final, db>> BY DEF Sync!PinWindow
<1>4. /\ DOMAIN o = SyncFields /\ HeadOk(o, chain, final) /\ ReadOk(o, chain, final)
      /\ Unscanned(o, chain, final)
  BY <1>2 DEF SyncRunOk
<1>5. PICK top : top = IF FinalizedTag THEN Len(o.head) ELSE o.tip OBVIOUS
<1>6. PICK from : from = Len(o.at) + 1 OBVIOUS
<1>7. Len(chain) \in Nat /\ final \in Nat /\ final <= Len(chain) /\ NetworkOk
  BY DEF SyncInv, NetworkOk, Net
<1>8. Len(o.at) \in Nat /\ Len(o.at) <= Len(chain) BY <1>4 DEF ReadOk, Known
<1>9. /\ o.tip \in Nat /\ o.tip <= Len(chain) /\ Len(o.head) \in Nat /\ Len(o.head) <= Len(chain)
      /\ FinalizedTag => Len(o.head) <= final
  BY <1>4 DEF HeadOk, Known, FinalHash
<1>10. top \in Nat /\ top <= Len(chain) /\ from \in Nat BY <1>5, <1>6, <1>8, <1>9
<1>11. FinalizedTag => AllCanonical(o.obs) /\ OwnersOk(o.owner, Len(o.before.scanned), chain, final)
  BY <1>4 DEF Unscanned
<1>12. CASE from <= top
  <2>1. PICK through : through = Sync!Window(from, top) OBVIOUS
  <2>2. PICK head : head = IF FinalizedTag THEN o.head ELSE Sync!Hash(o.tip) OBVIOUS
  <2>3. PICK n : n = [o EXCEPT !.pc = "events", !.from = from, !.through = through, !.head = head]
    OBVIOUS
  <2>4. run' = [run EXCEPT ![w] = n]
    BY <1>1, <1>5, <1>6, <1>12, <2>1, <2>2, <2>3 DEF Sync!PinWindow
  <2>5. /\ DOMAIN n = SyncFields /\ n.pc = "events" /\ n.before = o.before /\ n.at = o.at
        /\ n.obs = o.obs /\ n.owner = o.owner /\ n.tip = o.tip /\ n.head = head
        /\ n.from = from /\ n.through = through
    BY <1>4, <2>3 DEF SyncFields
  <2>6. through \in Nat /\ through <= top
    <3>1. Len(o.at) + 1 + MaxBlockRange - 1 \in Nat BY <1>8 DEF SyncParameters
    <3>2. from + MaxBlockRange - 1 \in Nat BY <1>6, <3>1
    <3> QED BY <1>10, <2>1, <3>2 DEF Sync!Window
  <2>7. Known(head, chain) /\ (FinalizedTag => FinalHash(head, chain, final))
    <3>1. Known(Sync!Hash(o.tip), chain) BY <1>7, <1>9, HashIs
    <3> QED BY <1>4, <2>2, <3>1 DEF HeadOk
  <2>8. HeadOk(n, chain, final) BY <1>4, <2>5, <2>7 DEF HeadOk
  <2>9. ReadOk(n, chain, final) BY <1>4, <2>5 DEF ReadOk
  <2>10. Unscanned(n, chain, final) BY <1>11, <2>5 DEF Unscanned
  <2>11. through <= Len(chain) BY <1>7, <1>10, <2>6
  <2>12. FinalizedTag => through <= Len(head) BY <1>5, <2>2, <2>6
  <2>13. SyncRunOk(n, chain, final)
    BY <1>6, <2>5, <2>6, <2>8, <2>9, <2>10, <2>11, <2>12 DEF SyncRunOk, SyncPcs
  <2> QED BY <1>3, <2>4, <2>13, SyncRunMoves
<1>13. CASE ~(from <= top) /\ o.before.version = 0
  <2>1. PICK n : n = [Sync!Idle EXCEPT !.result = "nothing"] OBVIOUS
  <2>2. run' = [run EXCEPT ![w] = n]
    BY <1>1, <1>5, <1>6, <1>13, <2>1 DEF Sync!PinWindow
  <2>3. SyncRunOk(n, chain, final) BY <2>1, EndedRun
  <2> QED BY <1>3, <2>2, <2>3, SyncRunMoves
<1>14. CASE ~(from <= top) /\ o.before.version # 0
  <2>1. PICK through : through = Len(o.at) OBVIOUS
  <2>2. PICK n : n = [o EXCEPT !.pc = "finality", !.through = through] OBVIOUS
  <2>3. run' = [run EXCEPT ![w] = n]
    BY <1>1, <1>5, <1>6, <1>14, <2>1, <2>2 DEF Sync!PinWindow
  <2>4. /\ DOMAIN n = SyncFields /\ n.pc = "finality" /\ n.before = o.before /\ n.at = o.at
        /\ n.obs = o.obs /\ n.owner = o.owner /\ n.tip = o.tip /\ n.head = o.head
        /\ n.through = through
    BY <1>4, <2>2 DEF SyncFields
  <2>5. through \in Nat /\ through <= Len(chain) BY <1>8, <2>1
  <2>6. HeadOk(n, chain, final) BY <1>4, <2>4 DEF HeadOk
  <2>7. ReadOk(n, chain, final) BY <1>4, <2>4 DEF ReadOk
  <2>8. Scanned(n, chain, final)
    <3> SUFFICES ASSUME FinalizedTag PROVE Scanned(n, chain, final) BY DEF Scanned
    <3>1. o.at = o.before.scanned /\ FinalHash(o.before.scanned, chain, final)
      BY <1>4 DEF ReadOk, CheckpointOk
    <3>2. through <= final BY <2>1, <3>1 DEF FinalHash
    <3>3. \A p \in o.obs : p.state # "provisional" BY <1>11 DEF AllCanonical
    <3>4. \A k \in (Len(o.before.scanned) + 1)..through : FALSE BY <1>8, <2>1, <3>1
    <3> QED BY <1>11, <2>1, <2>4, <3>2, <3>3, <3>4 DEF Scanned
  <2>9. SyncRunOk(n, chain, final) BY <2>4, <2>5, <2>6, <2>7, <2>8 DEF SyncRunOk, SyncPcs
  <2> QED BY <1>3, <2>3, <2>9, SyncRunMoves
<1> QED BY <1>12, <1>13, <1>14

LEMMA SyncScanEvents ==
    ASSUME SyncParameters, SyncInv, NEW w \in Workers, Sync!ScanEvents(w) PROVE SyncInv'
<1>1. PICK o : o = run[w] OBVIOUS
<1>2. SyncRunOk(o, chain, final) /\ o.pc = "events" /\ DOMAIN run = Workers
  BY <1>1 DEF SyncInv, Sync!ScanEvents
<1>3. UNCHANGED <<chain, final, db>> BY DEF Sync!ScanEvents
<1>4. /\ DOMAIN o = SyncFields /\ HeadOk(o, chain, final) /\ ReadOk(o, chain, final)
      /\ Unscanned(o, chain, final) /\ o.through \in Nat /\ o.through <= Len(chain)
      /\ o.from = Len(o.at) + 1 /\ (FinalizedTag => o.through <= Len(o.head))
  BY <1>2 DEF SyncRunOk
<1>5. Len(chain) \in Nat /\ chain \in Seq(Log) /\ final \in Nat /\ final <= Len(chain) /\ NetworkOk
  BY DEF SyncInv, NetworkOk, Net
<1>6. Len(o.at) \in Nat /\ o.from \in Nat /\ o.from >= 1 BY <1>4 DEF ReadOk, Known
<1>7. PICK mined : mined = Sync!RegistryEvents(o) OBVIOUS
<1>8. mined = {SubSeq(chain, 1, m) : m \in {k \in o.from..o.through : chain[k] # Sync!NoLog}}
  BY <1>7 DEF Sync!RegistryEvents, Sync!LogHashes
<1>9. FinalizedTag => o.through <= final
  BY <1>4, <1>5 DEF HeadOk, FinalHash
<1>10. ASSUME NEW h \in mined
       PROVE  /\ h \in Seq(Log) /\ Len(h) <= o.through /\ Sync!LogOf(h) \in Log
              /\ FinalizedTag => FinalHash(h, chain, final)
  <2>1. PICK m \in o.from..o.through : h = SubSeq(chain, 1, m) BY <1>8, <1>10
  <2>2. m \in Nat /\ m >= 1 /\ m <= Len(chain) /\ m <= o.through BY <1>4, <1>5, <1>6
  <2>3. h = Sync!Hash(m) BY <2>1 DEF Sync!Hash
  <2>4. h \in Seq(Log) /\ Len(h) = m /\ (m <= final => FinalHash(h, chain, final))
        /\ \A k \in 1..m : h[k] = chain[k]
    BY <1>5, <2>2, <2>3, HashIs
  <2>5. h[m] = chain[m] /\ chain[m] \in Log BY <1>5, <2>2, <2>4
  <2>6. m <= final \/ ~FinalizedTag BY <1>4, <1>5, <1>9, <2>2
  <2> QED BY <2>2, <2>4, <2>5, <2>6 DEF Sync!LogOf
<1>11. CASE \E code : Sync!End(w, code) BY <1>3, <1>11, SyncEnds
<1>12. CASE ~\E code : Sync!End(w, code)
  <2>1. PICK obs : obs = Sync!AppendObservations(o.obs, mined) OBVIOUS
  <2>2. PICK affected : affected = o.affected \cup {Sync!LogOf(h).id : h \in mined} OBVIOUS
  <2>3. PICK n : n = [o EXCEPT !.pc = "finality", !.obs = obs, !.affected = affected] OBVIOUS
  <2>4. run' = [run EXCEPT ![w] = n]
    BY <1>1, <1>7, <1>12, <2>1, <2>2, <2>3 DEF Sync!ScanEvents
  <2>5. /\ DOMAIN n = SyncFields /\ n.pc = "finality" /\ n.before = o.before /\ n.at = o.at
        /\ n.obs = obs /\ n.owner = o.owner /\ n.tip = o.tip /\ n.head = o.head
        /\ n.affected = affected /\ n.through = o.through
    BY <1>4, <2>3 DEF SyncFields
  <2>6. ASSUME NEW p \in obs, p \notin o.obs
        PROVE  \E h \in mined : p = [log |-> Sync!LogOf(h), hash |-> h, state |-> "provisional"]
    BY <2>1, <2>6 DEF Sync!AppendObservations, Sync!Observation
  <2>7. ObsOk(obs, chain, final)
    <3>1. ASSUME NEW p \in obs, p \notin o.obs
          PROVE  /\ p \in Obs /\ p.state = "provisional"
                 /\ FinalizedTag => FinalHash(p.hash, chain, final)
      <4>1. PICK h \in mined : p = [log |-> Sync!LogOf(h), hash |-> h, state |-> "provisional"]
        BY <2>6, <3>1
      <4> QED BY <1>10, <4>1 DEF Obs
    <3>2. ObsOk(o.obs, chain, final) BY <1>4 DEF ReadOk
    <3> QED BY <3>1, <3>2 DEF ObsOk
  <2>8. HeadOk(n, chain, final) BY <1>4, <2>5 DEF HeadOk
  <2>9. ReadOk(n, chain, final) BY <1>4, <2>5, <2>7 DEF ReadOk
  <2>10. ASSUME FinalizedTag PROVE Scanned(n, chain, final)
    <3>1. AllCanonical(o.obs) /\ OwnersOk(o.owner, Len(o.before.scanned), chain, final)
          /\ o.at = o.before.scanned
      BY <1>4, <2>10 DEF Unscanned, ReadOk
    <3>2. ASSUME NEW p \in obs, p.state = "provisional"
          PROVE  p.log.id \in affected /\ Len(p.hash) <= o.through
      <4>1. p \notin o.obs BY <3>1, <3>2 DEF AllCanonical
      <4>2. PICK h \in mined : p = [log |-> Sync!LogOf(h), hash |-> h, state |-> "provisional"]
        BY <2>6, <3>2, <4>1
      <4> QED BY <1>10, <2>2, <4>2
    <3>3. ASSUME NEW i \in Identities, i \notin affected, NEW k \in (Len(o.before.scanned) + 1)..o.through
          PROVE  chain[k].id # i
      <4> SUFFICES ASSUME chain[k].id = i PROVE FALSE OBVIOUS
      <4>1. k \in o.from..o.through BY <1>4, <3>1
      <4>2. chain[k] # Sync!NoLog BY DEF SyncParameters, Sync!NoLog
      <4>3. SubSeq(chain, 1, k) \in mined BY <1>8, <4>1, <4>2
      <4>4. k \in Nat /\ k >= 1 /\ k <= Len(chain) BY <1>4, <1>5, <1>6, <4>1
      <4>5. Sync!LogOf(Sync!Hash(k)) = chain[k] BY <1>5, <4>4, HashIs DEF Sync!LogOf
      <4>6. Sync!LogOf(SubSeq(chain, 1, k)).id = i BY <4>5 DEF Sync!Hash
      <4> QED BY <2>2, <3>3, <4>3, <4>6
    <3>4. n.through <= final /\ (n.through <= Len(n.head)) BY <1>4, <1>9, <2>5, <2>10
    <3> QED BY <2>5, <3>1, <3>2, <3>3, <3>4 DEF Scanned
  <2>11. Scanned(n, chain, final) BY <2>10 DEF Scanned
  <2>12. SyncRunOk(n, chain, final) BY <1>4, <2>5, <2>8, <2>9, <2>11 DEF SyncRunOk, SyncPcs
  <2> QED BY <1>3, <2>4, <2>12, SyncRunMoves
<1> QED BY <1>11, <1>12

LEMMA SyncReadFinality ==
    ASSUME SyncParameters, SyncInv, NEW w \in Workers, Sync!ReadFinality(w) PROVE SyncInv'
<1>1. PICK o : o = run[w] OBVIOUS
<1>2. SyncRunOk(o, chain, final) /\ o.pc = "finality" /\ DOMAIN run = Workers
  BY <1>1 DEF SyncInv, Sync!ReadFinality
<1>3. UNCHANGED <<chain, final, db>> BY DEF Sync!ReadFinality
<1>4. /\ DOMAIN o = SyncFields /\ HeadOk(o, chain, final) /\ ReadOk(o, chain, final)
      /\ Scanned(o, chain, final) /\ o.through \in Nat /\ o.through <= Len(chain)
  BY <1>2 DEF SyncRunOk
<1>5. Len(chain) \in Nat /\ final \in Nat /\ final <= Len(chain) /\ NetworkOk
  BY DEF SyncInv, NetworkOk, Net
<1>6. CASE Sync!End(w, "REORG_RECONCILIATION_REQUIRED") BY <1>3, <1>6, SyncEnds
<1>7. CASE ~Sync!End(w, "REORG_RECONCILIATION_REQUIRED")
  <2>1. PICK confirmed : confirmed = IF FinalizedTag THEN Len(o.head)
                                     ELSE IF o.tip > Threshold THEN o.tip - Threshold ELSE 0
    OBVIOUS
  <2>2. confirmed \in Nat /\ confirmed <= final
    BY <1>4, <1>5, <2>1 DEF HeadOk, Known, FinalHash, SyncParameters
  <2>3. PICK k : k = IF confirmed < o.through THEN confirmed ELSE o.through OBVIOUS
  <2>4. k \in Nat /\ k <= final /\ k <= o.through /\ k <= confirmed BY <1>4, <1>5, <2>2, <2>3
  <2>5. k = Sync!FinalityBlock(o) BY <2>1, <2>3 DEF Sync!FinalityBlock
  <2>6. ~(k < Len(o.before.finalized)) BY <1>1, <1>7, <2>5 DEF Sync!ReadFinality
  <2>7. PICK n : n = [o EXCEPT !.pc = "promote", !.scannedHash = Sync!Hash(o.through),
                               !.finality = Sync!Hash(k)] OBVIOUS
  <2>8. run' = [run EXCEPT ![w] = n] BY <1>1, <1>7, <2>5, <2>7 DEF Sync!ReadFinality
  <2>9. /\ DOMAIN n = SyncFields /\ n.pc = "promote" /\ n.before = o.before /\ n.at = o.at
        /\ n.obs = o.obs /\ n.owner = o.owner /\ n.tip = o.tip /\ n.head = o.head
        /\ n.affected = o.affected /\ n.through = o.through
        /\ n.scannedHash = Sync!Hash(o.through) /\ n.finality = Sync!Hash(k)
    BY <1>4, <2>7 DEF SyncFields
  <2>10. HeadOk(n, chain, final) BY <1>4, <2>9 DEF HeadOk
  <2>11. ReadOk(n, chain, final) BY <1>4, <2>9 DEF ReadOk
  <2>12. Scanned(n, chain, final) BY <1>4, <2>9 DEF Scanned
  <2>13. Known(Sync!Hash(o.through), chain) /\ Len(Sync!Hash(o.through)) = o.through
         /\ (o.through <= final => FinalHash(Sync!Hash(o.through), chain, final))
    BY <1>4, <1>5, HashIs
  <2>14. Known(Sync!Hash(k), chain) /\ Len(Sync!Hash(k)) = k
    <3>1. k <= Len(chain) BY <1>5, <2>4
    <3> QED BY <1>5, <2>4, <3>1, HashIs
  <2>15. ASSUME FinalizedTag
         PROVE  k = o.through /\ o.through <= Len(o.head) /\ o.through <= final
    <3>1. o.through <= final /\ (o.through <= Len(o.head) \/ o.through = Len(o.at))
      BY <1>4, <2>15 DEF Scanned
    <3>2. CASE o.through <= Len(o.head)
      BY <1>4, <2>1, <2>2, <2>3, <2>15, <3>1, <3>2
    <3>3. CASE o.through = Len(o.at)
      <4>1. Len(o.before.finalized) = o.through BY <1>4, <2>15, <3>3 DEF ReadOk, CheckpointOk
      <4> QED BY <1>4, <2>1, <2>2, <2>4, <2>6, <2>15, <3>1, <4>1
    <3> QED BY <3>1, <3>2, <3>3
  <2>16. /\ Len(n.finality) <= final
         /\ FinalizedTag => Len(n.finality) = n.through /\ n.through <= Len(n.head)
                            /\ Len(n.scannedHash) = n.through
    BY <2>4, <2>9, <2>13, <2>14, <2>15
  <2>17. FinalizedTag => FinalHash(n.scannedHash, chain, final) /\ n.finality = n.scannedHash
    BY <2>9, <2>13, <2>15
  <2>18. SyncRunOk(n, chain, final)
    BY <1>4, <2>9, <2>10, <2>11, <2>12, <2>13, <2>14, <2>16, <2>17 DEF SyncRunOk, SyncPcs
  <2> QED BY <1>3, <2>8, <2>18, SyncRunMoves
<1> QED BY <1>6, <1>7

(* An owner of block m, with no log between m and n, is an owner of block n. *)
LEMMA OwnerUntil ==
    ASSUME NEW c, NEW i, NEW o, NEW m \in Nat, NEW n \in Nat, m <= n, OwnedAt(i, o, m, c),
           \A k \in (m + 1)..n : c[k].id # i
    PROVE  OwnedAt(i, o, n, c)
<1>1. \A k \in 1..n : k \in 1..m \/ k \in (m + 1)..n OBVIOUS
<1>2. CASE o = "none" /\ \A k \in 1..m : c[k].id # i BY <1>1, <1>2 DEF OwnedAt
<1>3. CASE \E j \in 1..m : c[j] = [id |-> i, to |-> o] /\ \A k \in (j + 1)..m : c[k].id # i
  <2>1. PICK j \in 1..m : c[j] = [id |-> i, to |-> o] /\ \A k \in (j + 1)..m : c[k].id # i BY <1>3
  <2>2. j \in 1..n OBVIOUS
  <2>3. \A k \in (j + 1)..n : k \in (j + 1)..m \/ k \in (m + 1)..n OBVIOUS
  <2>4. \A k \in (j + 1)..n : c[k].id # i BY <2>1, <2>3
  <2> QED BY <2>1, <2>2, <2>4 DEF OwnedAt
<1> QED BY <1>2, <1>3 DEF OwnedAt

LEMMA SyncPromote ==
    ASSUME SyncParameters, SyncInv, NEW w \in Workers, Sync!Promote(w) PROVE SyncInv'
<1>1. PICK o : o = run[w] OBVIOUS
<1>2. SyncRunOk(o, chain, final) /\ o.pc = "promote" /\ DOMAIN run = Workers
  BY <1>1 DEF SyncInv, Sync!Promote
<1>3. UNCHANGED <<chain, final, db>> BY DEF Sync!Promote
<1>4. /\ DOMAIN o = SyncFields /\ HeadOk(o, chain, final) /\ ReadOk(o, chain, final)
      /\ Scanned(o, chain, final) /\ o.through \in Nat /\ o.through <= Len(chain)
      /\ Len(o.finality) <= final
      /\ (FinalizedTag => Len(o.finality) = o.through /\ o.through <= Len(o.head)
                            /\ Len(o.scannedHash) = o.through)
      /\ Known(o.scannedHash, chain) /\ Known(o.finality, chain)
      /\ (FinalizedTag => FinalHash(o.scannedHash, chain, final) /\ o.finality = o.scannedHash)
  BY <1>2 DEF SyncRunOk
<1>5. Len(chain) \in Nat /\ final \in Nat /\ final <= Len(chain) /\ NetworkOk
  BY DEF SyncInv, NetworkOk, Net
<1>6. CASE Sync!End(w, "REORG_RECONCILIATION_REQUIRED") BY <1>3, <1>6, SyncEnds
<1>7. CASE ~Sync!End(w, "REORG_RECONCILIATION_REQUIRED")
  <2>1. PICK promoted : promoted = Sync!Promotable(o) OBVIOUS
  <2>2. promoted = {p \in o.obs : p.state = "provisional" /\ Len(p.hash) <= Len(o.finality)}
    BY <2>1 DEF Sync!Promotable
  <2>3. \A p \in promoted : Sync!Hash(Len(p.hash)) = p.hash
    BY <1>1, <1>7, <2>1 DEF Sync!Promote
  <2>4. PICK obs : obs = (o.obs \ promoted) \cup {[p EXCEPT !.state = "canonical"] : p \in promoted}
    OBVIOUS
  <2>5. PICK owner : owner = [i \in Identities |->
            IF i \in (IF FinalizedTag THEN o.affected ELSE {}) THEN Sync!ReadIdentity(i, o.head)
            ELSE IF i \in Sync!IdsOf(promoted)
                 THEN LET p == Sync!LastOf(i, promoted) IN Sync!Row(p.log.to, p.hash)
                 ELSE o.owner[i]]
    OBVIOUS
  <2>6. PICK n : n = [o EXCEPT !.pc = "commit", !.obs = obs, !.owner = owner,
                               !.affected = o.affected \cup Sync!IdsOf(promoted)] OBVIOUS
  <2>7. run' = [run EXCEPT ![w] = n]
    BY <1>1, <1>7, <2>1, <2>4, <2>5, <2>6 DEF Sync!Promote
  <2>8. /\ DOMAIN n = SyncFields /\ n.pc = "commit" /\ n.before = o.before /\ n.at = o.at
        /\ n.obs = obs /\ n.owner = owner /\ n.tip = o.tip /\ n.head = o.head
        /\ n.scannedHash = o.scannedHash /\ n.finality = o.finality
    BY <1>4, <2>6 DEF SyncFields
  <2>9. ObsOk(o.obs, chain, final) BY <1>4 DEF ReadOk
  <2>10. ASSUME NEW p \in promoted PROVE p \in Obs /\ FinalHash(p.hash, chain, final)
    <3>1. p \in Obs /\ Len(p.hash) <= Len(o.finality) BY <2>2, <2>9 DEF ObsOk
    <3>2. p.hash \in Seq(Log) BY <3>1 DEF Obs
    <3>3. Len(p.hash) \in Nat /\ Len(o.finality) \in Nat BY <1>4, <3>2 DEF Known
    <3>4. Len(p.hash) <= final /\ Len(p.hash) <= Len(chain) BY <1>4, <1>5, <3>1, <3>3
    <3>5. FinalHash(Sync!Hash(Len(p.hash)), chain, final) BY <1>5, <3>3, <3>4, HashIs
    <3> QED BY <2>3, <3>1, <3>5
  <2>11. ASSUME NEW p \in obs, p \notin o.obs \ promoted
         PROVE  p \in Obs /\ p.state = "canonical" /\ FinalHash(p.hash, chain, final)
    <3>1. PICK q \in promoted : p = [q EXCEPT !.state = "canonical"] BY <2>4, <2>11
    <3>2. q \in Obs /\ FinalHash(q.hash, chain, final) BY <2>10
    <3>3. p \in Obs /\ p.state = "canonical" /\ p.hash = q.hash BY <3>1, <3>2 DEF Obs
    <3> QED BY <3>2, <3>3
  <2>12. ObsOk(obs, chain, final)
    <3> SUFFICES ASSUME NEW p \in obs
                 PROVE /\ p \in Obs
                       /\ p.state = "canonical" => FinalHash(p.hash, chain, final)
                       /\ FinalizedTag => FinalHash(p.hash, chain, final) /\ p.state # "orphaned"
      BY DEF ObsOk
    <3>1. CASE p \in o.obs \ promoted BY <2>9, <3>1 DEF ObsOk
    <3>2. CASE p \notin o.obs \ promoted BY <2>11, <3>2
    <3> QED BY <3>1, <3>2
  <2>13. HeadOk(n, chain, final) BY <1>4, <2>8 DEF HeadOk
  <2>14. ReadOk(n, chain, final)
    <3>1. DOMAIN owner = Identities BY <2>5
    <3> QED BY <1>4, <2>8, <2>12, <3>1 DEF ReadOk
  <2>15. ASSUME FinalizedTag PROVE AllCanonical(obs)
    <3> SUFFICES ASSUME NEW p \in obs PROVE p.state = "canonical" BY DEF AllCanonical
    <3>1. CASE p \notin o.obs \ promoted BY <2>11, <3>1
    <3>2. CASE p \in o.obs \ promoted
      <4>1. p \in Obs /\ p.state # "orphaned" BY <2>9, <2>15, <3>2 DEF ObsOk
      <4>2. p.state = "provisional" => Len(p.hash) <= Len(o.finality)
        BY <1>4, <2>15, <3>2 DEF Scanned
      <4>3. p.state # "provisional" BY <2>2, <3>2, <4>2
      <4> QED BY <4>1, <4>3 DEF Obs
    <3> QED BY <3>1, <3>2
  <2>16. ASSUME FinalizedTag PROVE OwnersOk(owner, Len(o.scannedHash), chain, final)
    <3> SUFFICES ASSUME NEW i \in Identities
                 PROVE \E m \in Len(o.scannedHash)..final : OwnedAt(i, owner[i].owner, m, chain)
      BY DEF OwnersOk
    <3>1. Len(o.scannedHash) = o.through /\ o.through <= final /\ o.through <= Len(o.head)
      BY <1>4, <2>16 DEF Scanned
    <3>2. CASE i \in o.affected
      <4>1. owner[i].owner = Sync!OwnerAt(i, o.head)
        BY <2>5, <2>16, <3>2 DEF Sync!ReadIdentity, Sync!Row
      <4>2. FinalHash(o.head, chain, final) BY <1>4, <2>16 DEF HeadOk
      <4>3. OwnedAt(i, Sync!OwnerAt(i, o.head), Len(o.head), chain)
        BY <1>5, <2>16, <4>2, OwnerRead
      <4>4. Len(o.head) \in Nat /\ Len(o.head) <= final BY <4>2 DEF FinalHash
      <4>5. Len(o.head) \in Len(o.scannedHash)..final BY <1>4, <1>5, <3>1, <4>4
      <4> QED BY <4>1, <4>3, <4>5
    <3>3. CASE i \notin o.affected
      <4>1. i \notin Sync!IdsOf(promoted)
        <5>1. \A p \in promoted : p.log.id \in o.affected BY <1>4, <2>2, <2>16 DEF Scanned
        <5> QED BY <3>3, <5>1 DEF Sync!IdsOf
      <4>2. owner[i] = o.owner[i] BY <2>5, <3>3, <4>1
      <4>3. PICK m \in Len(o.before.scanned)..final : OwnedAt(i, o.owner[i].owner, m, chain)
        BY <1>4, <2>16 DEF Scanned, OwnersOk
      <4>4. Len(o.before.scanned) \in Nat BY <1>4 DEF ReadOk, CheckpointOk, Known
      <4>5. m \in Nat /\ m <= final BY <1>5, <4>4
      <4>6. CASE o.through <= m
        <5>1. m \in Len(o.scannedHash)..final BY <1>4, <1>5, <3>1, <4>5, <4>6
        <5> QED BY <4>2, <4>3, <5>1
      <4>7. CASE m < o.through
        <5>1. \A k \in (Len(o.before.scanned) + 1)..o.through : chain[k].id # i
          BY <1>4, <2>16, <3>3 DEF Scanned
        <5>2. \A k \in (m + 1)..o.through : k \in (Len(o.before.scanned) + 1)..o.through
          BY <4>4, <4>5
        <5>3. \A k \in (m + 1)..o.through : chain[k].id # i BY <5>1, <5>2
        <5>4. OwnedAt(i, o.owner[i].owner, o.through, chain)
          BY <1>4, <4>3, <4>5, <4>7, <5>3, OwnerUntil
        <5>5. o.through \in Len(o.scannedHash)..final BY <1>4, <1>5, <3>1
        <5> QED BY <4>2, <5>4, <5>5
      <4> QED BY <1>4, <4>5, <4>6, <4>7
    <3> QED BY <3>2, <3>3
  <2>17. SyncRunOk(n, chain, final)
    BY <1>4, <2>8, <2>13, <2>14, <2>15, <2>16 DEF SyncRunOk, SyncPcs
  <2> QED BY <1>3, <2>7, <2>17, SyncRunMoves
<1> QED BY <1>6, <1>7

LEMMA SyncCommit ==
    ASSUME SyncParameters, SyncInv, NEW w \in Workers, Sync!Commit(w) PROVE SyncInv'
<1>1. PICK o : o = run[w] OBVIOUS
<1>2. SyncRunOk(o, chain, final) /\ o.pc = "commit" /\ DOMAIN run = Workers
  BY <1>1 DEF SyncInv, Sync!Commit
<1>3. UNCHANGED <<chain, final>> BY DEF Sync!Commit
<1>4. CASE UNCHANGED db /\ \E code : Sync!End(w, code) BY <1>3, <1>4, SyncEnds
<1>5. CASE ~(UNCHANGED db /\ \E code : Sync!End(w, code))
  <2>1. /\ Sync!End(w, "completed")
        /\ db' = [checkpoint |-> [version |-> Sync!NextVersion(o.before.version), indexer |-> Sync!Indexer,
                                  scanned |-> o.scannedHash, finalized |-> o.finality],
                  obs |-> o.obs, owner |-> o.owner]
    BY <1>1, <1>5 DEF Sync!Commit
  <2>2. PICK n : n = [Sync!Idle EXCEPT !.result = "completed"] OBVIOUS
  <2>3. SyncRunOk(n, chain, final) BY <2>2, EndedRun
  <2>4. run' = [run EXCEPT ![w] = n] BY <2>1, <2>2 DEF Sync!End
  <2>5. /\ ReadOk(o, chain, final)
        /\ Known(o.scannedHash, chain) /\ Known(o.finality, chain)
        /\ FinalizedTag => FinalHash(o.scannedHash, chain, final) /\ o.finality = o.scannedHash
        /\ FinalizedTag => AllCanonical(o.obs)
                            /\ OwnersOk(o.owner, Len(o.scannedHash), chain, final)
    BY <1>2 DEF SyncRunOk
  <2>6. PICK d : d = [checkpoint |-> [version |-> Sync!NextVersion(o.before.version), indexer |-> Sync!Indexer,
                                      scanned |-> o.scannedHash, finalized |-> o.finality],
                      obs |-> o.obs, owner |-> o.owner] OBVIOUS
  <2>7. /\ d.checkpoint.indexer = Sync!Indexer /\ d.checkpoint.scanned = o.scannedHash
        /\ d.checkpoint.finalized = o.finality /\ d.obs = o.obs /\ d.owner = o.owner
    BY <2>6
  <2>8. CheckpointOk(d.checkpoint, chain, final) BY <2>5, <2>7 DEF CheckpointOk
  <2>9. RowsOk(d, chain, final) BY <2>5, <2>7, <2>8 DEF RowsOk, ReadOk
  <2>10. db' = d BY <2>1, <2>6
  <2>11. RowsOk(db', chain', final') BY <1>3, <2>9, <2>10
  <2>12. NetworkOk' BY <1>3 DEF SyncInv, NetworkOk, Net
  <2>13. ASSUME NEW y \in Workers PROVE SyncRunOk(run'[y], chain', final')
    <3>1. CASE y = w BY <1>2, <1>3, <2>3, <2>4, <3>1
    <3>2. CASE y # w BY <1>2, <1>3, <2>4, <3>2 DEF SyncInv
    <3> QED BY <3>1, <3>2
  <2>14. DOMAIN run' = Workers BY <1>2, <2>4
  <2> QED BY <2>11, <2>12, <2>13, <2>14 DEF SyncInv
<1> QED BY <1>4, <1>5

LEMMA SyncStepKeeps ==
    ASSUME SyncParameters, SyncInv, [Sync!Next]_(Sync!vars) PROVE SyncInv'
<1>1. CASE UNCHANGED Sync!vars
  BY <1>1 DEF Sync!vars, SyncInv, NetworkOk, Net
<1>2. ASSUME NEW w \in Workers, Sync!Abort(w) PROVE SyncInv'
  BY <1>2, SyncEnds DEF Sync!Abort
<1>3. ASSUME NEW w \in Workers, Sync!SyncStep(w) PROVE SyncInv'
  BY <1>3, SyncReadHead, SyncReadCheckpoint, SyncFindAncestor, SyncRewind, SyncPinWindow,
     SyncScanEvents, SyncReadFinality, SyncPromote, SyncCommit DEF Sync!SyncStep
<1> QED BY <1>1, <1>2, <1>3, SyncMine, SyncFinalize, SyncReorg DEF Sync!Next

LEMMA SyncInvIsEnough == ASSUME SyncInv PROVE ScannedIsFinal
<1>1. NetworkOk /\ RowsOk(db, chain, final) BY DEF SyncInv
<1>2. ASSUME NEW o \in db.obs, o.state = "canonical"
      PROVE  Len(o.hash) <= final /\ SubSeq(chain, 1, Len(o.hash)) = o.hash
  <2>1. FinalHash(o.hash, chain, final) BY <1>1, <1>2 DEF RowsOk, ObsOk
  <2> QED BY <1>1, <2>1, FinalIsCurrent
<1>3. ASSUME db.checkpoint.indexer = "finalized-tag", NEW i \in DOMAIN db.owner
      PROVE  \E n \in Len(db.checkpoint.scanned)..final : IsOwner(i, db.owner[i].owner, n)
  <2>1. FinalizedTag BY <1>1, <1>3 DEF RowsOk, CheckpointOk, Sync!Indexer
  <2>2. i \in Identities /\ OwnersOk(db.owner, Len(db.checkpoint.scanned), chain, final)
    BY <1>1, <1>3, <2>1 DEF RowsOk
  <2> QED BY <2>2, OwnedIsOwner DEF OwnersOk
<1> QED BY <1>2, <1>3 DEF ScannedIsFinal

(* For any number of overlapping syncs, reorganisations, failed reads and  *)
(* lost compare-and-sets, a canonical observation is a log of the present  *)
(* final chain, and with the finalized tag the owner shown is the owner at *)
(* the scanned block or a later final one (syncRegistry,                   *)
(* canonicalizeThrough).  With confirmations: if the threshold is not      *)
(* below the depth the network reverts.                                    *)
THEOREM StoredIsFinal == ASSUME SyncParameters PROVE Sync!Spec => []ScannedIsFinal
<1>1. Sync!Init => SyncInv BY SyncInitially
<1>2. SyncInv /\ [Sync!Next]_(Sync!vars) => SyncInv' BY SyncStepKeeps
<1>3. SyncInv => ScannedIsFinal BY SyncInvIsEnough
<1> QED BY <1>1, <1>2, <1>3, PTL DEF Sync!Spec

-----------------------------------------------------------------------------
(* The catalogue scan. *)

ScanParameters ==
    /\ Entries \in Nat /\ MaxCands \in Nat
    /\ PageSizes \subseteq Nat
    /\ Paging \in {"offset", "cursor"}

Position == [kind : {"end", "offset", "cursor"}, at : Nat]
Page == [items : Seq(Nat), from : Position, next : Position, route : {"none", "agents", "latest"}]
ScanRow == [version : Nat \ {0}, size : Nat, next : Position, pages : Nat, cands : Nat]
ScanRowOrNone == ScanRow \cup {Scan!NoCheckpoint}
ScanRun == [pc : {"idle", "locked", "loop", "page"}, size : Nat, seen : ScanRowOrNone,
            position : Position, page : Page, pages : Nat, cands : Nat,
            failures : [Scan!Routes -> Nat]]

(* The agents a position stands after, in a catalogue of n agents; the     *)
(* newest has the highest number and comes first.                          *)
Behind(a, p, n) ==
    CASE p.kind = "end" -> TRUE
      [] p.kind = "cursor" -> a > p.at
      [] OTHER -> a + p.at > n

(* An opaque cursor stands at an entry of the catalogue. *)
Stands(p, n) == p.kind = "cursor" => p.at <= n

Collected(p, n, stored) == \A a \in 1..Entries : Behind(a, p, n) => a \in stored

OnlyAgents(pages) == \A i \in DOMAIN pages : pages[i].route = "agents"

ItemsOf(page) == {page.items[i] : i \in DOMAIN page.items}

(* A run holds a checkpoint at most as new as the stored one.  If it is    *)
(* the stored one, its page continues what is stored without a gap.        *)
ScanRunOk(r, rec, n, stored, pages) ==
    /\ Stands(r.position, n) /\ Stands(r.page.next, n)
    /\ r.pc \in {"loop", "page"} =>
         /\ r.seen.version <= rec.version
         /\ r.seen.version = rec.version => r.seen = rec
         /\ r.position = Scan!StartPosition(r.seen)
    /\ r.pc = "page" /\ r.page.route = "agents" /\ r.seen.version = rec.version /\ OnlyAgents(pages)
         => Collected(r.page.next, n, stored \cup ItemsOf(r.page))

ScanRowOk(rec, n, stored, pages) ==
    rec.version # 0 => /\ Stands(rec.next, n)
                       /\ OnlyAgents(pages) => Collected(rec.next, n, stored)

ScanTypes ==
    /\ catalog \in Seq(Nat) /\ Entries <= Len(catalog)
    /\ \A i \in DOMAIN catalog : catalog[i] = Len(catalog) + 1 - i
    /\ listed = 1..Entries
    /\ cp \in ScanRowOrNone
    /\ committed \in Seq(Page)
    /\ scan \in [Workers -> ScanRun]

ScanInv ==
    /\ ScanTypes
    /\ ScanRowOk(cp, Len(catalog), ingested, committed)
    /\ \A r \in Workers : ScanRunOk(scan[r], cp, Len(catalog), ingested, committed)

LEMMA CollectedStays ==
    ASSUME NEW p \in Position, NEW n \in Nat, NEW m \in Nat, n <= m, NEW s, NEW t, s \subseteq t,
           Collected(p, n, s), ScanParameters
    PROVE  Collected(p, m, t)
BY DEF Collected, Behind, Position, ScanParameters

LEMMA RowVersions ==
    /\ \A rec \in ScanRowOrNone : rec.version \in Nat
    /\ \A rec \in ScanRowOrNone : rec.version = 0 <=> rec = Scan!NoCheckpoint
    /\ \A rec \in ScanRowOrNone : rec.version # 0 => rec \in ScanRow
BY DEF ScanRowOrNone, ScanRow, Scan!NoCheckpoint

LEMMA IdleRun ==
    /\ Scan!Idle \in ScanRun
    /\ \A rec, n, stored, pages : ScanRunOk(Scan!Idle, rec, n, stored, pages)
<1>1. Scan!End \in Position /\ Scan!End.kind = "end" BY DEF Scan!End, Position
<1>2. Scan!NoPage \in Page /\ Scan!NoPage.next = Scan!End BY <1>1 DEF Scan!NoPage, Page
<1>3. Scan!Idle \in ScanRun BY <1>1, <1>2 DEF Scan!Idle, ScanRun, ScanRowOrNone
<1>4. Scan!Idle.pc = "idle" /\ Scan!Idle.position = Scan!End /\ Scan!Idle.page = Scan!NoPage
  BY DEF Scan!Idle
<1> QED BY <1>1, <1>2, <1>3, <1>4 DEF ScanRunOk, Stands

LEMMA ScanInitially == ASSUME ScanParameters PROVE Scan!Init => ScanInv
<1> SUFFICES ASSUME Scan!Init PROVE ScanInv OBVIOUS
<1>1. catalog \in Seq(Nat) /\ Len(catalog) = Entries
      /\ \A i \in DOMAIN catalog : catalog[i] = Len(catalog) + 1 - i
  <2>1. \A i \in 1..Entries : Entries + 1 - i \in Nat BY DEF ScanParameters
  <2>2. catalog \in [1..Entries -> Nat] BY <2>1 DEF Scan!Init
  <2>3. catalog \in Seq(Nat) /\ Len(catalog) = Entries BY <2>2 DEF ScanParameters
  <2> QED BY <2>3 DEF Scan!Init
<1>2. ScanTypes BY <1>1, IdleRun DEF Scan!Init, ScanTypes, ScanRowOrNone, ScanParameters
<1>3. ScanRowOk(cp, Len(catalog), ingested, committed)
  BY DEF Scan!Init, ScanRowOk, Scan!NoCheckpoint
<1>4. \A r \in Workers : ScanRunOk(scan[r], cp, Len(catalog), ingested, committed)
  BY IdleRun DEF Scan!Init
<1> QED BY <1>2, <1>3, <1>4 DEF ScanInv

(* The shape of nearly every step: one run's record changes. *)
LEMMA ScanRunMoves ==
    ASSUME ScanInv, NEW r \in Workers, NEW n \in ScanRun, scan' = [scan EXCEPT ![r] = n],
           ScanRunOk(n, cp, Len(catalog), ingested, committed),
           UNCHANGED <<catalog, listed, cp, ingested, committed>>
    PROVE  ScanInv'
<1>1. ScanTypes' BY DEF ScanInv, ScanTypes
<1>2. ASSUME NEW y \in Workers PROVE ScanRunOk(scan'[y], cp', Len(catalog'), ingested', committed')
  <2>1. CASE y = r BY <2>1 DEF ScanInv, ScanTypes
  <2>2. CASE y # r BY <2>2 DEF ScanInv, ScanTypes
  <2> QED BY <2>1, <2>2
<1>3. ScanRowOk(cp', Len(catalog'), ingested', committed') BY DEF ScanInv
<1> QED BY <1>1, <1>2, <1>3 DEF ScanInv

LEMMA ScanFinishes ==
    ASSUME ScanInv, NEW r \in Workers, Scan!Finish(r),
           UNCHANGED <<catalog, listed, cp, ingested, committed>>
    PROVE  ScanInv'
BY IdleRun, ScanRunMoves DEF Scan!Finish

LEMMA ScanTakeLock ==
    ASSUME ScanParameters, ScanInv, NEW r \in Workers, NEW size \in PageSizes, Scan!TakeLock(r, size)
    PROVE  ScanInv'
<1>1. PICK n : n = [Scan!Idle EXCEPT !.pc = "locked", !.size = size] OBVIOUS
<1>2. size \in Nat BY DEF ScanParameters
<1>3. n \in ScanRun BY <1>1, <1>2, IdleRun DEF ScanRun
<1>4. n.pc = "locked" /\ n.position = Scan!End /\ n.page = Scan!NoPage BY <1>1 DEF Scan!Idle
<1>5. ScanRunOk(n, cp, Len(catalog), ingested, committed)
  BY <1>4 DEF ScanRunOk, Stands, Scan!NoPage, Scan!End
<1>6. scan' = [scan EXCEPT ![r] = n] /\ UNCHANGED <<catalog, listed, cp, ingested, committed>>
  BY <1>1 DEF Scan!TakeLock
<1> QED BY <1>3, <1>5, <1>6, ScanRunMoves

LEMMA StartTyped ==
    ASSUME NEW rec \in ScanRowOrNone
    PROVE  Scan!StartPosition(rec) \in Position
<1>1. Scan!InitialPosition \in Position BY DEF Scan!InitialPosition, Position
<1>2. rec # Scan!NoCheckpoint => rec.next \in Position BY DEF ScanRowOrNone, ScanRow
<1> QED BY <1>1, <1>2 DEF Scan!StartPosition

LEMMA ScanReadCheckpoint ==
    ASSUME ScanParameters, ScanInv, NEW r \in Workers, Scan!ReadCheckpoint(r)
    PROVE  ScanInv'
<1>1. UNCHANGED <<catalog, listed, cp, ingested, committed>> BY DEF Scan!ReadCheckpoint
<1>2. CASE Scan!Finish(r) BY <1>1, <1>2, ScanFinishes
<1>3. CASE ~Scan!Finish(r)
  <2>1. PICK o \in ScanRun : o = scan[r] BY DEF ScanInv, ScanTypes
  <2>2. PICK n : n = [o EXCEPT !.pc = "loop", !.seen = cp, !.position = Scan!StartPosition(cp)] OBVIOUS
  <2>3. cp \in ScanRowOrNone BY DEF ScanInv, ScanTypes
  <2>4. PICK p \in Position : p = Scan!StartPosition(cp) BY <2>3, StartTyped
  <2>5. n \in ScanRun BY <2>2, <2>3, <2>4 DEF ScanRun
  <2>6. n.pc = "loop" /\ n.seen = cp /\ n.position = p /\ n.page = o.page
    BY <2>2, <2>4 DEF ScanRun
  <2>7. Stands(p, Len(catalog))
    <3>1. CASE cp = Scan!NoCheckpoint
      BY <2>4, <3>1 DEF Scan!StartPosition, Scan!InitialPosition, Stands
    <3>2. CASE cp # Scan!NoCheckpoint
      BY <2>3, <2>4, <3>2, RowVersions DEF Scan!StartPosition, ScanInv, ScanRowOk
    <3> QED BY <3>1, <3>2
  <2>8. Stands(o.page.next, Len(catalog)) BY <2>1 DEF ScanInv, ScanRunOk
  <2>9. cp.version \in Nat BY <2>3, RowVersions
  <2>10. ScanRunOk(n, cp, Len(catalog), ingested, committed)
    BY <2>4, <2>6, <2>7, <2>8, <2>9 DEF ScanRunOk
  <2>11. scan' = [scan EXCEPT ![r] = n]
    <3>1. scan' = [scan EXCEPT ![r].pc = "loop", ![r].seen = cp,
                               ![r].position = Scan!StartPosition(cp)]
      BY <1>3 DEF Scan!ReadCheckpoint
    <3>2. scan \in [Workers -> ScanRun] BY DEF ScanInv, ScanTypes
    <3> QED BY <2>1, <2>2, <3>1, <3>2
  <2> QED BY <1>1, <2>5, <2>10, <2>11, ScanRunMoves
<1> QED BY <1>2, <1>3

LEMMA LimitTyped ==
    ASSUME ScanParameters, ScanInv, NEW r \in Workers, Scan!MoreToFetch(r)
    PROVE  Scan!Limit(r) \in Nat
<1>1. PICK o \in ScanRun : o = scan[r] BY DEF ScanInv, ScanTypes
<1>2. o.size \in Nat /\ o.cands \in Nat /\ o.cands < MaxCands
  BY <1>1 DEF ScanRun, Scan!MoreToFetch
<1>3. MaxCands - o.cands \in Nat BY <1>2 DEF ScanParameters
<1> QED BY <1>1, <1>2, <1>3 DEF Scan!Limit

LEMMA IndexTyped ==
    ASSUME ScanTypes, NEW p \in Position, Stands(p, Len(catalog))
    PROVE  Scan!Index(p) \in Nat
<1>1. Len(catalog) \in Nat BY DEF ScanTypes
<1>2. p.at \in Nat BY DEF Position
<1> QED BY <1>1, <1>2 DEF Scan!Index, Stands

LEMMA FollowingTyped ==
    ASSUME ScanTypes, NEW k \in Nat, NEW kind \in {"offset", "cursor"}
    PROVE  Scan!Following(k, kind) \in Position /\ Stands(Scan!Following(k, kind), Len(catalog))
<1>1. Len(catalog) \in Nat BY DEF ScanTypes
<1>2. CASE k >= Len(catalog) BY <1>2 DEF Scan!Following, Scan!End, Position, Stands
<1>3. CASE ~(k >= Len(catalog))
  <2>1. Len(catalog) - k \in Nat /\ Len(catalog) - k <= Len(catalog) BY <1>1, <1>3
  <2>2. PICK at \in Nat : at = IF kind = "cursor" THEN Len(catalog) - k ELSE k BY <2>1
  <2>3. at <= Len(catalog) BY <1>1, <1>3, <2>1, <2>2
  <2>4. Scan!Following(k, kind) = [kind |-> kind, at |-> at] BY <1>3, <2>2 DEF Scan!Following
  <2> QED BY <2>3, <2>4 DEF Position, Stands
<1> QED BY <1>2, <1>3

LEMMA ItemsTyped ==
    ASSUME NEW list \in Seq(Nat), NEW k \in Nat, NEW l \in Nat
    PROVE  /\ Scan!PageItems(list, k, l) \in Seq(Nat)
           /\ \A i \in (k + 1)..(k + l) : i <= Len(list) =>
                \E j \in DOMAIN Scan!PageItems(list, k, l) : Scan!PageItems(list, k, l)[j] = list[i]
<1>1. Len(list) \in Nat OBVIOUS
<1>2. PICK m \in Nat : m = IF k + l < Len(list) THEN k + l ELSE Len(list) BY <1>1
<1>3. Scan!PageItems(list, k, l) = SubSeq(list, k + 1, m) BY <1>2 DEF Scan!PageItems
<1>4. CASE k + 1 <= m
  <2>1. m <= Len(list) BY <1>1, <1>2
  <2>2. SubSeq(list, k + 1, m) \in Seq(Nat) /\ Len(SubSeq(list, k + 1, m)) = m - k
        /\ \A j \in 1..(m - k) : SubSeq(list, k + 1, m)[j] = list[k + j]
    <3>1. k + 1 \in 1..Len(list) /\ m \in 1..Len(list) BY <1>1, <1>4, <2>1
    <3>2. SubSeq(list, k + 1, m) \in Seq(Nat) BY <3>1
    <3>3. Len(SubSeq(list, k + 1, m)) = m - (k + 1) + 1 BY <1>4, <3>1
    <3>4. \A j \in 1..(m - (k + 1) + 1) : SubSeq(list, k + 1, m)[j] = list[(k + 1) + j - 1]
      BY <1>4, <3>1
    <3>5. m - (k + 1) + 1 = m - k /\ \A j \in 1..(m - k) : (k + 1) + j - 1 = k + j OBVIOUS
    <3> QED BY <3>2, <3>3, <3>4, <3>5
  <2>3. ASSUME NEW i \in (k + 1)..(k + l), i <= Len(list)
        PROVE  \E j \in DOMAIN SubSeq(list, k + 1, m) : SubSeq(list, k + 1, m)[j] = list[i]
    <3>1. i - k \in 1..(m - k) /\ k + (i - k) = i BY <1>1, <1>2, <2>3
    <3>2. DOMAIN SubSeq(list, k + 1, m) = 1..(m - k) BY <2>2
    <3> QED BY <2>2, <3>1, <3>2
  <2> QED BY <1>3, <2>2, <2>3
<1>5. CASE ~(k + 1 <= m)
  <2>1. SubSeq(list, k + 1, m) = <<>> BY <1>5
  <2>2. \A i \in (k + 1)..(k + l) : ~(i <= Len(list)) BY <1>1, <1>2, <1>5
  <2>3. <<>> \in Seq(Nat) OBVIOUS
  <2>4. Scan!PageItems(list, k, l) \in Seq(Nat) BY <1>3, <2>1, <2>3
  <2> QED BY <2>2, <2>4
<1> QED BY <1>4, <1>5

LEMMA FailuresTyped ==
    ASSUME NEW f \in [Scan!Routes -> Nat]
    PROVE  /\ [f EXCEPT !["agents"] = 0] \in [Scan!Routes -> Nat]
           /\ [f EXCEPT !["latest"] = 0] \in [Scan!Routes -> Nat]
           /\ [f EXCEPT !["agents"] = f["agents"] + 1] \in [Scan!Routes -> Nat]
BY DEF Scan!Routes

(* An answer is kept beside what the run knew. *)
LEMMA ScanReceives ==
    ASSUME ScanInv, NEW r \in Workers, scan[r].pc = "loop",
           NEW items \in Seq(Nat), NEW next \in Position, NEW route \in {"agents", "latest"},
           NEW failures \in [Scan!Routes -> Nat],
           Scan!Received(r, items, next, route, failures),
           Stands(next, Len(catalog)),
           route = "agents" /\ scan[r].seen.version = cp.version /\ OnlyAgents(committed)
             => Collected(next, Len(catalog), ingested \cup {items[i] : i \in DOMAIN items}),
           UNCHANGED <<catalog, listed, cp, ingested, committed>>
    PROVE  ScanInv'
<1>1. PICK o \in ScanRun : o = scan[r] BY DEF ScanInv, ScanTypes
<1>2. PICK page : page = [items |-> items, from |-> o.position, next |-> next, route |-> route] OBVIOUS
<1>3. o.position \in Position BY DEF ScanRun
<1>4. page \in Page /\ page.items = items /\ page.next = next /\ page.route = route
  BY <1>2, <1>3 DEF Page
<1>5. PICK n : n = [o EXCEPT !.pc = "page", !.failures = failures, !.page = page] OBVIOUS
<1>6. n \in ScanRun /\ n.pc = "page" /\ n.page = page /\ n.seen = o.seen /\ n.position = o.position
  BY <1>4, <1>5 DEF ScanRun
<1>7. ScanRunOk(o, cp, Len(catalog), ingested, committed) /\ o.pc = "loop" BY <1>1 DEF ScanInv
<1>8. ItemsOf(page) = {items[i] : i \in DOMAIN items} BY <1>4 DEF ItemsOf
<1>9. ScanRunOk(n, cp, Len(catalog), ingested, committed)
  BY <1>1, <1>4, <1>6, <1>7, <1>8 DEF ScanRunOk
<1>10. scan' = [scan EXCEPT ![r] = n]
  <2>1. scan' = [scan EXCEPT ![r].pc = "page", ![r].failures = failures, ![r].page = page]
    BY <1>1, <1>2 DEF Scan!Received
  <2>2. scan \in [Workers -> ScanRun] BY DEF ScanInv, ScanTypes
  <2> QED BY <1>1, <1>5, <2>1, <2>2
<1> QED BY <1>6, <1>9, <1>10, ScanRunMoves

(* A page that follows a position leaves no gap behind it. *)
LEMMA PageContinues ==
    ASSUME ScanParameters, ScanTypes, NEW p \in Position, Stands(p, Len(catalog)),
           NEW l \in Nat, NEW kind \in {"offset", "cursor"}, NEW stored,
           Collected(p, Len(catalog), stored), NEW items,
           items = Scan!PageItems(catalog, Scan!Index(p), l)
    PROVE  Collected(Scan!Following(Scan!Index(p) + l, kind), Len(catalog),
                     stored \cup {items[i] : i \in DOMAIN items})
<1>1. PICK k \in Nat : k = Scan!Index(p) BY IndexTyped
<1>2. PICK next \in Position : next = Scan!Following(k + l, kind) BY FollowingTyped
<1>3. PICK n \in Nat : n = Len(catalog) BY DEF ScanTypes
<1>4. catalog \in Seq(Nat) /\ Entries <= n /\ \A i \in 1..n : catalog[i] = n + 1 - i
  BY <1>3 DEF ScanTypes
<1> SUFFICES ASSUME NEW a \in 1..Entries, Behind(a, next, n), a \notin stored
             PROVE  \E j \in DOMAIN items : items[j] = a
  BY <1>1, <1>2, <1>3 DEF Collected
<1>5. Entries \in Nat BY DEF ScanParameters
<1>6. ~Behind(a, p, n) BY <1>3 DEF Collected
<1>7. PICK i \in 1..n : i = n + 1 - a
  <2>1. n + 1 - a \in 1..n BY <1>4, <1>5
  <2> QED BY <2>1
<1>8. catalog[i] = a
  <2>1. catalog[i] = n + 1 - i BY <1>4
  <2> QED BY <1>7, <2>1
<1>9. k < i
  <2>1. CASE p.kind = "cursor"
    <3>1. ~(a > p.at) /\ p.at \in Nat BY <1>6, <2>1 DEF Behind, Position
    <3>2. k = n - p.at BY <1>1, <1>3, <2>1 DEF Scan!Index
    <3> QED BY <1>7, <3>1, <3>2
  <2>2. CASE p.kind # "cursor"
    <3>1. ~(a + p.at > n) /\ p.at \in Nat BY <1>6, <2>2 DEF Behind, Position
    <3>2. k = p.at BY <1>1, <2>2 DEF Scan!Index
    <3> QED BY <1>7, <3>1, <3>2
  <2> QED BY <2>1, <2>2
<1>10. i <= k + l
  <2>1. CASE k + l >= n BY <1>3, <2>1
  <2>2. CASE ~(k + l >= n) /\ kind = "cursor"
    <3>1. next = [kind |-> "cursor", at |-> n - (k + l)] BY <1>2, <1>3, <2>2 DEF Scan!Following
    <3>2. a > n - (k + l) BY <3>1 DEF Behind
    <3> QED BY <1>7, <3>2
  <2>3. CASE ~(k + l >= n) /\ kind = "offset"
    <3>1. next = [kind |-> "offset", at |-> k + l] BY <1>2, <1>3, <2>3 DEF Scan!Following
    <3>2. a + (k + l) > n BY <3>1 DEF Behind
    <3> QED BY <1>7, <3>2
  <2> QED BY <2>1, <2>2, <2>3
<1>11. i \in (k + 1)..(k + l) /\ i <= Len(catalog) BY <1>3, <1>9, <1>10
<1>12. \E j \in DOMAIN Scan!PageItems(catalog, k, l) : Scan!PageItems(catalog, k, l)[j] = catalog[i]
  BY <1>4, <1>11, ItemsTyped
<1> QED BY <1>1, <1>8, <1>12

(* What a run begins from is collected, if its checkpoint is the stored one. *)
LEMMA StartCollected ==
    ASSUME ScanParameters, ScanTypes, ScanRowOk(cp, Len(catalog), ingested, committed),
           OnlyAgents(committed)
    PROVE  Collected(Scan!StartPosition(cp), Len(catalog), ingested)
<1>1. Len(catalog) \in Nat /\ Entries <= Len(catalog) /\ cp \in ScanRowOrNone BY DEF ScanTypes
<1>2. CASE cp = Scan!NoCheckpoint
  <2>1. Scan!StartPosition(cp) = [kind |-> "offset", at |-> 0]
    BY <1>2 DEF Scan!StartPosition, Scan!InitialPosition
  <2>2. ASSUME NEW a \in 1..Entries PROVE ~Behind(a, [kind |-> "offset", at |-> 0], Len(catalog))
    BY <1>1 DEF Behind, ScanParameters
  <2> QED BY <2>1, <2>2 DEF Collected
<1>3. CASE cp # Scan!NoCheckpoint
  <2>1. cp.version # 0 BY <1>1, <1>3, RowVersions
  <2> QED BY <1>3, <2>1 DEF ScanRowOk, Scan!StartPosition
<1> QED BY <1>2, <1>3

LEMMA ScanFetchAgents ==
    ASSUME ScanParameters, ScanInv, NEW r \in Workers, Scan!FetchAgents(r)
    PROVE  ScanInv'
<1>1. PICK o \in ScanRun : o = scan[r] BY DEF ScanInv, ScanTypes
<1>2. o.pc = "loop" /\ ScanRunOk(o, cp, Len(catalog), ingested, committed)
  BY <1>1 DEF ScanInv, Scan!FetchAgents
<1>3. PICK l \in Nat : l = Scan!Limit(r) BY LimitTyped DEF Scan!FetchAgents
<1>4. PICK p \in Position : p = o.position BY DEF ScanRun
<1>5. Stands(p, Len(catalog)) BY <1>2, <1>4 DEF ScanRunOk
<1>6. PICK k \in Nat : k = Scan!Index(p) BY <1>5, IndexTyped DEF ScanInv
<1>7. PICK kind \in {"offset", "cursor"} : kind = IF p.kind = "cursor" THEN "cursor" ELSE Paging
  BY DEF ScanParameters
<1>8. PICK items \in Seq(Nat) : items = Scan!PageItems(catalog, k, l)
  BY ItemsTyped DEF ScanInv, ScanTypes
<1>9. PICK next \in Position : next = Scan!Following(k + l, kind) /\ Stands(next, Len(catalog))
  BY FollowingTyped DEF ScanInv
<1>10. PICK failures \in [Scan!Routes -> Nat] : failures = [o.failures EXCEPT !["agents"] = 0]
  <2>1. o.failures \in [Scan!Routes -> Nat] BY DEF ScanRun
  <2> QED BY <2>1, FailuresTyped
<1>11. Scan!Received(r, items, next, "agents", failures)
  BY <1>1, <1>3, <1>4, <1>6, <1>7, <1>8, <1>9, <1>10 DEF Scan!FetchAgents, Scan!NextPosition
<1>12. ASSUME o.seen.version = cp.version, OnlyAgents(committed)
       PROVE  Collected(next, Len(catalog), ingested \cup {items[i] : i \in DOMAIN items})
  <2>1. p = Scan!StartPosition(cp) BY <1>2, <1>4, <1>12 DEF ScanRunOk
  <2>2. Collected(p, Len(catalog), ingested) BY <1>12, <2>1, StartCollected DEF ScanInv
  <2> QED BY <1>5, <1>6, <1>8, <1>9, <2>2, PageContinues DEF ScanInv
<1>13. UNCHANGED <<catalog, listed, cp, ingested, committed>> BY DEF Scan!FetchAgents
<1> QED BY <1>1, <1>2, <1>9, <1>11, <1>12, <1>13, ScanReceives

LEMMA ScanFetchLatest ==
    ASSUME ScanParameters, ScanInv, NEW r \in Workers, Scan!FetchLatest(r)
    PROVE  ScanInv'
<1>1. PICK o \in ScanRun : o = scan[r] BY DEF ScanInv, ScanTypes
<1>2. o.pc = "loop" /\ ScanRunOk(o, cp, Len(catalog), ingested, committed)
  BY <1>1 DEF ScanInv, Scan!FetchLatest
<1>3. PICK l \in Nat : l = Scan!Limit(r) BY LimitTyped DEF Scan!FetchLatest
<1>4. PICK p \in Position : p = o.position BY DEF ScanRun
<1>5. Stands(p, Len(catalog)) BY <1>2, <1>4 DEF ScanRunOk
<1>6. PICK k \in Nat : k = Scan!Index(p) BY <1>5, IndexTyped DEF ScanInv
<1>7. PICK list \in Seq(Nat) : list = Scan!Reverse(catalog)
  <2>1. catalog \in Seq(Nat) /\ Len(catalog) \in Nat BY DEF ScanInv, ScanTypes
  <2>2. ASSUME NEW i \in 1..Len(catalog) PROVE catalog[Len(catalog) - i + 1] \in Nat
    <3>1. Len(catalog) - i + 1 \in 1..Len(catalog) BY <2>1
    <3> QED BY <2>1, <3>1
  <2>3. Scan!Reverse(catalog) \in [1..Len(catalog) -> Nat] BY <2>2 DEF Scan!Reverse
  <2>4. Scan!Reverse(catalog) \in Seq(Nat) BY <2>1, <2>3
  <2> QED BY <2>4
<1>8. PICK items \in Seq(Nat) : items = Scan!PageItems(list, k, l) BY ItemsTyped
<1>9. PICK next \in Position : next = Scan!Following(k + l, "offset") /\ Stands(next, Len(catalog))
  BY FollowingTyped DEF ScanInv
<1>10. PICK failures \in [Scan!Routes -> Nat] : failures = [Scan!AgentsFailed(r) EXCEPT !["latest"] = 0]
  <2>1. o.failures \in [Scan!Routes -> Nat] BY DEF ScanRun
  <2>2. Scan!AgentsFailed(r) = o.failures
          \/ Scan!AgentsFailed(r) = [o.failures EXCEPT !["agents"] = o.failures["agents"] + 1]
    BY <1>1, <2>1 DEF Scan!AgentsFailed
  <2>3. Scan!AgentsFailed(r) \in [Scan!Routes -> Nat]
    <3>1. [o.failures EXCEPT !["agents"] = o.failures["agents"] + 1] \in [Scan!Routes -> Nat]
      BY <2>1, FailuresTyped
    <3> QED BY <2>1, <2>2, <3>1
  <2> QED BY <2>3, FailuresTyped
<1>11. Scan!Received(r, items, next, "latest", failures)
  BY <1>1, <1>3, <1>4, <1>6, <1>7, <1>8, <1>9, <1>10 DEF Scan!FetchLatest, Scan!NextPosition
<1>12. UNCHANGED <<catalog, listed, cp, ingested, committed>> BY DEF Scan!FetchLatest
<1> QED BY <1>1, <1>2, <1>9, <1>11, <1>12, ScanReceives

LEMMA ScanRegister ==
    ASSUME ScanParameters, ScanInv, Scan!Register
    PROVE  ScanInv'
<1>1. PICK n \in Nat : n = Len(catalog) BY DEF ScanInv, ScanTypes
<1>2. catalog \in Seq(Nat) /\ Entries <= n /\ \A i \in 1..n : catalog[i] = n + 1 - i
  BY <1>1 DEF ScanInv, ScanTypes
<1>3. catalog' = <<n + 1>> \o catalog BY <1>1 DEF Scan!Register
<1>4. catalog' \in Seq(Nat) /\ Len(catalog') = n + 1
      /\ \A i \in 1..(n + 1) : catalog'[i] = (n + 1) + 1 - i
  <2>1. <<n + 1>> \in Seq(Nat) /\ Len(<<n + 1>>) = 1 OBVIOUS
  <2>2. catalog' \in Seq(Nat) /\ Len(catalog') = n + 1 BY <1>1, <1>2, <1>3, <2>1
  <2>3. ASSUME NEW i \in 1..(n + 1) PROVE catalog'[i] = (n + 1) + 1 - i
    <3>1. CASE i = 1 BY <1>1, <1>2, <1>3, <2>1, <3>1
    <3>2. CASE i # 1
      <4>1. i - 1 \in 1..n BY <3>2
      <4>2. catalog'[i] = catalog[i - 1] BY <1>1, <1>2, <1>3, <2>1, <3>2
      <4>3. catalog[i - 1] = n + 1 - (i - 1) BY <1>2, <4>1
      <4> QED BY <4>2, <4>3
    <3> QED BY <3>1, <3>2
  <2> QED BY <2>2, <2>3
<1>5. UNCHANGED <<listed, cp, ingested, committed, scan>> BY DEF Scan!Register
<1>6. ScanTypes'
  <2>1. DOMAIN catalog' = 1..(n + 1) BY <1>4
  <2>2. Entries <= Len(catalog') BY <1>1, <1>2, <1>4 DEF ScanParameters
  <2>3. \A i \in DOMAIN catalog' : catalog'[i] = Len(catalog') + 1 - i BY <1>4, <2>1
  <2> QED BY <1>4, <1>5, <2>2, <2>3 DEF ScanInv, ScanTypes
<1>7. \A p \in Position : Stands(p, n) => Stands(p, n + 1) BY DEF Stands, Position
<1>8. \A p \in Position : \A s : Collected(p, n, s) => Collected(p, n + 1, s)
  BY CollectedStays
<1>9. ScanRowOk(cp, n + 1, ingested, committed)
  <2>1. cp.version # 0 => cp.next \in Position
    BY RowVersions DEF ScanInv, ScanTypes, ScanRow
  <2> QED BY <1>1, <1>7, <1>8, <2>1 DEF ScanInv, ScanRowOk
<1>10. ASSUME NEW r \in Workers PROVE ScanRunOk(scan[r], cp, n + 1, ingested, committed)
  <2>1. PICK o \in ScanRun : o = scan[r] BY DEF ScanInv, ScanTypes
  <2>2. ScanRunOk(o, cp, n, ingested, committed) BY <1>1, <2>1 DEF ScanInv
  <2>3. o.position \in Position /\ o.page \in Page BY DEF ScanRun
  <2>4. o.page.next \in Position BY <2>3 DEF Page
  <2>5. Stands(o.position, n + 1) /\ Stands(o.page.next, n + 1)
    BY <1>7, <2>2, <2>3, <2>4 DEF ScanRunOk
  <2>6. ScanRunOk(o, cp, n + 1, ingested, committed) BY <1>8, <2>2, <2>4, <2>5 DEF ScanRunOk
  <2> QED BY <2>1, <2>6
<1>11. ScanRowOk(cp', Len(catalog'), ingested', committed') BY <1>4, <1>5, <1>9
<1>12. \A r \in Workers : ScanRunOk(scan'[r], cp', Len(catalog'), ingested', committed')
  BY <1>4, <1>5, <1>10
<1> QED BY <1>6, <1>11, <1>12 DEF ScanInv

LEMMA ScanCommitPage ==
    ASSUME ScanParameters, ScanInv, NEW r \in Workers, Scan!CommitPage(r)
    PROVE  ScanInv'
<1>1. PICK o \in ScanRun : o = scan[r] BY DEF ScanInv, ScanTypes
<1>2. o.pc = "page" /\ ScanRunOk(o, cp, Len(catalog), ingested, committed)
  BY <1>1 DEF ScanInv, Scan!CommitPage
<1>3. UNCHANGED <<catalog, listed>> BY DEF Scan!CommitPage
<1>4. CASE Scan!Refused(cp, o.seen, Scan!NextCheckpoint(r))
  <2>1. Scan!Finish(r) /\ UNCHANGED <<cp, ingested, committed>>
    BY <1>1, <1>4 DEF Scan!CommitPage
  <2> QED BY <1>3, <2>1, ScanFinishes
<1>5. CASE ~Scan!Refused(cp, o.seen, Scan!NextCheckpoint(r))
  <2>1. PICK page \in Page : page = o.page BY DEF ScanRun
  <2>2. page.items \in Seq(Nat) /\ page.next \in Position BY DEF Page
  <2>3. PICK seen \in ScanRowOrNone : seen = o.seen BY DEF ScanRun
  <2>4. seen = cp
    BY <1>2, <1>5, <2>3 DEF Scan!Refused, ScanRunOk
  <2>5. PICK rec : rec = Scan!NextCheckpoint(r) OBVIOUS
  <2>6. rec = [version |-> seen.version + 1, size |-> o.size, next |-> page.next,
               pages |-> IF seen = Scan!NoCheckpoint THEN 1 ELSE seen.pages + 1,
               cands |-> Len(page.items) + IF seen = Scan!NoCheckpoint THEN 0 ELSE seen.cands]
    BY <1>1, <2>1, <2>3, <2>5 DEF Scan!NextCheckpoint
  <2>7. seen.version \in Nat BY RowVersions
  <2>8. rec \in ScanRow /\ rec.version = seen.version + 1 /\ rec.next = page.next
    <3>1. (IF seen = Scan!NoCheckpoint THEN 1 ELSE seen.pages + 1) \in Nat
      BY DEF ScanRowOrNone, ScanRow
    <3>2. (Len(page.items) + IF seen = Scan!NoCheckpoint THEN 0 ELSE seen.cands) \in Nat
      BY <2>2 DEF ScanRowOrNone, ScanRow
    <3>3. seen.version + 1 \in Nat \ {0} BY <2>7
    <3>4. o.size \in Nat BY DEF ScanRun
    <3> QED BY <2>2, <2>6, <3>1, <3>2, <3>3, <3>4 DEF ScanRow
  <2>9. rec \in ScanRowOrNone /\ rec.version \in Nat /\ rec.version # 0 BY <2>7, <2>8 DEF ScanRowOrNone
  <2>10. /\ cp' = rec
         /\ ingested' = ingested \cup ItemsOf(page)
         /\ committed' = Append(committed, page)
    BY <1>1, <1>5, <2>1, <2>5 DEF Scan!CommitPage, Scan!Ingest, Scan!ToSet, ItemsOf
  <2>11. committed \in Seq(Page) BY DEF ScanInv, ScanTypes
  <2>12. committed' \in Seq(Page) BY <2>10, <2>11
  <2>13. ASSUME OnlyAgents(committed') PROVE OnlyAgents(committed) /\ page.route = "agents"
    <3>1. /\ DOMAIN committed = 1..Len(committed) /\ Len(committed) \in Nat
          /\ DOMAIN committed' = 1..(Len(committed) + 1)
          /\ committed'[Len(committed) + 1] = page
          /\ \A i \in 1..Len(committed) : committed'[i] = committed[i]
      BY <2>10, <2>11
    <3>2. page.route = "agents" BY <2>13, <3>1 DEF OnlyAgents
    <3>3. \A i \in 1..Len(committed) : i \in 1..(Len(committed) + 1) BY <3>1
    <3>4. OnlyAgents(committed) BY <2>13, <3>1, <3>3 DEF OnlyAgents
    <3> QED BY <3>2, <3>4
  <2>14. Stands(page.next, Len(catalog)) BY <1>2, <2>1 DEF ScanRunOk
  <2>15. ScanRowOk(rec, Len(catalog), ingested', committed')
    <3>1. ASSUME OnlyAgents(committed') PROVE Collected(page.next, Len(catalog), ingested')
      BY <1>2, <2>1, <2>3, <2>4, <2>10, <2>13, <3>1 DEF ScanRunOk
    <3> QED BY <2>8, <2>14, <3>1 DEF ScanRowOk
  <2>16. ASSUME NEW q \in ScanRun, ScanRunOk(q, cp, Len(catalog), ingested, committed)
         PROVE  ScanRunOk(q, rec, Len(catalog), ingested', committed')
    <3>1. q.pc \in {"loop", "page"} => q.seen.version <= cp.version
      BY <2>16 DEF ScanRunOk
    <3>2. q.seen.version \in Nat /\ cp.version \in Nat /\ rec.version = cp.version + 1
      BY <2>4, <2>7, <2>8, RowVersions DEF ScanRun
    <3>3. q.pc \in {"loop", "page"} => q.seen.version < rec.version BY <3>1, <3>2
    <3> QED BY <2>16, <3>2, <3>3 DEF ScanRunOk
  <2>17. PICK n \in ScanRun : /\ scan' = [scan EXCEPT ![r] = n]
                              /\ ScanRunOk(n, rec, Len(catalog), ingested', committed')
    <3>1. CASE page.next = Scan!End
      <4>1. scan' = [scan EXCEPT ![r] = Scan!Idle]
        BY <1>1, <1>5, <2>1, <3>1 DEF Scan!CommitPage, Scan!Finish
      <4> QED BY <4>1, IdleRun
    <3>2. CASE page.next # Scan!End
      <4>1. PICK n : n = [o EXCEPT !.pc = "loop", !.page = Scan!NoPage, !.seen = rec,
                                   !.position = page.next, !.pages = o.pages + 1,
                                   !.cands = o.cands + Len(page.items)] OBVIOUS
      <4>2. scan' = [scan EXCEPT ![r].pc = "loop", ![r].page = Scan!NoPage, ![r].seen = rec,
                                 ![r].position = page.next, ![r].pages = o.pages + 1,
                                 ![r].cands = o.cands + Len(page.items)]
        BY <1>1, <1>5, <2>1, <2>5, <3>2 DEF Scan!CommitPage
      <4>3. scan \in [Workers -> ScanRun] BY DEF ScanInv, ScanTypes
      <4>4. scan' = [scan EXCEPT ![r] = n] BY <1>1, <4>1, <4>2, <4>3
      <4>5. Scan!NoPage \in Page /\ Scan!NoPage.next = Scan!End
        BY DEF Scan!NoPage, Page, Scan!End, Position
      <4>6. o.pages + 1 \in Nat /\ o.cands + Len(page.items) \in Nat BY <2>2 DEF ScanRun
      <4>7. n \in ScanRun BY <2>2, <2>9, <4>1, <4>5, <4>6 DEF ScanRun
      <4>8. n.pc = "loop" /\ n.seen = rec /\ n.position = page.next /\ n.page = Scan!NoPage
        BY <4>1 DEF ScanRun
      <4>9. Scan!StartPosition(rec) = page.next
        BY <2>8, <2>9, RowVersions DEF Scan!StartPosition
      <4>10. Stands(Scan!End, Len(catalog)) BY DEF Stands, Scan!End
      <4>11. ScanRunOk(n, rec, Len(catalog), ingested', committed')
        BY <2>9, <2>14, <4>5, <4>8, <4>9, <4>10 DEF ScanRunOk
      <4> QED BY <4>4, <4>7, <4>11
    <3> QED BY <3>1, <3>2
  <2>18. ScanTypes' BY <1>3, <2>9, <2>10, <2>12, <2>17 DEF ScanInv, ScanTypes
  <2>19. ASSUME NEW y \in Workers
         PROVE  ScanRunOk(scan'[y], cp', Len(catalog'), ingested', committed')
    <3>1. scan \in [Workers -> ScanRun] BY DEF ScanInv, ScanTypes
    <3>2. CASE y = r BY <1>3, <2>10, <2>17, <3>1, <3>2
    <3>3. CASE y # r
      <4>1. PICK q \in ScanRun : q = scan[y] BY <3>1
      <4>2. ScanRunOk(q, cp, Len(catalog), ingested, committed) BY <4>1 DEF ScanInv
      <4>3. ScanRunOk(q, rec, Len(catalog), ingested', committed') BY <2>16, <4>2
      <4>4. scan'[y] = q BY <2>17, <3>1, <3>3, <4>1
      <4> QED BY <1>3, <2>10, <4>3, <4>4
    <3> QED BY <3>2, <3>3
  <2>20. ScanRowOk(cp', Len(catalog'), ingested', committed') BY <1>3, <2>10, <2>15
  <2> QED BY <2>18, <2>19, <2>20 DEF ScanInv
<1> QED BY <1>4, <1>5

LEMMA ScanStepKeeps ==
    ASSUME ScanParameters, ScanInv, [Scan!Next]_(Scan!vars) PROVE ScanInv'
<1>1. CASE UNCHANGED Scan!vars BY <1>1 DEF Scan!vars, ScanInv, ScanTypes
<1>2. ASSUME NEW r \in Workers, Scan!StopAtBudget(r) \/ Scan!Abort(r) PROVE ScanInv'
  BY <1>2, ScanFinishes DEF Scan!StopAtBudget, Scan!Abort
<1>3. ASSUME NEW r \in Workers, Scan!LoseLock(r) PROVE ScanInv'
  BY <1>3 DEF Scan!LoseLock, ScanInv, ScanTypes
<1> QED
  BY <1>1, <1>2, <1>3, ScanRegister, ScanTakeLock, ScanReadCheckpoint, ScanFetchAgents, ScanFetchLatest,
     ScanCommitPage DEF Scan!Next

LEMMA ScanInvIsEnough == ASSUME ScanInv, ScanParameters PROVE NothingSkipped
<1> SUFFICES ASSUME cp.version # 0, \A i \in DOMAIN committed : committed[i].route = "agents",
                    NEW i \in DOMAIN catalog, catalog[i] \in listed,
                    cp.next.kind = "end" \/ i <= Before(cp.next)
             PROVE  catalog[i] \in ingested
  BY DEF NothingSkipped
<1>1. cp \in ScanRow BY RowVersions DEF ScanInv, ScanTypes
<1>2. cp.next \in Position BY <1>1 DEF ScanRow
<1>3. PICK n \in Nat : n = Len(catalog) BY DEF ScanInv, ScanTypes
<1>4. i \in 1..n /\ catalog[i] = n + 1 - i /\ catalog[i] \in 1..Entries
  BY <1>3 DEF ScanInv, ScanTypes
<1>5. PICK a \in 1..Entries : a = catalog[i] BY <1>4
<1>6. Collected(cp.next, n, ingested) BY <1>3 DEF ScanInv, ScanRowOk, OnlyAgents
<1>7. Behind(a, cp.next, n)
  <2>1. CASE cp.next.kind = "end" BY <2>1 DEF Behind
  <2>2. CASE cp.next.kind = "cursor"
    <3>1. i <= n - cp.next.at /\ cp.next.at \in Nat BY <1>2, <1>3, <2>2 DEF Before, Position
    <3>2. a > cp.next.at BY <1>4, <1>5, <3>1
    <3> QED BY <2>2, <3>2 DEF Behind
  <2>3. CASE cp.next.kind = "offset"
    <3>1. i <= cp.next.at /\ cp.next.at \in Nat BY <1>2, <2>3 DEF Before, Position
    <3>2. a + cp.next.at > n BY <1>4, <1>5, <3>1
    <3> QED BY <2>3, <3>2 DEF Behind
  <2> QED BY <1>2, <2>1, <2>2, <2>3 DEF Position
<1> QED BY <1>5, <1>6, <1>7 DEF Collected

(* However the runs overlap, are cut short or resume with smaller pages,   *)
(* and however the catalogue grows, no agent listed at first and standing  *)
(* before the checkpoint's position is missing, as long as every stored    *)
(* page came from /agents (scan-job.ts runLocked, the compare-and-set of   *)
(* saveScanDiscoveryCheckpoint; the advisory lock is not needed for it).   *)
THEOREM ScanSkipsNothing == ASSUME ScanParameters PROVE Scan!Spec => []NothingSkipped
<1>1. Scan!Init => ScanInv BY ScanInitially
<1>2. ScanInv /\ [Scan!Next]_(Scan!vars) => ScanInv' BY ScanStepKeeps
<1>3. ScanInv => NothingSkipped BY ScanInvIsEnough
<1> QED BY <1>1, <1>2, <1>3, PTL DEF Scan!Spec

-----------------------------------------------------------------------------
(* The embedding backfill. *)

Positive == Nat \ {0}
FillRow == [version : Nat, cursor : Nat, attempted : Nat, generated : Nat, skipped : Nat,
            failed : Nat, done : BOOLEAN]
Item == [id : Fill!Ids, doc : Positive]
FillPc == {"idle", "loop", "complete", "find", "embed", "failed", "save"}
FillWorker == [pc : FillPc, seen : FillRow, cursor : Nat, page : Seq(Item), items : Nat,
               fresh : BOOLEAN]

(* The cursor has been moved to this version, or nowhere yet. *)
Reached(c, moved) == c = 0 \/ \E i \in DOMAIN moved : c = moved[i]

(* What a worker at each point of its run may rely on: a rec it read says  *)
(* where the cursor was, and before it saves an item its vector is stored. *)
FillWorkerOk(x, moved, stored) ==
    /\ Reached(x.seen.cursor, moved)
    /\ x.pc \in {"find", "embed", "save"} => x.page # <<>>
    /\ x.pc = "save" => stored[x.page[1].id] # 0

FillTypes ==
    /\ eligible \subseteq Fill!Ids
    /\ doc \in [Fill!Ids -> Positive]
    /\ vector \in [Fill!Ids -> Nat]
    /\ backfill \in FillRow
    /\ passed \in Seq(Fill!Ids)
    /\ worker \in [Workers -> FillWorker]

FillInv ==
    /\ FillTypes
    /\ PassedIsEmbedded
    /\ \A x \in Workers : FillWorkerOk(worker[x], passed, vector)

LEMMA FillInit == Fill!Init => FillInv
  BY DEF Fill!Init, FillInv, FillTypes, PassedIsEmbedded, FillWorkerOk, Reached, Fill!NoRow,
         FillRow, Fill!Idle, FillWorker, FillPc, Fill!Ids, Positive

(* The shape of nearly every step: one worker's record changes, the rows   *)
(* move to others that are sound for it.                                   *)
LEMMA FillMoves ==
    ASSUME FillInv, FillTypes', PassedIsEmbedded', NEW x \in Workers, NEW n \in FillWorker,
           worker' = [worker EXCEPT ![x] = n], FillWorkerOk(n, passed', vector'),
           \A v \in Fill!Ids : vector[v] # 0 => vector'[v] # 0,
           \A i \in DOMAIN passed : i \in DOMAIN passed' /\ passed'[i] = passed[i]
    PROVE  FillInv'
<1>1. ASSUME NEW y \in Workers PROVE FillWorkerOk(worker'[y], passed', vector')
  <2>1. CASE y = x BY <2>1 DEF FillInv, FillTypes
  <2>2. CASE y # x
    <3>1. worker'[y] = worker[y] /\ FillWorkerOk(worker[y], passed, vector) /\ worker[y] \in FillWorker
      BY <2>2 DEF FillInv, FillTypes
    <3>2. PICK o \in FillWorker : o = worker[y] BY <3>1
    <3>3. Reached(o.seen.cursor, passed') BY <3>1, <3>2 DEF FillWorkerOk, Reached
    <3>4. ASSUME o.pc = "save" PROVE vector'[o.page[1].id] # 0
      <4>1. o.page # <<>> /\ vector[o.page[1].id] # 0 BY <3>1, <3>2, <3>4 DEF FillWorkerOk
      <4>2. o.page \in Seq(Item) BY DEF FillWorker
      <4>3. o.page[1] \in Item BY <4>1, <4>2
      <4> QED BY <4>1, <4>3 DEF Item
    <3> QED BY <3>1, <3>2, <3>3, <3>4 DEF FillWorkerOk
  <2> QED BY <2>1, <2>2
<1> QED BY <1>1 DEF FillInv

(* Ending a run leaves the rows alone. *)
LEMMA FillEnds ==
    ASSUME FillInv, NEW x \in Workers, Fill!Finish(x), FillTypes', PassedIsEmbedded',
           UNCHANGED <<vector, passed>>
    PROVE  FillInv'
<1>1. Fill!Idle \in FillWorker
  BY DEF Fill!Idle, FillWorker, Fill!NoRow, FillRow, FillPc
<1>2. FillWorkerOk(Fill!Idle, passed', vector') BY DEF FillWorkerOk, Fill!Idle, Fill!NoRow, Reached
<1>3. worker' = [worker EXCEPT ![x] = Fill!Idle] BY DEF Fill!Finish
<1> QED BY <1>1, <1>2, <1>3, FillMoves

LEMMA FinishTypes ==
    ASSUME FillTypes, NEW x \in Workers, Fill!Finish(x)
    PROVE  worker' \in [Workers -> FillWorker]
<1>1. Fill!Idle \in FillWorker
  BY DEF Fill!Idle, FillWorker, Fill!NoRow, FillRow, FillPc
<1> QED BY <1>1 DEF FillTypes, Fill!Finish

LEMMA FillStart ==
    ASSUME FillInv, NEW x \in Workers, Fill!Start(x)
    PROVE  FillInv'
<1>1. PICK n : n = [Fill!Idle EXCEPT !.pc = "loop", !.seen = backfill, !.cursor = Fill!ResumeCursor(backfill)]
  OBVIOUS
<1>2. backfill \in FillRow BY DEF FillInv, FillTypes
<1>3. n \in FillWorker /\ n.pc = "loop" /\ n.seen = backfill
  <2>1. PICK c \in Nat : c = backfill.cursor BY <1>2 DEF FillRow
  <2>2. n = [Fill!Idle EXCEPT !.pc = "loop", !.seen = backfill, !.cursor = c]
    BY <1>1, <2>1 DEF Fill!ResumeCursor
  <2>3. n = [pc |-> "loop", seen |-> backfill, cursor |-> c, page |-> <<>>, items |-> 0, fresh |-> FALSE]
    BY <2>2 DEF Fill!Idle
  <2> QED BY <1>2, <2>3 DEF FillWorker, FillPc
<1>4. worker' = [worker EXCEPT ![x] = n] BY <1>1 DEF Fill!Start
<1>5. FillWorkerOk(n, passed, vector)
  BY <1>3 DEF FillWorkerOk, FillInv, PassedIsEmbedded, Reached
<1>6. UNCHANGED <<eligible, doc, vector, backfill, passed>> BY DEF Fill!Start
<1>7. FillWorkerOk(n, passed', vector') BY <1>5, <1>6
<1>8. FillTypes' BY <1>3, <1>4, <1>6 DEF FillInv, FillTypes
<1>9. PassedIsEmbedded' BY <1>6 DEF FillInv, PassedIsEmbedded
<1> QED BY <1>3, <1>4, <1>6, <1>7, <1>8, <1>9, FillMoves

LEMMA FillListPage ==
    ASSUME FillInv, NEW x \in Workers, Fill!ListPage(x)
    PROVE  FillInv'
<1>1. PICK ids \in Fill!Candidates(worker[x].cursor, Fill!Min({PageSize, MaxItems - worker[x].items})) :
        worker' = [worker EXCEPT
          ![x].page = [i \in DOMAIN ids |-> [id |-> ids[i], doc |-> doc[ids[i]]]],
          ![x].pc = IF ids = <<>> THEN "complete" ELSE "find"]
  BY DEF Fill!ListPage
<1>2. UNCHANGED <<eligible, doc, vector, backfill, passed>> BY DEF Fill!ListPage
<1>3. PICK k \in Int : 0 <= k /\ ids \in [1..k -> {v \in eligible : v > worker[x].cursor}]
  BY <1>1 DEF Fill!Candidates
<1>4. ids \in Seq(Fill!Ids) /\ DOMAIN ids = 1..k
  BY <1>3 DEF FillInv, FillTypes
<1>5. PICK page : page = [i \in DOMAIN ids |-> [id |-> ids[i], doc |-> doc[ids[i]]]] OBVIOUS
<1>6. page \in Seq(Item)
  <2>1. ASSUME NEW i \in 1..k PROVE [id |-> ids[i], doc |-> doc[ids[i]]] \in Item
    BY <1>3 DEF FillInv, FillTypes, Item
  <2>2. page \in [1..k -> Item] BY <1>4, <1>5, <2>1
  <2> QED BY <1>3, <2>2
<1>7. PICK pc \in FillPc : pc = IF ids = <<>> THEN "complete" ELSE "find" BY DEF FillPc
<1>8. ids # <<>> => page # <<>>
  <2>1. DOMAIN page = DOMAIN ids BY <1>5
  <2>2. ASSUME page = <<>> PROVE DOMAIN ids = {} BY <2>1, <2>2
  <2>3. ASSUME DOMAIN ids = {} PROVE ids = <<>> BY <2>3, <1>4
  <2> QED BY <2>2, <2>3
<1>9. worker[x] \in FillWorker /\ FillWorkerOk(worker[x], passed, vector) BY DEF FillInv, FillTypes
<1>10. PICK n : n = [worker[x] EXCEPT !.page = page, !.pc = pc] OBVIOUS
<1>11. n \in FillWorker /\ n.pc = pc /\ n.page = page /\ n.seen = worker[x].seen
  BY <1>6, <1>9, <1>10 DEF FillWorker
<1>12. worker' = [worker EXCEPT ![x] = n] BY <1>1, <1>5, <1>7, <1>10
<1>13. FillWorkerOk(n, passed', vector')
  BY <1>2, <1>7, <1>8, <1>9, <1>11 DEF FillWorkerOk
<1>14. FillTypes' BY <1>2, <1>11, <1>12 DEF FillInv, FillTypes
<1>15. PassedIsEmbedded' BY <1>2 DEF FillInv, PassedIsEmbedded
<1> QED BY <1>2, <1>11, <1>12, <1>13, <1>14, <1>15, FillMoves

LEMMA FillFindVector ==
    ASSUME FillInv, NEW x \in Workers, Fill!FindVector(x)
    PROVE  FillInv'
<1>1. UNCHANGED <<eligible, doc, vector, backfill, passed>> BY DEF Fill!FindVector
<1>2. PICK o \in FillWorker : o = worker[x] BY DEF FillInv, FillTypes
<1>3. PICK pc : pc = IF Fill!Found(Head(o.page).id, Head(o.page).doc) THEN "save" ELSE "embed" OBVIOUS
<1>4. pc \in {"save", "embed"} BY <1>3
<1>5. PICK n : n = [o EXCEPT !.pc = pc, !.fresh = FALSE] OBVIOUS
<1>6. n \in FillWorker /\ n.pc = pc /\ n.page = o.page /\ n.seen = o.seen
  BY <1>4, <1>5 DEF FillWorker, FillPc
<1>7. worker' = [worker EXCEPT ![x] = n] BY <1>2, <1>3, <1>5 DEF Fill!FindVector
<1>8. FillWorkerOk(o, passed, vector) /\ o.pc = "find" BY <1>2 DEF FillInv, Fill!FindVector
<1>9. o.page # <<>> /\ o.page \in Seq(Item) BY <1>8 DEF FillWorkerOk, FillWorker
<1>10. o.page[1] \in Item /\ Head(o.page) = o.page[1] BY <1>9
<1>11. pc = "save" => vector[o.page[1].id] # 0
  BY <1>3, <1>10 DEF Fill!Found, Item, Positive
<1>12. FillWorkerOk(n, passed', vector') BY <1>1, <1>6, <1>8, <1>9, <1>11 DEF FillWorkerOk
<1>13. FillTypes' BY <1>1, <1>6, <1>7 DEF FillInv, FillTypes
<1>14. PassedIsEmbedded' BY <1>1 DEF FillInv, PassedIsEmbedded
<1> QED BY <1>1, <1>6, <1>7, <1>12, <1>13, <1>14, FillMoves

LEMMA FillEmbed ==
    ASSUME FillInv, NEW x \in Workers, Fill!EmbedAndUpsert(x)
    PROVE  FillInv'
<1>1. UNCHANGED <<eligible, doc, backfill, passed>> BY DEF Fill!EmbedAndUpsert
<1>2. PICK o \in FillWorker : o = worker[x] BY DEF FillInv, FillTypes
<1>3. PICK n : n = [o EXCEPT !.pc = "save", !.fresh = TRUE] OBVIOUS
<1>4. n \in FillWorker /\ n.pc = "save" /\ n.page = o.page /\ n.seen = o.seen
  BY <1>3 DEF FillWorker, FillPc
<1>5. worker' = [worker EXCEPT ![x] = n] BY <1>2, <1>3 DEF Fill!EmbedAndUpsert
<1>6. FillWorkerOk(o, passed, vector) /\ o.pc = "embed" BY <1>2 DEF FillInv, Fill!EmbedAndUpsert
<1>7. o.page # <<>> /\ o.page \in Seq(Item) BY <1>6 DEF FillWorkerOk, FillWorker
<1>8. o.page[1] \in Item /\ Head(o.page) = o.page[1] BY <1>7
<1>9. vector' = [vector EXCEPT ![o.page[1].id] = o.page[1].doc]
  BY <1>2, <1>8 DEF Fill!EmbedAndUpsert, Fill!Upsert
<1>10. o.page[1].doc \in Nat /\ o.page[1].doc # 0 /\ o.page[1].id \in Fill!Ids BY <1>8 DEF Item, Positive
<1>11. vector \in [Fill!Ids -> Nat] BY DEF FillInv, FillTypes
<1>12. vector' \in [Fill!Ids -> Nat] BY <1>9, <1>10, <1>11
<1>13. vector'[o.page[1].id] # 0 BY <1>9, <1>10, <1>11
<1>14. \A v \in Fill!Ids : vector[v] # 0 => vector'[v] # 0 BY <1>9, <1>10, <1>11
<1>15. FillWorkerOk(n, passed', vector') BY <1>1, <1>4, <1>6, <1>7, <1>13 DEF FillWorkerOk
<1>16. FillTypes' BY <1>1, <1>4, <1>5, <1>12 DEF FillInv, FillTypes
<1>17. PassedIsEmbedded'
  <2>1. \A i \in DOMAIN passed : passed[i] \in Fill!Ids BY DEF FillInv, FillTypes
  <2> QED BY <1>1, <1>14, <2>1 DEF FillInv, PassedIsEmbedded
<1> QED BY <1>1, <1>4, <1>5, <1>14, <1>15, <1>16, <1>17, FillMoves

LEMMA FillEmbedFails ==
    ASSUME FillInv, NEW x \in Workers, Fill!EmbedFails(x)
    PROVE  FillInv'
<1>1. UNCHANGED <<eligible, doc, vector, backfill, passed>> BY DEF Fill!EmbedFails
<1>2. PICK o \in FillWorker : o = worker[x] BY DEF FillInv, FillTypes
<1>3. PICK n : n = [o EXCEPT !.pc = "failed"] OBVIOUS
<1>4. n \in FillWorker /\ n.pc = "failed" /\ n.seen = o.seen
  BY <1>3 DEF FillWorker, FillPc
<1>5. worker' = [worker EXCEPT ![x] = n] BY <1>2, <1>3 DEF Fill!EmbedFails
<1>6. FillWorkerOk(o, passed, vector) BY <1>2 DEF FillInv
<1>7. FillWorkerOk(n, passed', vector') BY <1>1, <1>4, <1>6 DEF FillWorkerOk
<1>8. FillTypes' BY <1>1, <1>4, <1>5 DEF FillInv, FillTypes
<1>9. PassedIsEmbedded' BY <1>1 DEF FillInv, PassedIsEmbedded
<1> QED BY <1>1, <1>4, <1>5, <1>7, <1>8, <1>9, FillMoves

(* A rec written from the one the worker read keeps its cursor: the scope  *)
(* is completed, or an item failed.                                        *)
LEMMA CursorKept ==
    ASSUME FillInv, NEW x \in Workers, Fill!Finish(x), UNCHANGED <<eligible, doc, vector, passed>>,
           NEW rec \in FillRow, rec.cursor = worker[x].seen.cursor,
           backfill' = rec \/ backfill' = backfill
    PROVE  FillInv'
<1>1. FillWorkerOk(worker[x], passed, vector) BY DEF FillInv
<1>2. Reached(backfill'.cursor, passed)
  BY <1>1 DEF FillInv, PassedIsEmbedded, Reached, FillWorkerOk
<1>3. backfill' \in FillRow BY DEF FillInv, FillTypes
<1>4. FillTypes' BY <1>3, FinishTypes DEF FillInv, FillTypes
<1>5. PassedIsEmbedded' BY <1>2 DEF FillInv, PassedIsEmbedded, Reached
<1> QED BY <1>4, <1>5, FillEnds

LEMMA FillSaveFailed ==
    ASSUME FillInv, NEW x \in Workers, Fill!SaveFailed(x)
    PROVE  FillInv'
<1>1. PICK o \in FillRow : o = worker[x].seen BY DEF FillInv, FillTypes, FillWorker
<1>2. PICK rec : rec = Fill!FailedRow(x) OBVIOUS
<1>3. rec = [o EXCEPT !.version = @ + 1, !.attempted = @ + 1, !.failed = @ + 1]
  BY <1>1, <1>2 DEF Fill!FailedRow
<1>4. rec \in FillRow /\ rec.cursor = o.cursor
  <2>1. o.version + 1 \in Nat /\ o.attempted + 1 \in Nat /\ o.failed + 1 \in Nat BY DEF FillRow
  <2> QED BY <1>3, <2>1 DEF FillRow
<1>5. Fill!Finish(x) /\ UNCHANGED <<eligible, doc, vector, passed>> BY DEF Fill!SaveFailed
<1>6. backfill' = rec \/ backfill' = backfill BY <1>2 DEF Fill!SaveFailed
<1> QED BY <1>1, <1>4, <1>5, <1>6, CursorKept

LEMMA FillComplete ==
    ASSUME FillInv, NEW x \in Workers, Fill!Complete(x)
    PROVE  FillInv'
<1>1. PICK o \in FillRow : o = worker[x].seen BY DEF FillInv, FillTypes, FillWorker
<1>2. PICK rec : rec = [o EXCEPT !.version = @ + 1, !.done = TRUE] OBVIOUS
<1>3. rec \in FillRow /\ rec.cursor = o.cursor
  <2>1. o.version + 1 \in Nat BY DEF FillRow
  <2> QED BY <1>2, <2>1 DEF FillRow
<1>4. Fill!Finish(x) /\ UNCHANGED <<eligible, doc, vector, passed>> BY DEF Fill!Complete
<1>5. backfill' = rec \/ backfill' = backfill BY <1>1, <1>2 DEF Fill!Complete
<1> QED BY <1>1, <1>3, <1>4, <1>5, CursorKept

LEMMA FillSavePassed ==
    ASSUME FillInv, NEW x \in Workers, Fill!SavePassed(x)
    PROVE  FillInv'
<1>1. UNCHANGED <<eligible, doc, vector>> BY DEF Fill!SavePassed
<1>2. CASE ~Fill!Accepted(worker[x].seen, Fill!PassedRow(x))
  <2>1. Fill!Finish(x) /\ UNCHANGED <<backfill, passed>> BY <1>2 DEF Fill!SavePassed
  <2>2. FillTypes' BY <1>1, <2>1, FinishTypes DEF FillInv, FillTypes
  <2>3. PassedIsEmbedded' BY <1>1, <2>1 DEF FillInv, PassedIsEmbedded
  <2> QED BY <1>1, <2>1, <2>2, <2>3, FillEnds
<1>3. CASE Fill!Accepted(worker[x].seen, Fill!PassedRow(x))
  <2>1. PICK o \in FillWorker : o = worker[x] BY DEF FillInv, FillTypes
  <2>2. FillWorkerOk(o, passed, vector) /\ o.pc = "save" BY <2>1 DEF FillInv, Fill!SavePassed
  <2>3. o.page # <<>> /\ o.page \in Seq(Item) BY <2>2 DEF FillWorkerOk, FillWorker
  <2>4. o.page[1] \in Item /\ Head(o.page) = o.page[1] /\ Tail(o.page) \in Seq(Item) BY <2>3
  <2>5. PICK id \in Fill!Ids : id = o.page[1].id BY <2>4 DEF Item
  <2>6. id \in Nat BY DEF Fill!Ids
  <2>7. vector[id] # 0 BY <2>2, <2>5 DEF FillWorkerOk
  <2>8. PICK seen \in FillRow : seen = o.seen BY DEF FillWorker
  <2>9. PICK rec : rec = Fill!PassedRow(x) OBVIOUS
  <2>10. rec = [seen EXCEPT !.version = @ + 1, !.attempted = @ + 1, !.cursor = id,
                            !.generated = @ + (IF o.fresh THEN 1 ELSE 0),
                            !.skipped = @ + (IF o.fresh THEN 0 ELSE 1)]
    BY <2>1, <2>4, <2>5, <2>8, <2>9 DEF Fill!PassedRow
  <2>11. rec \in FillRow /\ rec.cursor = id
    <3>1. /\ seen.version + 1 \in Nat /\ seen.attempted + 1 \in Nat
          /\ seen.generated + (IF o.fresh THEN 1 ELSE 0) \in Nat
          /\ seen.skipped + (IF o.fresh THEN 0 ELSE 1) \in Nat
      BY DEF FillRow
    <3> QED BY <2>6, <2>10, <3>1 DEF FillRow
  <2>12. PICK pc \in FillPc : pc = IF Tail(o.page) = <<>> THEN "loop" ELSE "find" BY DEF FillPc
  <2>13. PICK n : n = [o EXCEPT !.seen = rec, !.cursor = id, !.page = Tail(o.page), !.items = @ + 1,
                                !.pc = pc] OBVIOUS
  <2>14. n \in FillWorker /\ n.pc = pc /\ n.page = Tail(o.page) /\ n.seen = rec
    <3>1. o.items + 1 \in Nat BY DEF FillWorker
    <3> QED BY <2>4, <2>6, <2>11, <2>13, <3>1 DEF FillWorker
  <2>15. /\ backfill' = rec
         /\ passed' = Append(passed, id)
         /\ worker' = [worker EXCEPT ![x] = n]
    <3>1. backfill' = rec /\ passed' = Append(passed, id)
      BY <1>3, <2>1, <2>4, <2>5, <2>9 DEF Fill!SavePassed
    <3>2. worker' = [worker EXCEPT ![x].seen = rec, ![x].cursor = id, ![x].page = Tail(o.page),
                                   ![x].items = @ + 1, ![x].pc = pc]
      BY <1>3, <2>1, <2>4, <2>5, <2>9, <2>12 DEF Fill!SavePassed
    <3> QED BY <2>1, <2>13, <3>1, <3>2
  <2>16. passed \in Seq(Fill!Ids) BY DEF FillInv, FillTypes
  <2>17. /\ passed' \in Seq(Fill!Ids)
         /\ DOMAIN passed' = 1..(Len(passed) + 1) /\ Len(passed) \in Nat
         /\ DOMAIN passed = 1..Len(passed)
         /\ passed'[Len(passed) + 1] = id
         /\ \A i \in 1..Len(passed) : passed'[i] = passed[i]
    BY <2>15, <2>16
  <2>18. \A i \in DOMAIN passed : i \in DOMAIN passed' /\ passed'[i] = passed[i] BY <2>17
  <2>19. Reached(id, passed') BY <2>17 DEF Reached
  <2>20. FillWorkerOk(n, passed', vector')
    BY <2>11, <2>12, <2>14, <2>19 DEF FillWorkerOk
  <2>21. FillTypes' BY <1>1, <2>11, <2>14, <2>15, <2>17 DEF FillInv, FillTypes
  <2>22. PassedIsEmbedded'
    <3>1. \A i \in DOMAIN passed' : vector'[passed'[i]] # 0
      <4>1. ASSUME NEW i \in DOMAIN passed' PROVE vector[passed'[i]] # 0
        <5>1. CASE i = Len(passed) + 1 BY <5>1, <2>7, <2>17
        <5>2. CASE i # Len(passed) + 1
          <6>1. i \in DOMAIN passed BY <5>2, <2>17
          <6> QED BY <6>1, <2>17 DEF FillInv, PassedIsEmbedded
        <5> QED BY <5>1, <5>2
      <4> QED BY <4>1, <1>1
    <3>2. backfill'.cursor = id BY <2>11, <2>15
    <3> QED BY <3>1, <3>2, <2>19 DEF PassedIsEmbedded, Reached
  <2> QED BY <1>1, <2>14, <2>15, <2>18, <2>20, <2>21, <2>22, FillMoves
<1> QED BY <1>2, <1>3

LEMMA FillStep == FillInv /\ [Fill!Next]_(Fill!vars) => FillInv'
<1> SUFFICES ASSUME FillInv, [Fill!Next]_(Fill!vars) PROVE FillInv' OBVIOUS
<1>1. CASE UNCHANGED Fill!vars
  BY <1>1 DEF Fill!vars, FillInv, FillTypes, PassedIsEmbedded
<1>2. ASSUME NEW v \in Fill!Ids, Fill!Relist(v) PROVE FillInv'
  <2>1. eligible' \subseteq Fill!Ids BY <1>2 DEF Fill!Relist, FillInv, FillTypes
  <2>2. UNCHANGED <<doc, vector, backfill, passed, worker>> BY <1>2 DEF Fill!Relist
  <2> QED BY <2>1, <2>2 DEF FillInv, FillTypes, PassedIsEmbedded
<1>3. ASSUME NEW v \in Fill!Ids, Fill!Revise(v) PROVE FillInv'
  <2>1. doc' \in [Fill!Ids -> Positive] BY <1>3 DEF Fill!Revise, FillInv, FillTypes, Positive
  <2>2. UNCHANGED <<eligible, vector, backfill, passed, worker>> BY <1>3 DEF Fill!Revise
  <2> QED BY <2>1, <2>2 DEF FillInv, FillTypes, PassedIsEmbedded
<1>4. ASSUME NEW x \in Workers, Fill!StopAtBudget(x) \/ Fill!Abort(x) PROVE FillInv'
  <2>1. Fill!Finish(x) /\ UNCHANGED <<eligible, doc, vector, backfill, passed>>
    BY <1>4 DEF Fill!StopAtBudget, Fill!Abort
  <2>2. FillTypes' BY <2>1, FinishTypes DEF FillInv, FillTypes
  <2>3. PassedIsEmbedded' BY <2>1 DEF FillInv, PassedIsEmbedded
  <2> QED BY <2>1, <2>2, <2>3, FillEnds
<1> QED
  BY <1>1, <1>2, <1>3, <1>4, FillStart, FillListPage, FillFindVector, FillEmbed, FillEmbedFails,
     FillSaveFailed, FillSavePassed, FillComplete
     DEF Fill!Next

(* Whatever fails, stops or overlaps, and however the listings and their   *)
(* documents change meanwhile, the backfill's cursor never stands on or    *)
(* beyond a version it was moved to without that version's vector          *)
(* (embedding-backfill.ts advances it only after the vector write).        *)
THEOREM VectorsBeforeCursor == Fill!Spec => []PassedIsEmbedded
<1>1. FillInv => PassedIsEmbedded BY DEF FillInv
<1> QED BY <1>1, FillInit, FillStep, PTL DEF Fill!Spec
=============================================================================
