------------------------ MODULE CreatorRegistration ------------------------
(***************************************************************************)
(* Registering a Creator agent's ERC-8004 identity from the browser        *)
(* (apps/web/src/lib: creator-registration.ts and                          *)
(* registerCreatorErc8004Agent of creator-browser-grant.ts).  The page     *)
(* mints an identity and then sets its URI, each behind a reservation the  *)
(* server keeps among the deployment's append-only events; whatever was    *)
(* lost is reconciled from finalized registry reads.  The events are       *)
(* kept as what statusFromEvents reads out of them: the last of each kind. *)
(* One deployment; two transactions, the mint and the URI update.  The     *)
(* page reconciles only after a reservation, so a scan anchor exists; one  *)
(* mint has one log.  SignedOnce and ReconciledIsFinal are the promises of *)
(* CreatorPromise.                                                         *)
(***************************************************************************)
EXTENDS Naturals

CONSTANTS
    Tabs,
    MaxBlock,       \* blocks of the model
    Window,         \* blocks one reconcile scans (reconcileBlockWindow)
    MaxCloses,      \* how often a tab is closed or reloaded
    Reorgs,         \* unfinalized blocks may be replaced
    SdkPending      \* the SDK may answer PENDING for a mined mint

VARIABLES
    log,            \* what the deployment's events say
    bound,          \* the draft's authority is active and not expired
    head, final,    \* the chain's head and its finalized block
    mint, uri,      \* the two transactions on chain
    mints, uris,    \* how often each was signed and sent
    tab,            \* the pages
    closes

vars == <<log, bound, head, final, mint, uri, mints, uris, tab, closes>>
chain == <<head, final, mint, uri, mints, uris>>

NoResult == [st |-> "none", id |-> FALSE, calls |-> FALSE, hash |-> FALSE]
Result(st, id, calls, hash) == [st |-> st, id |-> id, calls |-> calls, hash |-> hash]
NoLog == [mintIntent |-> FALSE, cursor |-> 0, mintResult |-> NoResult, mintRec |-> NoResult,
          uriIntent |-> FALSE, uriResult |-> NoResult, uriRec |-> NoResult, op |-> FALSE]
Unsent == [st |-> "none", blk |-> 0]
Idle == [pc |-> "idle", then |-> "idle", snap |-> NoLog, fin |-> 0, res |-> NoResult]

Init ==
    /\ log = NoLog /\ bound = TRUE
    /\ head = 1 /\ final = 1
    /\ mint = Unsent /\ uri = Unsent /\ mints = 0 /\ uris = 0
    /\ tab = [x \in Tabs |-> Idle] /\ closes = 0

----------------------------------------------------------------------------
(* statusFromEvents: what reconciliation found counts before what the *)
(* browser reported.                                                   *)

MintOutcome(l) == IF l.mintRec # NoResult THEN l.mintRec ELSE l.mintResult

(* Mutation: what the browser reported of the URI update counts first. *)
UriOutcomeReported(l) == IF l.uriResult # NoResult THEN l.uriResult ELSE l.uriRec

UriOutcome(l) == IF l.uriRec # NoResult THEN l.uriRec ELSE l.uriResult

Known(l) == UriOutcome(l).id \/ MintOutcome(l).id
MintHash(l) == MintOutcome(l).hash \/ l.mintResult.hash

State(l) ==
    CASE MintOutcome(l).st = "FAILED" -> "failed"
      [] MintOutcome(l).st \in {"none", "PENDING", "UNKNOWN"} ->
            IF l.mintIntent THEN "mint_pending" ELSE "not_started"
      [] MintOutcome(l).st = "CONFIRMED" /\ ~l.uriIntent -> "mint_confirmed"
      [] MintOutcome(l).st = "CONFIRMED" /\ l.uriIntent /\ UriOutcome(l).st = "FAILED" -> "failed"
      [] MintOutcome(l).st = "CONFIRMED" /\ l.uriIntent /\ UriOutcome(l).st = "CONFIRMED" /\ l.op ->
            "registered"
      [] OTHER -> "uri_pending"

(* Mutation: a reservation without an outcome does not count. *)
CanMintUntilResult(l) == l.mintResult = NoResult /\ l.mintRec = NoResult

CanMint(l) == ~l.mintIntent /\ l.mintResult = NoResult /\ l.mintRec = NoResult

CanSetUri(l) ==
    /\ MintOutcome(l).st = "CONFIRMED"
    /\ ~l.uriIntent /\ l.uriResult = NoResult /\ l.uriRec = NoResult

----------------------------------------------------------------------------
(* The page. *)

Goto(x, pc) == tab' = [tab EXCEPT ![x].pc = pc]
GoPage(x, pc) == tab' = [tab EXCEPT ![x] = [Idle EXCEPT !.pc = pc]]
Reconcile(x, then) == tab' = [tab EXCEPT ![x] = [Idle EXCEPT !.pc = "recStart", !.then = then]]
GiveUp(x) == tab' = [tab EXCEPT ![x] = Idle]

(* The page reads the status and takes up where the registration stands. *)
Start(x) ==
    /\ tab[x] = Idle
    /\ bound
    /\ State(log) \notin {"registered", "failed"}
    /\ CASE CanMint(log) -> Goto(x, "prepareMint")
         [] ~CanMint(log) /\ State(log) = "mint_confirmed" -> GoPage(x, "prepareUri")
         [] State(log) = "uri_pending" ->
                IF UriOutcome(log) # NoResult THEN Reconcile(x, "idle") ELSE GoPage(x, "prepareUri")
         [] OTHER -> Reconcile(x, "uri")
    /\ UNCHANGED <<log, bound, chain, closes>>

(* prepare for the mint: the reservation and its scan anchor are written *)
(* under the deployment's lock, for the first caller only.               *)
PrepareMint(x) ==
    /\ tab[x].pc = "prepareMint"
    /\ IF bound /\ CanMint(log)
       THEN /\ log' = [log EXCEPT !.mintIntent = TRUE, !.cursor = final]
            /\ Goto(x, "signMint")
       ELSE /\ UNCHANGED log
            /\ IF bound THEN Reconcile(x, "uri") ELSE GiveUp(x)
    /\ UNCHANGED <<bound, chain, closes>>

(* The passkey signs and the SDK sends, or nothing is sent. *)
SignMint(x) ==
    /\ tab[x].pc = "signMint"
    /\ \/ /\ mints' = mints + 1
          /\ mint' = IF mint = Unsent THEN [st |-> "pool", blk |-> 0] ELSE mint
          /\ Goto(x, "awaitMint")
       \/ /\ \E st \in {"UNKNOWN", "FAILED"} :
                tab' = [tab EXCEPT ![x].pc = "recordMint",
                                   ![x].res = Result(st, FALSE, FALSE, FALSE)]
          /\ UNCHANGED <<mints, mint>>
    /\ UNCHANGED <<log, bound, head, final, uri, uris, closes>>

(* The SDK's answer, or the error publicSdkError makes public. *)
MintAnswer(x) ==
    /\ tab[x].pc = "awaitMint"
    /\ \E res \in
            {Result("UNKNOWN", FALSE, h, h) : h \in BOOLEAN}
            \cup (IF mint.st = "mined" THEN {Result("CONFIRMED", TRUE, TRUE, TRUE)} ELSE {})
            \cup (IF mint.st = "mined" /\ SdkPending THEN {Result("PENDING", TRUE, TRUE, TRUE)} ELSE {})
            \cup (IF mint.st = "reverted" THEN {Result("FAILED", FALSE, TRUE, TRUE)} ELSE {}) :
        tab' = [tab EXCEPT ![x].pc = "recordMint", ![x].res = res]
    /\ UNCHANGED <<log, bound, chain, closes>>

(* recordResult for the mint: the first outcome stays. *)
RecordMint(x) ==
    /\ tab[x].pc = "recordMint"
    /\ IF bound
       THEN /\ log' = IF MintOutcome(log) = NoResult THEN [log EXCEPT !.mintResult = tab[x].res] ELSE log
            /\ IF State(log') \in {"mint_confirmed", "uri_pending"}
               THEN GoPage(x, "prepareUri")
               ELSE Reconcile(x, "uri")
       ELSE GiveUp(x) /\ UNCHANGED log
    /\ UNCHANGED <<bound, chain, closes>>

(* prepare for the URI: it needs the agent id. *)
PrepareUri(x) ==
    /\ tab[x].pc = "prepareUri"
    /\ IF bound /\ CanSetUri(log) /\ Known(log)
       THEN log' = [log EXCEPT !.uriIntent = TRUE] /\ Goto(x, "signUri")
       ELSE /\ UNCHANGED log
            /\ IF bound /\ Known(log) THEN Reconcile(x, "idle") ELSE GiveUp(x)
    /\ UNCHANGED <<bound, chain, closes>>

SignUri(x) ==
    /\ tab[x].pc = "signUri"
    /\ \/ /\ uris' = uris + 1
          /\ uri' = IF uri = Unsent THEN [st |-> "pool", blk |-> 0] ELSE uri
          /\ Goto(x, "awaitUri")
       \/ /\ \E st \in {"UNKNOWN", "FAILED"} :
                tab' = [tab EXCEPT ![x].pc = "recordUri",
                                   ![x].res = Result(st, TRUE, FALSE, FALSE)]
          /\ UNCHANGED <<uris, uri>>
    /\ UNCHANGED <<log, bound, head, final, mint, mints, closes>>

UriAnswer(x) ==
    /\ tab[x].pc = "awaitUri"
    /\ \E st \in {"UNKNOWN"} \cup (IF uri.st = "mined" THEN {"CONFIRMED", "PENDING"} ELSE {}) :
        tab' = [tab EXCEPT ![x].pc = "recordUri", ![x].res = Result(st, TRUE, TRUE, TRUE)]
    /\ UNCHANGED <<log, bound, chain, closes>>

RecordUri(x) ==
    /\ tab[x].pc = "recordUri"
    /\ IF bound /\ Known(log)
       THEN /\ log' = IF UriOutcome(log) = NoResult THEN [log EXCEPT !.uriResult = tab[x].res] ELSE log
            /\ Reconcile(x, "idle")
       ELSE GiveUp(x) /\ UNCHANGED log
    /\ UNCHANGED <<bound, chain, closes>>

----------------------------------------------------------------------------
(* reconcile.  Events are read, the chain is read at one finalized block, *)
(* and what was found is appended under the lock; other reconciles run in *)
(* between.                                                               *)

ReadEvents(x) ==
    /\ tab[x].pc = "recStart"
    /\ IF bound
       THEN tab' = [tab EXCEPT ![x].pc = "recScan", ![x].snap = log]
       ELSE GiveUp(x)
    /\ UNCHANGED <<log, bound, chain, closes>>

EndReconcile(x) ==
    tab' = [tab EXCEPT ![x] = [Idle EXCEPT !.pc = "recEnd", !.then = tab[x].then]]

(* Append one reconcile event, then go on or stop. *)
AppendThen(x, l, pc) ==
    IF bound
    THEN log' = l /\ (IF pc = "recEnd" THEN EndReconcile(x) ELSE Goto(x, pc))
    ELSE UNCHANGED log /\ GiveUp(x)

ScanTo(from, fin) == IF from + Window - 1 > fin THEN fin ELSE from + Window - 1

NextCursor(from, fin) == ScanTo(from, fin) + 1

(* Mutation: the registry is read at the latest block. *)
LatestBlock == head

FinalizedBlock == final

(* The receipt of a known mint, or the scan for its Registered log. *)
Scan(x) ==
    /\ tab[x].pc = "recScan"
    /\ LET s == tab[x].snap
           reverted == Known(s) /\ MintHash(s) /\ mint.st = "reverted"
           early == MintHash(s) /\ mint.st = "mined" /\ mint.blk > FinalizedBlock
       IN tab' = [tab EXCEPT ![x].fin = FinalizedBlock,
                             ![x].pc = CASE reverted -> "recReverted"
                                         [] ~reverted /\ Known(s) /\ ~early -> "recAgent"
                                         [] ~reverted /\ (~Known(s) \/ early) ->
                                              IF s.cursor > FinalizedBlock THEN "recEnd"
                                              ELSE IF /\ mint.st = "mined"
                                                      /\ s.cursor <= mint.blk
                                                      /\ mint.blk <= ScanTo(s.cursor, FinalizedBlock)
                                                   THEN "recFound" ELSE "recNotFound"]
    /\ UNCHANGED <<log, bound, chain, closes>>

AppendReverted(x) ==
    /\ tab[x].pc = "recReverted"
    /\ AppendThen(x, [log EXCEPT !.mintRec = Result("FAILED", TRUE, FALSE, TRUE)], "recEnd")
    /\ UNCHANGED <<bound, chain, closes>>

AppendFound(x) ==
    /\ tab[x].pc = "recFound"
    /\ AppendThen(x, [log EXCEPT !.mintRec = Result("CONFIRMED", TRUE, FALSE, TRUE),
                                 !.cursor = mint.blk + 1], "recAgent")
    /\ UNCHANGED <<bound, chain, closes>>

AppendNotFound(x) ==
    /\ tab[x].pc = "recNotFound"
    /\ AppendThen(x, [log EXCEPT !.mintRec = Result("PENDING", FALSE, FALSE, MintHash(tab[x].snap)),
                                 !.cursor = NextCursor(tab[x].snap.cursor, tab[x].fin)], "recEnd")
    /\ UNCHANGED <<bound, chain, closes>>

(* readAgent at the finalized block. *)
ReadAgent(x) ==
    /\ tab[x].pc = "recAgent"
    /\ IF mint.st = "mined" /\ mint.blk <= tab[x].fin
       THEN tab' = [tab EXCEPT ![x].snap = log,
                               ![x].pc = IF ~MintOutcome(log).calls \/ ~Known(log)
                                         THEN "recMint" ELSE "recUri"]
       ELSE Goto(x, "recUnreadable")
    /\ UNCHANGED <<log, bound, chain, closes>>

AppendUnreadable(x) ==
    /\ tab[x].pc = "recUnreadable"
    /\ AppendThen(x, [log EXCEPT !.mintRec = Result("UNKNOWN", TRUE, FALSE, MintHash(tab[x].snap))], "recEnd")
    /\ UNCHANGED <<bound, chain, closes>>

AppendMintConfirmed(x) ==
    /\ tab[x].pc = "recMint"
    /\ AppendThen(x, [log EXCEPT !.mintRec =
                        Result("CONFIRMED", TRUE, MintOutcome(tab[x].snap).calls, TRUE)], "recReread")
    /\ UNCHANGED <<bound, chain, closes>>

Reread(x) ==
    /\ tab[x].pc = "recReread"
    /\ tab' = [tab EXCEPT ![x].snap = log, ![x].pc = "recUri"]
    /\ UNCHANGED <<log, bound, chain, closes>>

(* The registry's URI is compared with the final one once a URI *)
(* reservation exists, with the minted one before.              *)
CompareUri(x) ==
    /\ tab[x].pc = "recUri"
    /\ LET s == tab[x].snap
           updated == uri.st = "mined" /\ uri.blk <= tab[x].fin
       IN Goto(x, CASE State(s) \in {"failed", "mint_pending"} -> "recEnd"
                    [] State(s) \notin {"failed", "mint_pending"} /\ updated # s.uriIntent -> "recUriUnknown"
                    [] State(s) \notin {"failed", "mint_pending"} /\ ~updated /\ ~s.uriIntent -> "recEnd"
                    [] State(s) = "registered" /\ updated /\ s.uriIntent -> "recIdentity"
                    [] OTHER -> "recUriConfirmed")
    /\ UNCHANGED <<log, bound, chain, closes>>

AppendUriUnknown(x) ==
    /\ tab[x].pc = "recUriUnknown"
    /\ AppendThen(x, [log EXCEPT !.uriRec = Result("UNKNOWN", TRUE, FALSE, FALSE)], "recEnd")
    /\ UNCHANGED <<bound, chain, closes>>

AppendUriConfirmed(x) ==
    /\ tab[x].pc = "recUriConfirmed"
    /\ AppendThen(x, [log EXCEPT !.uriRec = Result("CONFIRMED", TRUE, FALSE, FALSE)], "recIdentity")
    /\ UNCHANGED <<bound, chain, closes>>

(* finalizedIdentity and appendOperation: the directory has stored the *)
(* identity with this URI, or has not got there yet.                   *)
AppendOperation(x) ==
    /\ tab[x].pc = "recIdentity"
    /\ \/ uri.st = "mined" /\ uri.blk <= final /\ AppendThen(x, [log EXCEPT !.op = TRUE], "recEnd")
       \/ EndReconcile(x) /\ UNCHANGED log
    /\ UNCHANGED <<bound, chain, closes>>

(* The status a reconcile returns decides whether the page goes on. *)
Return(x) ==
    /\ tab[x].pc = "recEnd"
    /\ IF /\ tab[x].then = "uri" /\ Known(log)
          /\ State(log) \in {"mint_confirmed", "uri_pending"}
       THEN GoPage(x, "prepareUri")
       ELSE GiveUp(x)
    /\ UNCHANGED <<log, bound, chain, closes>>

----------------------------------------------------------------------------
(* The world. *)

CloseTab(x) ==
    /\ closes < MaxCloses
    /\ tab[x] # Idle
    /\ closes' = closes + 1
    /\ GiveUp(x)
    /\ UNCHANGED <<log, bound, chain>>

(* The authority is revoked or expires. *)
Unbind ==
    /\ bound
    /\ bound' = FALSE
    /\ UNCHANGED <<log, chain, tab, closes>>

Included(tx) == [st |-> "mined", blk |-> head + 1]

(* A block with some of the waiting transactions; the mint may revert. *)
Mine ==
    /\ head < MaxBlock
    /\ head' = head + 1
    /\ mint' \in {mint} \cup (IF mint.st = "pool"
                              THEN {Included(mint), [st |-> "reverted", blk |-> head + 1]} ELSE {})
    /\ uri' \in {uri} \cup (IF uri.st = "pool" THEN {Included(uri)} ELSE {})
    /\ UNCHANGED <<log, bound, final, mints, uris, tab, closes>>

Finalize ==
    /\ final < head
    /\ final' = final + 1
    /\ UNCHANGED <<log, bound, head, mint, uri, mints, uris, tab, closes>>

(* An unfinalized transaction goes back to the pool. *)
Reorg ==
    /\ Reorgs
    /\ \/ mint.st = "mined" /\ mint.blk > final /\ mint' = [st |-> "pool", blk |-> 0] /\ UNCHANGED uri
       \/ uri.st = "mined" /\ uri.blk > final /\ uri' = [st |-> "pool", blk |-> 0] /\ UNCHANGED mint
    /\ UNCHANGED <<log, bound, head, final, mints, uris, tab, closes>>

ReconcileStep(x) ==
    \/ ReadEvents(x) \/ Scan(x) \/ AppendReverted(x) \/ AppendFound(x) \/ AppendNotFound(x)
    \/ ReadAgent(x) \/ AppendUnreadable(x) \/ AppendMintConfirmed(x) \/ Reread(x)
    \/ CompareUri(x) \/ AppendUriUnknown(x) \/ AppendUriConfirmed(x) \/ AppendOperation(x)
    \/ Return(x)

(* What the page does by itself, and what its creator decides: to ask for *)
(* the registration and to let the passkey sign.                          *)
RunningPage(x) ==
    \/ PrepareMint(x) \/ MintAnswer(x) \/ RecordMint(x)
    \/ PrepareUri(x) \/ UriAnswer(x) \/ RecordUri(x) \/ ReconcileStep(x)

CreatorStep(x) == Start(x) \/ SignMint(x) \/ SignUri(x)

Next ==
    \/ \E x \in Tabs : RunningPage(x) \/ CreatorStep(x) \/ CloseTab(x)
    \/ Unbind \/ Mine \/ Finalize \/ Reorg

Spec == Init /\ [][Next]_vars

=============================================================================
