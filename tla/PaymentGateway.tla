--------------------------- MODULE PaymentGateway ---------------------------
(***************************************************************************)
(* The B402 payment repository (packages/payment-gateway): attempts that   *)
(* move from a challenge to a delivery, their receipts, idempotent         *)
(* actions, reconciliations and the replay store.  A call checks its       *)
(* request at once, then queues for the serialized transaction that        *)
(* commits it; a commit refused rolls every map back to the snapshot taken *)
(* when the transaction began, a few turns of the event loop later.        *)
(***************************************************************************)
EXTENDS Naturals, FiniteSets

CONSTANTS Attempts, Challenges, Keys, ReceiptIds,
          Missing,    \* no record of the kind (undefined)
          Callers,    \* concurrent calls of the repository
          Statuses,   \* the statuses the calls ask for
          Observed,   \* the statuses of the receipts the facilitator reports
          Outside,    \* the operations outside transactions that are called
          MaxCalls    \* bound on the calls

VARIABLES db,       \* the maps: attempts, actions, receipts, challenges, reconciliations
          relays,   \* relay starts of each attempt (history)
          replay,   \* the replay store: the reservation of each attempt's authorization
          call,     \* the calls in progress
          late,     \* the challenges have expired
          calls     \* calls made

vars == <<db, replay, call, late, calls, relays>>

allowedTransitions ==
  [challenged         |-> {"authorized", "rejected", "expired"},
   authorized         |-> {"relay_pending", "rejected", "expired"},
   relay_pending      |-> {"relayed", "unknown", "partial_failure"},
   relayed            |-> {"settlement_pending", "unknown", "partial_failure"},
   settlement_pending |-> {"settled", "unknown", "partial_failure"},
   settled            |-> {"delivered", "partial_failure"},
   delivered          |-> {},
   rejected           |-> {},
   expired            |-> {},
   unknown            |-> {"settlement_pending", "manual_review"},
   partial_failure    |-> {"settlement_pending", "manual_review"},
   manual_review      |-> {}]

allowedReconciliationTransitions ==
  [pending |-> {"in_progress", "reconciled", "failed", "manual_review"},
   in_progress |-> {"reconciled", "failed", "manual_review"},
   reconciled |-> {}, failed |-> {"in_progress", "manual_review"}, manual_review |-> {}]

(* A receipt that validateReceipt accepts for the attempt: its terms are
   those of the pin, and a settled one names a transaction and a verified
   payout; answered when the seller's response had a 2xx status. *)
Receipts == [status : {"settled", "rejected", "unknown", "partial_failure"}, id : ReceiptIds, answered : BOOLEAN]

NoCall == [pc |-> "idle", op |-> Missing, k |-> Missing, a |-> Missing,
           expected |-> Missing, next |-> Missing,
           receipt |-> Missing, snapshot |-> Missing]

-----------------------------------------------------------------------------
(* The challenge, the authorization and the relay request that the caller
   presents have the terms of the pin; what can change is the clock. *)
validateChallenge == ~late

validateAuthorization == validateChallenge

validateRelayRequest(att) == validateChallenge /\ att.auth

(* Mutation: any receipt confirms a settlement. *)
assertAnyReceipt(att, next, receipt, reconciled) ==
  /\ next \in allowedTransitions[att.status]
  /\ next \in {"settled", "delivered"} => receipt # Missing
  /\ next \in {"authorized", "relay_pending", "relayed"} => ~late
  /\ next = "relay_pending" => att.auth

(* assertPaymentTransition; reconciled says that a trusted reconciler
   confirmed the outcome. *)
assertPaymentTransition(att, next, receipt, reconciled) ==
  /\ next \in allowedTransitions[att.status]
  /\ att.status \in {"unknown", "partial_failure"} /\ next = "settlement_pending" => reconciled
  /\ next \in {"settled", "delivered"} => receipt # Missing /\ receipt.status = "settled"
  /\ next = "delivered" => receipt.answered
  /\ next = "authorized" => validateAuthorization
  /\ next = "relay_pending" => att.auth /\ ~late
  /\ next = "relayed" => validateRelayRequest(att)
  /\ next = "expired" => late

(* transitionPaymentAttempt *)
Moved(att, next) == [att EXCEPT !.status = next, !.auth = @ \/ next = "authorized"]

(* applyReceiptToMaps: a receipt is kept, may once resolve an ambiguous one
   into a settlement, and its identifier belongs to one attempt. *)
ReceiptOk(a, r) ==
  \/ r = Missing
  \/ db.receipts[a] = r
  \/ db.receipts[a] # Missing /\ db.receipts[a].status \in {"unknown", "partial_failure"} /\ r.status = "settled"
  \/ db.receipts[a] = Missing /\ \A b \in Attempts : db.receipts[b] # Missing => db.receipts[b].id # r.id

WithReceipt(a, r) == IF r = Missing THEN db.receipts ELSE [db.receipts EXCEPT ![a] = r]

-----------------------------------------------------------------------------
(* Calls: the checks made before the transaction. *)

Begin(p, record) == /\ call[p].pc = "idle"
                    /\ calls < MaxCalls
                    /\ calls' = calls + 1
                    /\ call' = [call EXCEPT ![p] = record]

(* create: a key already used answers the earlier action or a conflict. *)
Create(p, a, c, k) ==
  /\ db.actions[k] = Missing
  /\ validateChallenge
  /\ db.att[a] = Missing
  /\ \A b \in Attempts : db.att[b] # Missing => db.att[b].challenge # c
  /\ Begin(p, [NoCall EXCEPT !.pc = "commit", !.op = "create", !.k = k, !.a = a,
                             !.next = [status |-> "challenged", challenge |-> c, auth |-> FALSE]])
  /\ UNCHANGED <<db, replay, late, relays>>

Transition(p, a, next, k, receipt, reconciled) ==
  /\ db.actions[k] = Missing
  /\ db.att[a] # Missing
  /\ assertPaymentTransition(db.att[a], next, receipt, reconciled)
  /\ Begin(p, [NoCall EXCEPT !.pc = "commit", !.op = "transition", !.k = k, !.a = a, !.expected = db.att[a],
                             !.next = Moved(db.att[a], next), !.receipt = receipt])
  /\ UNCHANGED <<db, replay, late, relays>>

(* saveReceipt and recordSettlement *)
SaveReceipt(p, a, receipt) ==
  /\ Begin(p, [NoCall EXCEPT !.pc = "commit", !.op = "receipt", !.a = a, !.receipt = receipt])
  /\ UNCHANGED <<db, replay, late, relays>>

-----------------------------------------------------------------------------
(* The transaction. *)

(* transactionTail: one transaction at a time. *)
MyTurn(p) == call[p].pc = "commit" /\ \A q \in Callers : call[q].pc # "rollback"

(* Mutation: the attempt read before is not compared again. *)
CommitOkBlind(c) ==
  IF c.op = "receipt" THEN db.att[c.a] # Missing /\ ReceiptOk(c.a, c.receipt)
  ELSE db.actions[c.k] = Missing /\ ReceiptOk(c.a, c.receipt)

(* unit.commit and unit.saveReceipt: compare-and-set on the attempt, then
   the action key, then the receipt. *)
CommitOk(c) ==
  IF c.op = "receipt" THEN db.att[c.a] # Missing /\ ReceiptOk(c.a, c.receipt)
  ELSE /\ db.att[c.a] = c.expected
       /\ db.actions[c.k] = Missing
       /\ ReceiptOk(c.a, c.receipt)

Committed(c) ==
  IF c.op = "receipt" THEN [db EXCEPT !.receipts = WithReceipt(c.a, c.receipt)]
  ELSE [db EXCEPT !.att[c.a] = c.next,
                  !.actions[c.k] = [op |-> c.op, a |-> c.a, next |-> c.next.status],
                  !.receipts = WithReceipt(c.a, c.receipt),
                  !.challenges = IF c.op = "create" THEN @ \cup {c.next.challenge} ELSE @]

Commit(p) ==
  /\ MyTurn(p)
  /\ IF CommitOk(call[p])
     THEN /\ db' = Committed(call[p])
          /\ relays' = IF call[p].op = "transition" /\ call[p].next.status = "relay_pending"
                       THEN [relays EXCEPT ![call[p].a] = @ + 1] ELSE relays
          /\ call' = [call EXCEPT ![p] = NoCall]
     ELSE /\ call' = [call EXCEPT ![p].pc = "rollback", ![p].snapshot = db]
          /\ UNCHANGED <<db, relays>>
  /\ UNCHANGED <<replay, late, calls>>

Rollback(p) ==
  /\ call[p].pc = "rollback"
  /\ db' = call[p].snapshot
  /\ call' = [call EXCEPT ![p] = NoCall]
  /\ UNCHANGED <<replay, late, calls, relays>>

-----------------------------------------------------------------------------
(* Operations outside the transaction. *)

SaveChallenge(c) ==
  /\ c \notin db.challenges
  /\ db' = [db EXCEPT !.challenges = @ \cup {c}]
  /\ UNCHANGED <<replay, call, late, calls, relays>>

Enqueue(a) ==
  /\ db.recon[a] = Missing
  /\ db' = [db EXCEPT !.recon[a] = "pending"]
  /\ UNCHANGED <<replay, call, late, calls, relays>>

UpdateReconciliation(a, next) ==
  /\ db.recon[a] # Missing
  /\ next \in allowedReconciliationTransitions[db.recon[a]]
  /\ db' = [db EXCEPT !.recon[a] = next]
  /\ UNCHANGED <<replay, call, late, calls, relays>>

(* The replay store: reserve before the relay, then consume or reject. *)
Reserve(a) ==
  /\ db.att[a] # Missing /\ db.att[a].auth
  /\ ~late
  /\ replay[a] = Missing
  /\ replay' = [replay EXCEPT ![a] = "inflight"]
  /\ UNCHANGED <<db, call, late, calls, relays>>

(* markConsumed and markRejected *)
MarkTerminal(a, state) ==
  /\ replay[a] = "inflight"
  /\ replay' = [replay EXCEPT ![a] = state]
  /\ UNCHANGED <<db, call, late, calls, relays>>

Tick == ~late /\ late' = TRUE /\ UNCHANGED <<db, replay, call, calls, relays>>

Init ==
  /\ db = [att |-> [a \in Attempts |-> Missing], actions |-> [k \in Keys |-> Missing],
           receipts |-> [a \in Attempts |-> Missing], challenges |-> {}, recon |-> [a \in Attempts |-> Missing]]
  /\ replay = [a \in Attempts |-> Missing]
  /\ call = [p \in Callers |-> NoCall]
  /\ late = FALSE
  /\ calls = 0
  /\ relays = [a \in Attempts |-> 0]

Presented == {r \in Receipts : r.status \in Observed}

Next ==
  \/ \E p \in Callers, a \in Attempts :
       \/ \E c \in Challenges, k \in Keys : Create(p, a, c, k)
       \/ \E s \in Statuses, k \in Keys, r \in Presented \cup {Missing}, b \in BOOLEAN : Transition(p, a, s, k, r, b)
       \/ \E r \in Presented : SaveReceipt(p, a, r)
  \/ \E p \in Callers : Commit(p) \/ Rollback(p)
  \/ "challenge" \in Outside /\ \E c \in Challenges : SaveChallenge(c)
  \/ "reconciliation" \in Outside /\ \E a \in Attempts :
       \/ Enqueue(a)
       \/ \E s \in DOMAIN allowedReconciliationTransitions : UpdateReconciliation(a, s)
  \/ "replay" \in Outside /\ \E a \in Attempts :
       \/ Reserve(a)
       \/ \E s \in {"consumed", "rejected"} : MarkTerminal(a, s)
  \/ Tick

Spec == Init /\ [][Next]_vars

(* The runs number the keys and take them in order: keys are only compared
   for equality, so every other choice is a renaming of one of these. *)
KeysInOrder ==
  LET Taken == {k \in Keys : db.actions[k] # Missing \/ \E p \in Callers : call[p].k = k}
  IN  \A k \in Taken, j \in Keys : j < k => j \in Taken
=============================================================================
