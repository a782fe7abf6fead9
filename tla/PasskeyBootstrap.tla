-------------------------- MODULE PasskeyBootstrap --------------------------
(***************************************************************************)
(* Activating a new passkey wallet from the browser                        *)
(* (apps/web/src/lib/passkey-bootstrap.ts).  The first action of a wallet  *)
(* registers its key, so it must not be sent twice; the page keeps one     *)
(* public record in local storage and may be reloaded at any moment, also  *)
(* while a request of it is on its way.  The relay gives every accepted    *)
(* action a calls ID, here its position in relay.  OneFirstAction is the   *)
(* promise of CreatorPromise.                                              *)
(***************************************************************************)
EXTENDS Naturals, Sequences

CONSTANTS Wallets, MaxCalls, MaxReloads, None

VARIABLES saved,      \* the record in local storage, None before the first
          relay,      \* actions the relay accepted: wallet and status
          inFlight,   \* wallets with an action sent by a page that is gone
          page,       \* the page: what it does and the record it works with
          reloads

vars == <<saved, page, relay, inFlight, reloads>>

Idle == [pc |-> "idle", rec |-> None, signIn |-> FALSE]

(* createUnregisteredPasskeyBootstrapRecord *)
Unregistered(w) == [wallet |-> w, calls |-> 0, hash |-> FALSE, status |-> "unregistered"]

Init == /\ saved = None /\ page = Idle /\ relay = <<>> /\ inFlight = {} /\ reloads = 0

-----------------------------------------------------------------------------
(* The relay: an accepted action is confirmed, or it fails, with a receipt  *)
(* when it reached the chain.                                                *)

Accepted(w) == Append(relay, [wallet |-> w, status |-> "pending"])

Settle(i) ==
  /\ relay[i].status = "pending"
  /\ \E st \in {"confirmed", "failed", "reverted"} : relay' = [relay EXCEPT ![i].status = st]
  /\ UNCHANGED <<saved, page, inFlight, reloads>>

(* An action sent by a page that is gone still reaches the relay. *)
Arrive(w) ==
  /\ w \in inFlight /\ Len(relay) < MaxCalls
  /\ relay' = Accepted(w) /\ inFlight' = inFlight \ {w}
  /\ UNCHANGED <<saved, page, reloads>>

-----------------------------------------------------------------------------
(* relayRecord: a failure with a receipt is unknown, not failed. *)
RelayRecord(rec, st) ==
  [rec EXCEPT !.status = CASE st = "reverted" -> "unknown" [] OTHER -> st,
              !.hash = @ \/ st \in {"confirmed", "reverted"}]

Unknown(rec) == [rec EXCEPT !.status = "unknown"]

Persist(rec) == saved' = rec

Stop(rec) == page' = [Idle EXCEPT !.signIn = rec.status = "confirmed"]

(* Mutation: nothing is stored before the action is sent. *)
MarkIntentLater(rec) == /\ page' = [page EXCEPT !.pc = "execute", !.rec = rec]
                        /\ UNCHANGED saved

(* The intent is stored before the writer is called. *)
MarkIntent(rec) ==
  LET intent == [rec EXCEPT !.calls = 0, !.hash = FALSE, !.status = "unknown"]
  IN Persist(intent) /\ page' = [page EXCEPT !.pc = "execute", !.rec = intent]

(* activateFreshPasskeyWallet up to its first await. *)
Activate(w) ==
  /\ page.pc = "idle" /\ Len(relay) < MaxCalls
  /\ LET rec == IF saved = None THEN Unregistered(w) ELSE saved
     IN IF rec.wallet # w
        THEN Persist(Unknown(Unregistered(w))) /\ Stop(Unregistered(w))
        ELSE IF rec.status = "confirmed" \/ (rec.status = "unknown" /\ rec.calls = 0)
        THEN Stop(rec) /\ UNCHANGED saved
        ELSE IF rec.calls # 0
        THEN page' = [page EXCEPT !.pc = "read", !.rec = rec] /\ UNCHANGED saved
        ELSE MarkIntent(rec)
  /\ UNCHANGED <<relay, inFlight, reloads>>

(* The caller knows from the chain that the wallet is registered. *)
AlreadyRegistered(w) ==
  /\ page.pc = "idle"
  /\ \E i \in DOMAIN relay : relay[i] = [wallet |-> w, status |-> "confirmed"]
  /\ saved # None => saved.wallet = w
  /\ LET rec == [(IF saved = None THEN Unregistered(w) ELSE saved) EXCEPT !.status = "confirmed"]
     IN Persist(rec) /\ Stop(rec)
  /\ UNCHANGED <<relay, inFlight, reloads>>

(* Only a failure the relay confirms lets the same activation send again. *)
ReadStatus ==
  /\ page.pc = "read"
  /\ \/ LET rec == RelayRecord(page.rec, relay[page.rec.calls].status)
        IN IF rec.status = "failed" THEN MarkIntent(rec) ELSE Persist(rec) /\ Stop(rec)
     \/ Persist(Unknown(page.rec)) /\ Stop(Unknown(page.rec))
  /\ UNCHANGED <<relay, inFlight, reloads>>

Known(st) == [page.rec EXCEPT !.calls = Len(relay) + 1, !.status = st, !.hash = st = "confirmed"]

(* The SDK's execute returns: with the calls ID and a status, with an error
   that carries the ID, with one that does not, or refused before sending
   for want of gas. *)
Execute ==
  /\ page.pc = "execute"
  /\ \/ /\ Len(relay) < MaxCalls
        /\ \/ /\ relay' = Accepted(page.rec.wallet)
              /\ \/ Persist(Known("pending")) /\ page' = [page EXCEPT !.pc = "confirm", !.rec = Known("pending")]
                 \/ Persist(Known("unknown")) /\ Stop(Known("unknown"))
                 \/ Persist(page.rec) /\ Stop(page.rec)
           \/ \E st \in {"confirmed", "failed"} :
                /\ relay' = Append(relay, [wallet |-> page.rec.wallet, status |-> st])
                /\ Persist(Known(st)) /\ Stop(Known(st))
     \/ /\ Persist([page.rec EXCEPT !.status = "failed"]) /\ Stop(page.rec) /\ UNCHANGED relay
  /\ UNCHANGED <<inFlight, reloads>>

(* One read right after a pending answer. *)
Confirm ==
  /\ page.pc = "confirm"
  /\ \E rec \in {RelayRecord(page.rec, relay[page.rec.calls].status), Unknown(page.rec)} :
       Persist(rec) /\ Stop(rec)
  /\ UNCHANGED <<relay, inFlight, reloads>>

(* reconcilePasskeyBootstrapRecord, read-only. *)
Reconcile ==
  /\ page.pc = "idle" /\ saved # None
  /\ IF saved.calls = 0 THEN Stop(saved) /\ UNCHANGED saved
     ELSE page' = [page EXCEPT !.pc = "confirm", !.rec = saved] /\ UNCHANGED saved
  /\ UNCHANGED <<relay, inFlight, reloads>>

Reload ==
  /\ page.pc # "idle" /\ reloads < MaxReloads /\ reloads' = reloads + 1
  /\ \/ inFlight' = inFlight \cup (IF page.pc = "execute" THEN {page.rec.wallet} ELSE {})
     \/ UNCHANGED inFlight
  /\ page' = Idle
  /\ UNCHANGED <<saved, relay>>

Next == \/ \E w \in Wallets : Activate(w) \/ AlreadyRegistered(w) \/ Arrive(w)
        \/ ReadStatus \/ Execute \/ Confirm \/ Reconcile \/ Reload
        \/ \E i \in DOMAIN relay : Settle(i)

Spec == Init /\ [][Next]_vars

=============================================================================
