-------------------------- MODULE CreatorAuthority --------------------------
(***************************************************************************)
(* The scoped Altana authority of a creator's draft.  The creator's page   *)
(* makes a session key, grants it on chain, records its public half and    *)
(* hands the key to the runtime once (apps/web: creator-form.tsx,          *)
(* creator-authority-handoff.ts, creator-local-secret.ts); the server      *)
(* reads the chain before every use of it (packages/altana authority.ts,   *)
(* lifecycle.ts).  One draft: its form keeps one idempotency key, so every *)
(* session prepared on it is an authority of the same draft.  The RPC node *)
(* may lag: a read sees the state of an earlier block.                     *)
(***************************************************************************)
EXTENDS Naturals, FiniteSets

CONSTANTS Sessions,    \* session keys, each prepared by one page
          Requests,    \* server requests handled at the same time
          Window,      \* 60 seconds: the oldest usable observation
          Lifetime,    \* 3600 seconds
          MaxTime,     \* bound
          None

VARIABLES clock,
          issued,      \* grantIssuedAtUnix of the reviewed options
          key,         \* KeyStore: when a session key was registered and revoked
          rows,        \* agent_authorities of the draft, by session
          latest,      \* the row updated last
          file,        \* altana-session.json of the draft's runtime
          handed,      \* sessions whose page attempted the handoff
          req          \* requests

vars == <<clock, issued, key, rows, latest, file, handed, req>>

NoKey == [at |-> None, revoked |-> None]
Idle == [pc |-> "idle", op |-> None, s |-> None, at |-> 0, status |-> None]

Init == /\ clock = 0
        /\ issued = [s \in Sessions |-> None]
        /\ key = [s \in Sessions |-> NoKey]
        /\ rows = [s \in Sessions |-> None]
        /\ latest = None /\ file = None /\ handed = {}
        /\ req = [r \in Requests |-> Idle]

Expiry(s) == issued[s] + Lifetime

Tick == /\ clock < MaxTime /\ clock' = clock + 1
        /\ UNCHANGED <<issued, key, rows, latest, file, handed, req>>

-----------------------------------------------------------------------------
(* The creator's pages.                                                      *)

(* prepareAuthority makes a session key and fetches the options the server
   locked, grantCreatorSession registers the key later. *)
Grant(s) ==
  /\ issued[s] = None
  /\ \E t \in {t \in 0..clock : clock < t + Lifetime} : issued' = [issued EXCEPT ![s] = t]
  /\ key' = [key EXCEPT ![s].at = clock]
  /\ UNCHANGED <<clock, rows, latest, file, handed, req>>

(* revokeCreatorSession, from the form or the dashboard. *)
Revoke(s) ==
  /\ key[s].at # None /\ key[s].revoked = None
  /\ key' = [key EXCEPT ![s].revoked = clock]
  /\ UNCHANGED <<clock, issued, rows, latest, file, handed, req>>

(* A row of agent_authorities: its status and whether it has a secret
   reference. *)
Row(status, secret) == [status |-> status, secret |-> secret]

SetRow(s, row) == rows' = [rows EXCEPT ![s] = row] /\ latest' = s

(* recordBrowserAuthority, under the draft's advisory lock: another active
   row refused it. *)
RecordAuthority(s) ==
  /\ key[s].at # None /\ rows[s] = None /\ clock < Expiry(s)
  /\ \A t \in Sessions : rows[t] # None => rows[t].status # "active"
  /\ SetRow(s, Row("active", FALSE))
  /\ UNCHANGED <<clock, issued, key, file, handed, req>>

(* recordBrowserRevocation trusts the page, which waited for the chain. *)
RecordRevocation(s) ==
  /\ rows[s] # None /\ key[s].revoked # None
  /\ SetRow(s, [rows[s] EXCEPT !.status = "revoked"])
  /\ UNCHANGED <<clock, issued, key, file, handed, req>>

-----------------------------------------------------------------------------
(* The server's requests.                                                    *)

Begin(r, op, s, pc) ==
  /\ req[r].pc = "idle"
  /\ req' = [req EXCEPT ![r] = [pc |-> pc, op |-> op, s |-> s, at |-> clock, status |-> None]]
  /\ UNCHANGED <<clock, issued, key, rows, latest, file>>

End(r) == req' = [req EXCEPT ![r] = Idle]

(* handoffCreatorSession posts the key exactly once; handoffCreatorAuthority
   asks for an active row and for the session the row describes. *)
Handoff(r, s) ==
  /\ s \notin handed /\ rows[s] # None
  /\ handed' = handed \cup {s}
  /\ IF rows[s].status = "active" /\ clock < Expiry(s)
     THEN Begin(r, "handoff", s, "existing")
     ELSE UNCHANGED <<clock, issued, key, rows, latest, file, req>>

(* The store decodes only a row with a secret reference. *)
Stored(s) == rows[s] # None /\ rows[s].secret

(* readCreatorAuthority *)
Read(r, s) == Stored(s) /\ Begin(r, "read", s, "observe") /\ UNCHANGED handed

(* confirmCreatorAuthority looks at the draft's latest row. *)
Existing(r) ==
  /\ req[r].pc = "existing"
  /\ IF ~rows[latest].secret THEN req' = [req EXCEPT ![r].pc = "observe"]
     ELSE IF latest = req[r].s THEN req' = [req EXCEPT ![r].pc = "observe", ![r].op = "read"]
     ELSE End(r)
  /\ UNCHANGED <<clock, issued, key, rows, latest, file, handed>>

(* Mutation: the answer is dated by the server's clock, not by its block. *)
ObservedAtNow(block) == clock

ObservedAt(block) == block

(* The gateway: the state of the key at a block. *)
StatusAt(s, block) ==
  IF clock >= Expiry(s) THEN "expired"
  ELSE IF key[s].revoked # None /\ key[s].revoked <= block THEN "revoked"
  ELSE IF Expiry(s) <= block THEN "expired" ELSE "active"

(* assertBoundFreshObservation *)
IsFresh(block, now) == ObservedAt(block) <= now /\ now <= ObservedAt(block) + Window

(* effectiveObservation *)
Effective(s, block, at) ==
  IF at >= Expiry(s) /\ StatusAt(s, block) = "active" THEN "expired" ELSE StatusAt(s, block)

Reference(r, st) == req' = [req EXCEPT ![r].pc = "put", ![r].status = st]

(* A handoff goes on with an active key only; a read keeps what it saw. *)
Observe(r, block) ==
  LET s == req[r].s
  IN /\ req[r].pc = "observe" /\ key[s].at <= block
     /\ IF ~IsFresh(block, req[r].at) THEN End(r)
        ELSE IF req[r].op = "read" THEN Reference(r, Effective(s, block, req[r].at))
        ELSE IF StatusAt(s, block) = "active" THEN req' = [req EXCEPT ![r].pc = "sink"]
        ELSE End(r)
     /\ UNCHANGED <<clock, issued, key, rows, latest, file, handed>>

(* revokeCreatorAuthority only records what the chain says, dated when the
   answer arrives. *)
ConfirmRevocation(s, block) ==
  /\ Stored(s) /\ IsFresh(block, clock) /\ StatusAt(s, block) = "revoked"
  /\ SetRow(s, [rows[s] EXCEPT !.status = "revoked"])
  /\ UNCHANGED <<clock, issued, key, file, handed, req>>

(* requireRuntimeAuthority for a request made at a time: whatever the row
   says, the key is read from the chain.  It changes nothing. *)
Allowed(s, at, block) ==
  /\ Stored(s) /\ key[s].at <= block
  /\ IsFresh(block, at) /\ Effective(s, block, at) = "active"

(* putNewFile: an existing file must hold the same session. *)
PutsNewFile(s) == file \in {None, s}

(* handoffRuntimeSession: the receipt must fall in the life of the session,
   else the file stays and the row has no reference. *)
Sink(r) ==
  /\ req[r].pc = "sink"
  /\ IF PutsNewFile(req[r].s)
     THEN /\ file' = req[r].s
          /\ IF clock < Expiry(req[r].s) THEN Reference(r, "active") ELSE End(r)
     ELSE End(r) /\ UNCHANGED file
  /\ UNCHANGED <<clock, issued, key, rows, latest, handed>>

(* put writes the status read before over whatever the row holds. *)
Put(r) ==
  /\ req[r].pc = "put"
  /\ SetRow(req[r].s, Row(req[r].status, TRUE))
  /\ End(r)
  /\ UNCHANGED <<clock, issued, key, file, handed>>

(* The server process stops. *)
Crash(r) == /\ req[r].pc # "idle" /\ End(r)
            /\ UNCHANGED <<clock, issued, key, rows, latest, file, handed>>

Page(s) == Grant(s) \/ Revoke(s) \/ RecordAuthority(s) \/ RecordRevocation(s)

Server(r) == \/ \E s \in Sessions : Handoff(r, s) \/ Read(r, s)
             \/ \E block \in 0..clock : Observe(r, block)
             \/ Existing(r) \/ Sink(r) \/ Put(r) \/ Crash(r)

Next == \/ Tick
        \/ \E s \in Sessions : Page(s) \/ \E block \in 0..clock : ConfirmRevocation(s, block)
        \/ \E r \in Requests : Server(r)

Spec == Init /\ [][Next]_vars

-----------------------------------------------------------------------------
(* "a cached `active` state is not enough" (lifecycle.ts): the runtime may act
   only while the session lives, with its own key in the runtime's file, and
   no later than the observation window after its revocation on chain, also
   when a late put wrote `active` over a recorded revocation or two sessions
   were handed over for one draft. *)
UsedAuthorityIsLive ==
  \A s \in Sessions, at, block \in 0..clock :
    Allowed(s, at, block) =>
      /\ at < Expiry(s) /\ file = s
      /\ key[s].revoked = None \/ at < key[s].revoked + Window
=============================================================================
