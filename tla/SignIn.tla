------------------------------- MODULE SignIn -------------------------------
(***************************************************************************)
(* Signing in with a wallet (apps/web/src/lib/commerce-auth.ts,            *)
(* packages/auth): the server issues a challenge, the holder signs it with *)
(* the wallet key (SIWE) or with a passkey that is a root key of the       *)
(* wallet on chain, and the proof is exchanged for a session.  Several     *)
(* requests may present the same proof at once.  One domain and one chain. *)
(* Only a holder signs for a wallet; which proofs exist is not kept, a     *)
(* request may present any a holder can have signed by then.               *)
(***************************************************************************)
EXTENDS Naturals, Sequences

CONSTANTS Wallets, Nonces,
          Calls,           \* sign-in requests handled at the same time
          ChallengeTtl,    \* lifetime of a challenge
          SessionTtl,      \* lifetime of a session and of a SIWE message
          MaxAge,          \* maxIssuedAtAgeMs
          MaxTime, MaxSessions,   \* bounds
          None

VARIABLES clock,
          rootKey,     \* the passkey of each wallet on chain: none, root, revoked
          nonces,      \* auth_nonces
          call,        \* the requests
          sessions,    \* auth_sessions
          revokedAt    \* history: when a passkey was revoked

vars == <<clock, rootKey, nonces, call, sessions, revokedAt>>

Idle == [pc |-> "idle", proof |-> None, at |-> 0]

Init == /\ clock = 0
        /\ rootKey \in [Wallets -> {"none", "root"}]
        /\ nonces = [n \in Nonces |-> None]
        /\ sessions = <<>>
        /\ call = [c \in Calls |-> Idle]
        /\ revokedAt = [w \in Wallets |-> None]

-----------------------------------------------------------------------------
Tick == /\ clock < MaxTime /\ clock' = clock + 1
        /\ UNCHANGED <<rootKey, nonces, call, sessions, revokedAt>>

(* A revoked key is not registered again. *)
RegisterKey(w) == /\ rootKey[w] = "none"
                  /\ rootKey' = [rootKey EXCEPT ![w] = "root"]
                  /\ UNCHANGED <<clock, nonces, call, sessions, revokedAt>>

RevokeKey(w) == /\ rootKey[w] = "root"
                /\ rootKey' = [rootKey EXCEPT ![w] = "revoked"]
                /\ revokedAt' = [revokedAt EXCEPT ![w] = clock]
                /\ UNCHANGED <<clock, nonces, call, sessions>>

(* A row of auth_nonces.  The digest of a SIWE challenge holds the wallet it
   was issued for, that of a passkey challenge none. *)
NonceRow(w) == [wallet |-> w, at |-> clock, expires |-> clock + ChallengeTtl, used |-> FALSE]

IssueNonce(n, w) ==
  /\ nonces[n] = None
  /\ nonces' = [nonces EXCEPT ![n] = NonceRow(w)]
  /\ UNCHANGED <<clock, rootKey, call, sessions, revokedAt>>

CreateEoaSiweChallenge(n) == \E w \in Wallets : IssueNonce(n, w)

CreatePasskeyChallenge(n) == IssueNonce(n, None)

(* What holders can have signed: any challenge, also one issued for another
   wallet. *)
Proofs(kind) ==
  {p \in [kind : {kind}, wallet : Wallets, nonce : Nonces, issuedAt : 0..clock] :
     nonces[p.nonce] # None /\ nonces[p.nonce].at <= p.issuedAt}

-----------------------------------------------------------------------------
(* validateSiweRequestWithContext: the age and the lifetime of the message. *)
Timely(p) == p.issuedAt + MaxAge >= clock /\ p.issuedAt + SessionTtl > clock

(* authenticateEoa checks the times and the signature first. *)
AuthenticateEoa(c, p) ==
  /\ call[c].pc = "idle" /\ Timely(p)
  /\ call' = [call EXCEPT ![c] = [pc |-> "consume", proof |-> p, at |-> clock]]
  /\ UNCHANGED <<clock, rootKey, nonces, sessions, revokedAt>>

(* authenticatePasskey: the assertion names its wallet; then the chain is asked. *)
AuthenticatePasskey(c, p) ==
  /\ call[c].pc = "idle"
  /\ call' = [call EXCEPT ![c] = [pc |-> "keys", proof |-> p, at |-> clock]]
  /\ UNCHANGED <<clock, rootKey, nonces, sessions, revokedAt>>

(* Mutation: a revoked key is still an administrative key. *)
IsAdminKeyEver(w) == rootKey[w] # "none"

IsAdminKey(w) == rootKey[w] = "root"

(* The reader lists the current root keys and the assertion is verified
   with one of them. *)
ReadRootKeys(c) ==
  /\ call[c].pc = "keys"
  /\ call' = [call EXCEPT ![c] = IF IsAdminKey(call[c].proof.wallet) THEN [@ EXCEPT !.pc = "consume"] ELSE Idle]
  /\ UNCHANGED <<clock, rootKey, nonces, sessions, revokedAt>>

(* The row a proof's digest finds: a SIWE digest holds the signer's wallet. *)
Digest(p) == IF p.kind = "siwe" THEN p.wallet ELSE None

Consumable(p) == /\ nonces[p.nonce].wallet = Digest(p)
                 /\ ~nonces[p.nonce].used
                 /\ nonces[p.nonce].expires > clock

(* consume is one conditional UPDATE. *)
Consume(c) ==
  LET p == call[c].proof
  IN /\ call[c].pc = "consume"
     /\ IF Consumable(p)
        THEN /\ nonces' = [nonces EXCEPT ![p.nonce].used = TRUE]
             /\ call' = [call EXCEPT ![c].pc = "session", ![c].at = clock]
        ELSE UNCHANGED nonces /\ call' = [call EXCEPT ![c] = Idle]
     /\ UNCHANGED <<clock, rootKey, sessions, revokedAt>>

(* A row of auth_sessions. *)
SessionRow(p, consumed) ==
  [proof |-> p, consumedAt |-> consumed, expires |-> clock + SessionTtl, revoked |-> FALSE]

(* createSession; a failed transaction leaves the nonce consumed. *)
CreateSession(c) ==
  /\ call[c].pc = "session" /\ Len(sessions) < MaxSessions
  /\ \/ sessions' = Append(sessions, SessionRow(call[c].proof, call[c].at))
     \/ UNCHANGED sessions
  /\ call' = [call EXCEPT ![c] = Idle]
  /\ UNCHANGED <<clock, rootKey, nonces, revokedAt>>

(* revokeAuthenticatedSession *)
SignOut(i) ==
  /\ ~sessions[i].revoked
  /\ sessions' = [sessions EXCEPT ![i].revoked = TRUE]
  /\ UNCHANGED <<clock, rootKey, nonces, call, revokedAt>>

(* getAuthenticatedSession *)
Authenticates(i) == ~sessions[i].revoked /\ sessions[i].expires > clock

-----------------------------------------------------------------------------
CallStep(c) == \/ \E p \in Proofs("siwe") : AuthenticateEoa(c, p)
               \/ \E p \in Proofs("passkey") : AuthenticatePasskey(c, p)
               \/ ReadRootKeys(c) \/ Consume(c) \/ CreateSession(c)

Next == \/ Tick
        \/ \E w \in Wallets : RegisterKey(w) \/ RevokeKey(w)
        \/ \E n \in Nonces : CreateEoaSiweChallenge(n) \/ CreatePasskeyChallenge(n)
        \/ \E c \in Calls : CallStep(c)
        \/ \E i \in DOMAIN sessions : SignOut(i)

Spec == Init /\ [][Next]_vars

-----------------------------------------------------------------------------
(* Two requests never turn one challenge into two sessions: "at most one
   concurrent verifier may receive true" (boundary.ts NonceStore), also when
   the session of the first could not be stored and the proof is sent again.
   The signer is the wallet the challenge was issued for, and it was used
   while it lived.  A passkey that was revoked on chain before the challenge
   was issued opens no session (altana-keystore.ts reads the keys after the
   challenge). *)
SessionIsEarned ==
  \A i \in DOMAIN sessions :
    LET s == sessions[i]
        n == nonces[s.proof.nonce]
    IN /\ s.consumedAt < n.expires
       /\ n.wallet \in {None, s.proof.wallet}
       /\ \A j \in DOMAIN sessions : i # j => sessions[j].proof.nonce # s.proof.nonce
       /\ s.proof.kind = "passkey" /\ Authenticates(i) =>
            revokedAt[s.proof.wallet] = None \/ revokedAt[s.proof.wallet] >= n.at
=============================================================================
