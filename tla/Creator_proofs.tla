---------------------------- MODULE Creator_proofs ----------------------------
(***************************************************************************)
(* Creating an agent keeps its promises, for any number of wallets, pages, *)
(* workers, sessions, concurrent requests and crashes, and any lifetimes:  *)
(* SignIn satisfies SessionIsEarned, PasskeyBootstrap OneFirstAction,      *)
(* CreatorRegistration SignedOnce and ReconciledIsFinal, CreatorDeployment *)
(* DeployedOnce, and CreatorAuthority UsedAuthorityIsLive.                 *)
(***************************************************************************)
EXTENDS SignIn, CreatorPromise, TLAPS

CONSTANTS MaxCalls, MaxReloads,
          Tabs, MaxBlock, Window, MaxCloses, Reorgs, SdkPending,
          Drafts, Workers, Overlap, Crashes

VARIABLES saved, page, reloads,
          bound, head, tab, closes,
          auth, dep, ws, provider, wk

Passkey == INSTANCE PasskeyBootstrap

Registration == INSTANCE CreatorRegistration

Queue == INSTANCE CreatorDeployment

-----------------------------------------------------------------------------
(***************************************************************************)
(* Signing in.  A request that has consumed its challenge holds it alone   *)
(* until it has stored its session, and what the session will claim        *)
(* already holds then.                                                     *)
(***************************************************************************)

Proof == [kind : {"siwe", "passkey"}, wallet : Wallets, nonce : Nonces, issuedAt : Nat]
Row == [wallet : Wallets \cup {None}, at : Nat, expires : Nat, used : BOOLEAN]
CallState == [pc : {"idle", "keys", "consume", "session"}, proof : Proof \cup {None}, at : Nat]
Session == [proof : Proof, consumedAt : Nat, expires : Nat, revoked : BOOLEAN]

\* The lifetimes are numbers, and None is a value of its own.
Parameters == /\ ChallengeTtl \in Nat /\ SessionTtl \in Nat
              /\ None \notin Row /\ None \notin Proof

TypeInv ==
  /\ clock \in Nat
  /\ rootKey \in [Wallets -> {"none", "root", "revoked"}]
  /\ nonces \in [Nonces -> Row \cup {None}]
  /\ call \in [Calls -> CallState]
  /\ sessions \in Seq(Session)
  /\ revokedAt \in [Wallets -> Nat \cup {None}]

Issued(n) == nonces[n] # None

\* A wallet with a passkey that was never revoked, or not before the challenge.
KeyLived(p) == \/ revokedAt[p.wallet] = None
               \/ revokedAt[p.wallet] \in Nat /\ revokedAt[p.wallet] >= nonces[p.nonce].at

\* What a session claims of the proof it was opened with.
Earned(p, at) == /\ Issued(p.nonce) /\ nonces[p.nonce].used
                 /\ at < nonces[p.nonce].expires
                 /\ nonces[p.nonce].wallet \in {None, p.wallet}
                 /\ p.kind = "passkey" => KeyLived(p)

ChainInv == /\ \A n \in Nonces : Issued(n) => nonces[n].at <= clock
            /\ \A w \in Wallets : rootKey[w] # "revoked" => revokedAt[w] = None

CallInv ==
  \A c \in Calls :
    /\ call[c].pc # "idle" => call[c].proof \in Proof /\ Issued(call[c].proof.nonce)
    /\ call[c].pc = "consume" /\ call[c].proof.kind = "passkey" => KeyLived(call[c].proof)
    /\ call[c].pc = "session" => Earned(call[c].proof, call[c].at)

\* One holder of a consumed challenge: a request about to store, or a session.
OneHolder ==
  /\ \A c \in Calls : call[c].pc = "session" =>
       /\ \A d \in Calls : d # c /\ call[d].pc = "session" => call[d].proof.nonce # call[c].proof.nonce
       /\ \A i \in DOMAIN sessions : sessions[i].proof.nonce # call[c].proof.nonce
  /\ \A i, j \in DOMAIN sessions : i # j => sessions[j].proof.nonce # sessions[i].proof.nonce

SessionInv == \A i \in DOMAIN sessions : Earned(sessions[i].proof, sessions[i].consumedAt)

Inv == TypeInv /\ ChainInv /\ CallInv /\ OneHolder /\ SessionInv

-----------------------------------------------------------------------------
LEMMA InitInv == Parameters /\ Init => Inv
  BY DEF Init, Parameters, Inv, TypeInv, ChainInv, CallInv, OneHolder, SessionInv, Idle, CallState, Issued

\* What a session and a request that holds a challenge refer to.
LEMMA HolderTypes ==
  ASSUME Inv
  PROVE  /\ \A i \in DOMAIN sessions : sessions[i].proof \in Proof /\ sessions[i].consumedAt \in Nat
         /\ \A c \in Calls : call[c].pc # "idle" => call[c].proof \in Proof /\ call[c].at \in Nat
  <1>1. \A i \in DOMAIN sessions : sessions[i] \in Session BY DEF Inv, TypeInv
  <1>2. \A c \in Calls : call[c] \in CallState BY DEF Inv, TypeInv
  <1>. QED BY <1>1, <1>2 DEF Inv, CallInv, Session, CallState

LEMMA TickInv == Inv /\ Tick => Inv'
  BY DEF Tick, Inv, TypeInv, ChainInv, CallInv, OneHolder, SessionInv, Earned, KeyLived, Issued, Row

LEMMA RegisterKeyInv == ASSUME Inv, NEW w \in Wallets, RegisterKey(w) PROVE Inv'
  BY DEF RegisterKey, Inv, TypeInv, ChainInv, CallInv, OneHolder, SessionInv, Earned, KeyLived, Issued

LEMMA RevokeKeyInv == ASSUME Inv, NEW w \in Wallets, RevokeKey(w) PROVE Inv'
  <1>1. /\ revokedAt' = [revokedAt EXCEPT ![w] = clock] /\ clock \in Nat
        /\ UNCHANGED <<clock, nonces, call, sessions>>
        /\ rootKey' = [rootKey EXCEPT ![w] = "revoked"]
    BY DEF RevokeKey, Inv, TypeInv
  <1>2. \A p \in Proof : Issued(p.nonce) /\ KeyLived(p) => KeyLived(p)'
    BY <1>1 DEF Inv, TypeInv, ChainInv, Issued, KeyLived, Proof, Row
  <1>3. \A p \in Proof, at \in Nat : Earned(p, at) => Earned(p, at)'
    BY <1>1, <1>2 DEF Earned, Issued
  <1>4. TypeInv' /\ ChainInv' BY <1>1 DEF Inv, TypeInv, ChainInv, Issued
  <1>5. CallInv' BY <1>1, <1>2, <1>3 DEF Inv, TypeInv, CallInv, CallState, Issued
  <1>6. OneHolder' BY <1>1 DEF Inv, OneHolder
  <1>7. SessionInv' BY <1>1, <1>3, HolderTypes DEF Inv, SessionInv
  <1>. QED BY <1>4, <1>5, <1>6, <1>7 DEF Inv

LEMMA IssueNonceInv ==
  ASSUME Parameters, Inv, NEW n \in Nonces, NEW w \in Wallets \cup {None}, IssueNonce(n, w) PROVE Inv'
  <1>1. NonceRow(w) \in Row /\ NonceRow(w).at = clock BY DEF NonceRow, Row, Inv, TypeInv, Parameters
  <1>2. /\ nonces' = [nonces EXCEPT ![n] = NonceRow(w)] /\ ~Issued(n)
        /\ UNCHANGED <<clock, rootKey, call, sessions, revokedAt>>
    BY DEF IssueNonce, Issued
  <1>3. \A m \in Nonces : Issued(m) => Issued(m)' /\ nonces'[m] = nonces[m]
    BY <1>2 DEF Inv, TypeInv, Issued
  <1>4. TypeInv' BY <1>1, <1>2 DEF Inv, TypeInv
  <1>5. ChainInv' BY <1>1, <1>2, <1>3 DEF Inv, TypeInv, ChainInv, Issued
  <1>6. \A p \in Proof, at \in Nat : Earned(p, at) => Earned(p, at)'
    BY <1>2, <1>3 DEF Earned, KeyLived, Proof
  <1>7. CallInv' BY <1>2, <1>3, <1>6 DEF Inv, TypeInv, CallInv, CallState, KeyLived, Proof
  <1>8. OneHolder' BY <1>2 DEF Inv, OneHolder
  <1>9. SessionInv' BY <1>2, <1>6, HolderTypes DEF Inv, SessionInv
  <1>. QED BY <1>4, <1>5, <1>7, <1>8, <1>9 DEF Inv

\* A request takes up a proof, or gives up, or goes on after reading the keys: no
\* challenge and no session changes, and it is not the one that stores a session.
LEMMA CallStepInv ==
  ASSUME Inv, NEW c \in Calls, NEW new \in CallState, call' = [call EXCEPT ![c] = new],
         UNCHANGED <<clock, rootKey, nonces, sessions, revokedAt>>,
         new.pc # "session",
         new.pc # "idle" => new.proof \in Proof /\ Issued(new.proof.nonce),
         new.pc = "consume" /\ new.proof.kind = "passkey" => KeyLived(new.proof)
  PROVE  Inv'
  <1>1. TypeInv' /\ ChainInv' BY DEF Inv, TypeInv, ChainInv, Issued
  <1>2. call'[c] = new /\ \A d \in Calls \ {c} : call'[d] = call[d] BY DEF Inv, TypeInv
  <1>3. CallInv' BY <1>2 DEF Inv, CallInv, Earned, KeyLived, Issued
  <1>4. OneHolder' BY <1>2 DEF Inv, OneHolder
  <1>5. SessionInv' BY DEF Inv, SessionInv, Earned, KeyLived, Issued
  <1>. QED BY <1>1, <1>3, <1>4, <1>5 DEF Inv

\* What a holder can have signed is a proof for a challenge that was issued.
LEMMA ProofsFacts ==
  ASSUME Inv, NEW kind \in {"siwe", "passkey"}, NEW p \in Proofs(kind)
  PROVE  p \in Proof /\ p.kind = kind /\ Issued(p.nonce)
  BY DEF Inv, TypeInv, Proofs, Proof, Issued

LEMMA AuthenticateInv ==
  ASSUME Inv, NEW c \in Calls,
         \/ \E p \in Proofs("siwe") : AuthenticateEoa(c, p)
         \/ \E p \in Proofs("passkey") : AuthenticatePasskey(c, p)
  PROVE  Inv'
  <1>0. PICK kind \in {"siwe", "passkey"} : \E p \in Proofs(kind) :
          /\ call' = [call EXCEPT ![c] = [pc |-> IF kind = "siwe" THEN "consume" ELSE "keys", proof |-> p, at |-> clock]]
          /\ UNCHANGED <<clock, rootKey, nonces, sessions, revokedAt>>
    BY DEF AuthenticateEoa, AuthenticatePasskey
  <1>1. PICK p \in Proofs(kind) :
          /\ call' = [call EXCEPT ![c] = [pc |-> IF kind = "siwe" THEN "consume" ELSE "keys", proof |-> p, at |-> clock]]
          /\ UNCHANGED <<clock, rootKey, nonces, sessions, revokedAt>>
    BY <1>0
  <1>2. p \in Proof /\ p.kind = kind /\ Issued(p.nonce) BY ProofsFacts
  <1> DEFINE new == [pc |-> IF kind = "siwe" THEN "consume" ELSE "keys", proof |-> p, at |-> clock]
  <1>3. new \in CallState /\ new.pc # "session" /\ new.proof = p /\ (new.pc = "consume" => kind = "siwe")
    BY <1>2 DEF CallState, Inv, TypeInv
  <1> HIDE DEF new
  <1>. QED BY <1>1, <1>2, <1>3, CallStepInv DEF new

LEMMA IdleCall == Idle \in CallState /\ Idle.pc = "idle"
  BY DEF Idle, CallState

LEMMA ReadRootKeysInv ==
  ASSUME Inv, NEW c \in Calls, ReadRootKeys(c) PROVE Inv'
  <1> DEFINE new == IF IsAdminKey(call[c].proof.wallet) THEN [call[c] EXCEPT !.pc = "consume"] ELSE Idle
  <1>1. call[c] \in CallState /\ call[c].proof \in Proof /\ Issued(call[c].proof.nonce)
    BY DEF ReadRootKeys, Inv, TypeInv, CallInv
  <1>2. call' = [call EXCEPT ![c] = new] /\ UNCHANGED <<clock, rootKey, nonces, sessions, revokedAt>>
    BY DEF ReadRootKeys, Inv, TypeInv
  <1>3. CASE IsAdminKey(call[c].proof.wallet)
    <2>1. KeyLived(call[c].proof)
      BY <1>1, <1>3 DEF IsAdminKey, Inv, ChainInv, KeyLived, Proof
    <2>2. new \in CallState /\ new.pc = "consume" /\ new.proof = call[c].proof
      BY <1>1, <1>3 DEF CallState
    <2>. QED BY <1>1, <1>2, <2>1, <2>2, CallStepInv
  <1>4. CASE ~IsAdminKey(call[c].proof.wallet)
    BY <1>2, <1>4, IdleCall, CallStepInv
  <1>. QED BY <1>3, <1>4

\* consume is one conditional update: it makes the request the holder.
LEMMA ConsumeInv ==
  ASSUME Parameters, Inv, NEW c \in Calls, Consume(c) PROVE Inv'
  <1>0. PICK p : p = call[c].proof OBVIOUS
  <1>1. /\ call[c] \in CallState /\ p \in Proof /\ Issued(p.nonce) /\ call[c].pc = "consume"
        /\ p.kind = "passkey" => KeyLived(p)
        /\ nonces[p.nonce] \in Row /\ clock \in Nat
    BY <1>0 DEF Consume, Inv, TypeInv, CallInv, Issued, Proof
  <1>2. UNCHANGED <<clock, rootKey, sessions, revokedAt>> BY DEF Consume
  <1>3. CASE ~Consumable(p)
    BY <1>0, <1>2, <1>3, IdleCall, CallStepInv DEF Consume
  <1>4. CASE Consumable(p)
    <2> DEFINE row == [nonces[p.nonce] EXCEPT !.used = TRUE]
               new == [call[c] EXCEPT !.pc = "session", !.at = clock]
    <2>1. nonces' = [nonces EXCEPT ![p.nonce] = row] /\ call' = [call EXCEPT ![c] = new]
      BY <1>0, <1>4 DEF Consume, Inv, TypeInv
    <2>2. /\ row \in Row /\ row.used /\ row.wallet = nonces[p.nonce].wallet
          /\ row.at = nonces[p.nonce].at /\ row.expires = nonces[p.nonce].expires
      BY <1>1 DEF Row
    <2>3. new \in CallState /\ new.pc = "session" /\ new.proof = p /\ new.at = clock
      BY <1>0, <1>1 DEF CallState
    <2> HIDE DEF row, new
    <2>4. TypeInv' BY <1>2, <2>1, <2>2, <2>3 DEF Inv, TypeInv
    <2>5. /\ nonces'[p.nonce] = row
          /\ \A m \in Nonces \ {p.nonce} : nonces'[m] = nonces[m]
          /\ \A m \in Nonces : Issued(m) => Issued(m)' /\ nonces'[m].at = nonces[m].at
      BY <1>1, <2>1, <2>2 DEF Inv, TypeInv, Proof, Issued, Parameters
    <2>6. call'[c] = new /\ \A d \in Calls \ {c} : call'[d] = call[d] BY <2>1 DEF Inv, TypeInv
    <2>7. ChainInv' BY <1>1, <1>2, <2>2, <2>5 DEF Inv, ChainInv, Issued
    <2>8. \A q \in Proof : Issued(q.nonce) /\ KeyLived(q) => KeyLived(q)'
      BY <1>2, <2>5 DEF KeyLived, Proof
    <2>9. \A q \in Proof, at \in Nat : Earned(q, at) => Earned(q, at)' /\ q.nonce # p.nonce
      BY <1>2, <1>4, <2>5, <2>8 DEF Earned, Consumable, Proof
    <2>10. Earned(p, clock)'
      <3>1. Issued(p.nonce)' /\ nonces'[p.nonce].used BY <1>1, <2>2, <2>5 DEF Proof
      <3>2. clock < nonces'[p.nonce].expires BY <1>1, <1>4, <2>2, <2>5 DEF Consumable, Row
      <3>3. nonces'[p.nonce].wallet \in {None, p.wallet}
        BY <1>4, <2>2, <2>5 DEF Consumable, Digest
      <3>4. p.kind = "passkey" => KeyLived(p)' BY <1>1, <2>8
      <3>. QED BY <3>1, <3>2, <3>3, <3>4, <1>2 DEF Earned
    <2>11. CallInv'
      <3> SUFFICES ASSUME NEW d \in Calls
                   PROVE  (/\ call[d].pc # "idle" => call[d].proof \in Proof /\ Issued(call[d].proof.nonce)
                           /\ call[d].pc = "consume" /\ call[d].proof.kind = "passkey" => KeyLived(call[d].proof)
                           /\ call[d].pc = "session" => Earned(call[d].proof, call[d].at))'
        BY DEF CallInv
      <3>1. PICK x : x = call'[d] OBVIOUS
      <3>2. /\ x.pc # "idle" => x.proof \in Proof /\ Issued(x.proof.nonce)'
            /\ x.pc = "consume" /\ x.proof.kind = "passkey" => KeyLived(x.proof)'
            /\ x.pc = "session" => Earned(x.proof, x.at)'
        <4>1. CASE d = c
          <5>1. x.pc = "session" /\ x.proof = p /\ x.at = clock BY <2>3, <2>6, <3>1, <4>1
          <5>. QED BY <1>1, <1>2, <2>10, <5>1 DEF Earned
        <4>2. CASE d # c
          <5>1. x = call[d] BY <2>6, <3>1, <4>2
          <5>2. x.pc # "idle" => x.proof \in Proof /\ x.proof.nonce \in Nonces /\ x.at \in Nat
            BY <5>1, HolderTypes DEF Proof
          <5>. QED BY <2>5, <2>8, <2>9, <5>1, <5>2 DEF Inv, CallInv
        <4>. QED BY <4>1, <4>2
      <3>. QED BY <3>1, <3>2 DEF Earned, KeyLived, Issued
    <2>12. OneHolder'
      BY <1>2, <2>3, <2>6, <2>9, HolderTypes DEF Inv, CallInv, OneHolder, SessionInv
    <2>13. SessionInv' BY <1>2, <2>9, HolderTypes DEF Inv, SessionInv
    <2>. QED BY <2>4, <2>7, <2>11, <2>12, <2>13 DEF Inv
  <1>. QED BY <1>3, <1>4

\* The holder stores its session, or fails to and holds no more.
LEMMA CreateSessionInv ==
  ASSUME Parameters, Inv, NEW c \in Calls, CreateSession(c) PROVE Inv'
  <1> DEFINE p == call[c].proof
             s == SessionRow(p, call[c].at)
  <1>1. /\ call[c] \in CallState /\ call[c].pc = "session" /\ p \in Proof /\ Earned(p, call[c].at)
        /\ call' = [call EXCEPT ![c] = Idle] /\ UNCHANGED <<clock, rootKey, nonces, revokedAt>>
    BY DEF CreateSession, Inv, TypeInv, CallInv
  <1>2. CASE UNCHANGED sessions
    BY <1>1, <1>2, IdleCall, CallStepInv
  <1>3. CASE sessions' = Append(sessions, s)
    <2>1. s \in Session /\ s.proof = p /\ s.consumedAt = call[c].at
      BY <1>1 DEF SessionRow, Session, CallState, Inv, TypeInv, Parameters
    <2> HIDE DEF s
    <2>2. /\ sessions' \in Seq(Session) /\ sessions'[Len(sessions) + 1] = s
          /\ \A i \in DOMAIN sessions : sessions'[i] = sessions[i] /\ i # Len(sessions) + 1
          /\ \A i \in DOMAIN sessions' : i \in DOMAIN sessions \/ i = Len(sessions) + 1
      BY <1>3, <2>1 DEF Inv, TypeInv
    <2>3. TypeInv' BY <1>1, <2>2, IdleCall DEF Inv, TypeInv
    <2>4. ChainInv' BY <1>1 DEF Inv, ChainInv, Issued
    <2>5. call'[c].pc = "idle" /\ \A d \in Calls \ {c} : call'[d] = call[d]
      BY <1>1, IdleCall DEF Inv, TypeInv
    <2>6. CallInv' BY <1>1, <2>5 DEF Inv, CallInv, Earned, KeyLived, Issued
    <2>7. OneHolder' BY <1>1, <2>1, <2>2, <2>5 DEF Inv, OneHolder
    <2>8. SessionInv' BY <1>1, <2>1, <2>2 DEF Inv, SessionInv, Earned, KeyLived, Issued
    <2>. QED BY <2>3, <2>4, <2>6, <2>7, <2>8 DEF Inv
  <1>. QED BY <1>2, <1>3 DEF CreateSession

LEMMA SignOutInv ==
  ASSUME Inv, NEW i \in DOMAIN sessions, SignOut(i) PROVE Inv'
  <1> DEFINE s == [sessions[i] EXCEPT !.revoked = TRUE]
  <1>1. sessions \in Seq(Session) /\ sessions[i] \in Session BY DEF Inv, TypeInv
  <1>2. s \in Session /\ s.proof = sessions[i].proof /\ s.consumedAt = sessions[i].consumedAt
    BY <1>1 DEF Session
  <1>3. sessions' = [sessions EXCEPT ![i] = s] /\ UNCHANGED <<clock, rootKey, nonces, call, revokedAt>>
    BY <1>1 DEF SignOut
  <1> HIDE DEF s
  <1>4. /\ sessions' \in Seq(Session) /\ DOMAIN sessions' = DOMAIN sessions
        /\ \A j \in DOMAIN sessions : /\ sessions'[j].proof = sessions[j].proof
                                      /\ sessions'[j].consumedAt = sessions[j].consumedAt
    BY <1>1, <1>2, <1>3
  <1>5. TypeInv' /\ ChainInv' BY <1>3, <1>4 DEF Inv, TypeInv, ChainInv, Issued
  <1>6. CallInv' BY <1>3 DEF Inv, CallInv, Earned, KeyLived, Issued
  <1>7. OneHolder' BY <1>3, <1>4 DEF Inv, OneHolder
  <1>8. SessionInv' BY <1>3, <1>4 DEF Inv, SessionInv, Earned, KeyLived, Issued
  <1>. QED BY <1>5, <1>6, <1>7, <1>8 DEF Inv

LEMMA EarnedSessions == Inv => SessionIsEarned
  BY DEF Inv, TypeInv, SessionInv, OneHolder, SessionIsEarned, Earned, KeyLived, Authenticates, Session, Proof

\* "at most one concurrent verifier may receive true" (boundary.ts), and what a
\* session stands for: for any wallets, challenges, requests and lifetimes a session
\* has a challenge of its own, issued for its wallet and used while it lived, and no
\* passkey revoked before the challenge opened one.
THEOREM SessionsAreEarned ==
  ASSUME Parameters PROVE Spec => []SessionIsEarned
  <1>1. Inv /\ [Next]_vars => Inv'
    <2> SUFFICES ASSUME Inv, [Next]_vars PROVE Inv' OBVIOUS
    <2>1. CASE UNCHANGED vars
      BY <2>1 DEF vars, Inv, TypeInv, ChainInv, CallInv, OneHolder, SessionInv, Earned, KeyLived, Issued
    <2>2. CASE Tick BY <2>2, TickInv
    <2>3. CASE \E w \in Wallets : RegisterKey(w) \/ RevokeKey(w) BY <2>3, RegisterKeyInv, RevokeKeyInv
    <2>4. CASE \E n \in Nonces : CreateEoaSiweChallenge(n) \/ CreatePasskeyChallenge(n)
      BY <2>4, IssueNonceInv DEF CreateEoaSiweChallenge, CreatePasskeyChallenge
    <2>5. CASE \E c \in Calls : CallStep(c)
      BY <2>5, AuthenticateInv, ReadRootKeysInv, ConsumeInv, CreateSessionInv DEF CallStep
    <2>6. CASE \E i \in DOMAIN sessions : SignOut(i) BY <2>6, SignOutInv
    <2>. QED BY <2>1, <2>2, <2>3, <2>4, <2>5, <2>6 DEF Next
  <1>2. Init => Inv BY InitInv
  <1>. QED BY <1>1, <1>2, EarnedSessions, PTL DEF Spec

-----------------------------------------------------------------------------
(***************************************************************************)
(* The first action.  The record in local storage is all that survives a   *)
(* reload.  It is in one of three states: it lets the next activation      *)
(* send, it names an accepted action, or it blocks the wallet for good.  A *)
(* wallet some action of which may still count is never in the first       *)
(* state, and in the second only for that very action.                     *)
(***************************************************************************)

Status == {"unregistered", "unknown", "pending", "confirmed", "failed"}
Record == [wallet : Wallets, calls : Nat, hash : BOOLEAN, status : Status]
Action == [wallet : Wallets, status : {"pending", "confirmed", "failed", "reverted"}]

\* None is a value of its own: local storage without a record.
NoneIsNoRecord == None \notin Record

PasskeyTypes ==
  /\ saved = None \/ saved \in Record
  /\ page \in [pc : {"idle", "read", "execute", "confirm"}, rec : Record \cup {None}, signIn : BOOLEAN]
  /\ relay \in Seq(Action)
  /\ inFlight \subseteq Wallets

\* Nothing of the wallet can reach the chain any more, or is on its way.
Spent(w) == /\ w \notin inFlight
            /\ \A i \in DOMAIN relay : relay[i].wallet = w => relay[i].status = "failed"

\* The record names an accepted action, and every other one of the wallet failed.
Named(rec) ==
  /\ rec.calls \in DOMAIN relay /\ relay[rec.calls].wallet = rec.wallet
  /\ rec.wallet \notin inFlight
  /\ \A i \in DOMAIN relay : relay[i].wallet = rec.wallet /\ i # rec.calls => relay[i].status = "failed"

\* A wallet with this record sends nothing more.
Blocked(rec) == rec.calls = 0 /\ rec.status \in {"unknown", "confirmed"}

\* The three states of a stored record.
Kept(rec) == Blocked(rec) \/ (rec.calls = 0 /\ Spent(rec.wallet)) \/ Named(rec)

SavedInv ==
  /\ saved = None => relay = <<>> /\ inFlight = {}
  /\ saved # None => Kept(saved)

\* A page at work has stored what it works with; before it sends, the record blocks
\* the wallet for whoever comes after a reload.
PageInv ==
  /\ page.pc # "idle" => page.rec # None /\ saved = page.rec
  /\ page.pc \in {"read", "confirm"} => page.rec.calls # 0
  /\ page.pc = "execute" => /\ page.rec.calls = 0 /\ page.rec.status = "unknown"
                            /\ Spent(page.rec.wallet)

PasskeyInv == PasskeyTypes /\ SavedInv /\ PageInv /\ OneFirstAction

-----------------------------------------------------------------------------
\* What the record becomes: relayRecord keeps its wallet and its calls ID, and says
\* failed only when the relay does.
LEMMA RelayRecordFacts ==
  ASSUME NEW rec \in Record, NEW a \in Action
  PROVE  LET new == Passkey!RelayRecord(rec, a.status)
         IN /\ new \in Record /\ new.wallet = rec.wallet /\ new.calls = rec.calls
            /\ new.status = "failed" => a.status = "failed"
  BY DEF Passkey!RelayRecord, Record, Action, Status

LEMMA PasskeyInit == Passkey!Init => PasskeyInv
  BY DEF Passkey!Init, PasskeyInv, PasskeyTypes, SavedInv, Kept, PageInv, OneFirstAction, Passkey!Idle

LEMMA SettleInv ==
  ASSUME PasskeyInv, NEW i \in DOMAIN relay, Passkey!Settle(i) PROVE PasskeyInv'
  <1>1. PICK st \in {"confirmed", "failed", "reverted"} : relay' = [relay EXCEPT ![i].status = st]
    BY DEF Passkey!Settle
  <1>2. /\ relay' \in Seq(Action) /\ DOMAIN relay' = DOMAIN relay
        /\ \A k \in DOMAIN relay : /\ relay'[k].wallet = relay[k].wallet
                                   /\ relay[k].status = "failed" => relay'[k].status = "failed"
    <2>1. relay \in Seq(Action) /\ relay[i] \in Action /\ relay[i].status = "pending"
      BY DEF Passkey!Settle, PasskeyInv, PasskeyTypes
    <2>2. [relay[i] EXCEPT !.status = st] \in Action BY <2>1 DEF Action
    <2>. QED BY <1>1, <2>1, <2>2 DEF Action
  <1>3. UNCHANGED <<saved, page, inFlight>> BY DEF Passkey!Settle
  <1>4. PasskeyTypes' BY <1>2, <1>3 DEF PasskeyInv, PasskeyTypes
  <1>5. SavedInv' BY <1>2, <1>3 DEF PasskeyInv, PasskeyTypes, SavedInv, Kept, Blocked, Spent, Named
  <1>6. PageInv' BY <1>2, <1>3 DEF PasskeyInv, PageInv, Spent
  <1>7. OneFirstAction' BY <1>2, <1>3 DEF PasskeyInv, OneFirstAction
  <1>. QED BY <1>4, <1>5, <1>6, <1>7 DEF PasskeyInv

LEMMA ArriveInv ==
  ASSUME PasskeyInv, NEW w \in Wallets, Passkey!Arrive(w) PROVE PasskeyInv'
  BY DEF PasskeyInv, PasskeyTypes, SavedInv, Kept, PageInv, OneFirstAction, Passkey!Arrive, Passkey!Accepted, Spent, Named, Blocked, Action, Record

\* The intent is stored and the page goes on to send, for a wallet with nothing left
\* to send for.
LEMMA MarkIntentInv ==
  ASSUME NoneIsNoRecord, PasskeyInv, NEW rec \in Record, Spent(rec.wallet), Passkey!MarkIntent(rec),
         UNCHANGED <<relay, inFlight>>
  PROVE  PasskeyInv'
  <1> DEFINE intent == [rec EXCEPT !.calls = 0, !.hash = FALSE, !.status = "unknown"]
  <1>1. /\ intent \in Record /\ intent.calls = 0 /\ intent.status = "unknown"
        /\ intent.wallet = rec.wallet
    BY DEF Record, Status
  <1>2. saved' = intent /\ page' = [page EXCEPT !.pc = "execute", !.rec = intent]
    BY DEF Passkey!MarkIntent, Passkey!Persist
  <1>3. PasskeyTypes' BY <1>1, <1>2 DEF PasskeyInv, PasskeyTypes
  <1>4. SavedInv' BY <1>1, <1>2 DEF NoneIsNoRecord, SavedInv, Kept, Blocked
  <1>5. PageInv'
    <2>1. page'.pc = "execute" /\ page'.rec = intent BY <1>2 DEF PasskeyInv, PasskeyTypes
    <2>2. Spent(intent.wallet)' BY <1>1 DEF Spent
    <2>. QED BY <1>1, <1>2, <2>1, <2>2 DEF NoneIsNoRecord, PageInv
  <1>6. OneFirstAction' BY DEF PasskeyInv, OneFirstAction
  <1>. QED BY <1>3, <1>4, <1>5, <1>6 DEF PasskeyInv

\* The page stores a record in one of the three states and stops.
LEMMA StopInv ==
  ASSUME NoneIsNoRecord, PasskeyInv, NEW rec \in Record, Kept(rec), NEW seen, saved' = rec, Passkey!Stop(seen),
         UNCHANGED <<relay, inFlight>>
  PROVE  PasskeyInv'
  <1>1. page'.pc = "idle" /\ page' \in [pc : {"idle"}, rec : {None}, signIn : BOOLEAN]
    BY DEF Passkey!Stop, Passkey!Idle
  <1>2. PasskeyTypes' BY <1>1 DEF PasskeyInv, PasskeyTypes
  <1>3. SavedInv' BY DEF NoneIsNoRecord, SavedInv, Kept, Spent, Named, Blocked
  <1>4. PageInv' BY <1>1 DEF PageInv
  <1>5. OneFirstAction' BY DEF PasskeyInv, OneFirstAction
  <1>. QED BY <1>2, <1>3, <1>4, <1>5 DEF PasskeyInv

\* The page stops and leaves the record alone, or goes on to read for it.
LEMMA SavedStaysInv ==
  ASSUME PasskeyInv, UNCHANGED <<saved, relay, inFlight>>,
         (\E seen : Passkey!Stop(seen)) \/ (/\ saved # None /\ saved.calls # 0
                                  /\ \E pc \in {"read", "confirm"} :
                                       page' = [page EXCEPT !.pc = pc, !.rec = saved])
  PROVE  PasskeyInv'
  <1>1. /\ page' \in [pc : {"idle", "read", "confirm"}, rec : Record \cup {None}, signIn : BOOLEAN]
        /\ page'.pc # "idle" => saved # None /\ saved.calls # 0 /\ page'.rec = saved
    BY DEF Passkey!Stop, Passkey!Idle, PasskeyInv, PasskeyTypes
  <1>2. PasskeyTypes' BY <1>1 DEF PasskeyInv, PasskeyTypes
  <1>3. SavedInv' BY DEF PasskeyInv, SavedInv, Kept, Blocked, Spent, Named
  <1>4. PageInv' BY <1>1 DEF PageInv
  <1>5. OneFirstAction' BY DEF PasskeyInv, OneFirstAction
  <1>. QED BY <1>2, <1>3, <1>4, <1>5 DEF PasskeyInv

LEMMA ActivateInv ==
  ASSUME NoneIsNoRecord, PasskeyInv, NEW w \in Wallets, Passkey!Activate(w) PROVE PasskeyInv'
  <1> DEFINE rec == IF saved = None THEN Passkey!Unregistered(w) ELSE saved
             other == Passkey!Unknown(Passkey!Unregistered(w))
  <1>1. rec \in Record /\ other \in Record /\ Blocked(other)
    BY DEF PasskeyInv, PasskeyTypes, Passkey!Unregistered, Passkey!Unknown, Record, Status, Blocked
  <1>2. UNCHANGED <<relay, inFlight>> BY DEF Passkey!Activate
  <1>3. saved = None => rec.calls = 0 /\ Spent(rec.wallet)
    BY DEF PasskeyInv, SavedInv, Kept, Spent, Passkey!Unregistered
  <1>4. CASE rec.wallet # w
    <2>1. saved' = other /\ Passkey!Stop(Passkey!Unregistered(w)) BY <1>4 DEF Passkey!Activate, Passkey!Persist
    <2>. QED BY <1>1, <1>2, <2>1, StopInv DEF Kept
  <1>5. CASE rec.wallet = w /\ (rec.status = "confirmed" \/ (rec.status = "unknown" /\ rec.calls = 0))
    BY <1>2, <1>5, SavedStaysInv DEF Passkey!Activate
  <1>6. CASE /\ rec.wallet = w /\ ~(rec.status = "confirmed" \/ (rec.status = "unknown" /\ rec.calls = 0))
             /\ rec.calls # 0
    <2>1. page' = [page EXCEPT !.pc = "read", !.rec = rec] /\ UNCHANGED saved
      BY <1>6 DEF Passkey!Activate
    <2>. QED BY <1>2, <1>3, <1>6, <2>1, SavedStaysInv
  <1>7. CASE /\ rec.wallet = w /\ ~(rec.status = "confirmed" \/ (rec.status = "unknown" /\ rec.calls = 0))
             /\ rec.calls = 0
    <2>1. Passkey!MarkIntent(rec) BY <1>7 DEF Passkey!Activate
    <2>2. Spent(rec.wallet)
      BY <1>3, <1>7 DEF PasskeyInv, PasskeyTypes, SavedInv, Kept, Blocked, Named
    <2>. QED BY <1>1, <1>2, <2>1, <2>2, MarkIntentInv
  <1>. QED BY <1>4, <1>5, <1>6, <1>7

LEMMA AlreadyRegisteredInv ==
  ASSUME NoneIsNoRecord, PasskeyInv, NEW w \in Wallets, Passkey!AlreadyRegistered(w) PROVE PasskeyInv'
  <1> DEFINE old == IF saved = None THEN Passkey!Unregistered(w) ELSE saved
             rec == [old EXCEPT !.status = "confirmed"]
  <1>1. saved # None BY DEF Passkey!AlreadyRegistered, PasskeyInv, SavedInv, Kept
  <1>2. old \in Record BY <1>1 DEF PasskeyInv, PasskeyTypes
  <1>3. rec \in Record /\ rec.calls = old.calls /\ rec.wallet = old.wallet /\ rec.status = "confirmed"
    BY <1>2 DEF Record, Status
  <1>4. Kept(rec) BY <1>1, <1>3 DEF PasskeyInv, SavedInv, Kept, Blocked, Named
  <1>5. saved' = rec /\ Passkey!Stop(rec) /\ UNCHANGED <<relay, inFlight>>
    BY DEF Passkey!AlreadyRegistered, Passkey!Persist
  <1>. QED BY <1>3, <1>4, <1>5, StopInv

\* A page that reads works with the stored record, which names an action.
LEMMA ReadingFacts ==
  ASSUME NoneIsNoRecord, PasskeyInv, page.pc \in {"read", "confirm"}
  PROVE  /\ page.rec \in Record /\ Named(page.rec) /\ relay[page.rec.calls] \in Action
         /\ Passkey!Unknown(page.rec) \in Record /\ Named(Passkey!Unknown(page.rec))
         /\ LET new == Passkey!RelayRecord(page.rec, relay[page.rec.calls].status)
            IN /\ new \in Record /\ Named(new)
               /\ new.status = "failed" => Spent(new.wallet)
  <1>1. page.rec \in Record /\ Named(page.rec)
    BY DEF PasskeyInv, PasskeyTypes, PageInv, SavedInv, Kept, Blocked
  <1>2. relay[page.rec.calls] \in Action BY <1>1 DEF PasskeyInv, PasskeyTypes, Named
  <1>3. Passkey!Unknown(page.rec) \in Record /\ Named(Passkey!Unknown(page.rec))
    BY <1>1 DEF Passkey!Unknown, Record, Status, Named
  <1> DEFINE new == Passkey!RelayRecord(page.rec, relay[page.rec.calls].status)
  <1>4. /\ new \in Record /\ new.wallet = page.rec.wallet /\ new.calls = page.rec.calls
        /\ new.status = "failed" => relay[page.rec.calls].status = "failed"
    BY <1>1, <1>2, RelayRecordFacts
  <1>5. Named(new) BY <1>1, <1>4 DEF Named
  <1>6. new.status = "failed" => Spent(new.wallet) BY <1>4, <1>5 DEF Named, Spent
  <1>. QED BY <1>1, <1>2, <1>3, <1>4, <1>5, <1>6

LEMMA ReadStatusInv ==
  ASSUME NoneIsNoRecord, PasskeyInv, Passkey!ReadStatus PROVE PasskeyInv'
  <1> DEFINE new == Passkey!RelayRecord(page.rec, relay[page.rec.calls].status)
  <1>1. page.pc = "read" /\ UNCHANGED <<relay, inFlight>> BY DEF Passkey!ReadStatus
  <1>2. CASE new.status = "failed" /\ Passkey!MarkIntent(new) BY <1>1, <1>2, ReadingFacts, MarkIntentInv
  <1>3. CASE saved' = new /\ Passkey!Stop(new) BY <1>1, <1>3, ReadingFacts, StopInv DEF Kept
  <1>4. CASE saved' = Passkey!Unknown(page.rec) /\ Passkey!Stop(Passkey!Unknown(page.rec))
    BY <1>1, <1>4, ReadingFacts, StopInv DEF Kept
  <1>. QED BY <1>2, <1>3, <1>4 DEF Passkey!ReadStatus, Passkey!Persist

LEMMA ConfirmInv ==
  ASSUME NoneIsNoRecord, PasskeyInv, Passkey!Confirm PROVE PasskeyInv'
  <1> DEFINE new == Passkey!RelayRecord(page.rec, relay[page.rec.calls].status)
  <1>1. page.pc = "confirm" /\ UNCHANGED <<relay, inFlight>> BY DEF Passkey!Confirm
  <1>2. PICK rec \in {new, Passkey!Unknown(page.rec)} : saved' = rec /\ Passkey!Stop(rec) BY DEF Passkey!Confirm, Passkey!Persist
  <1>. QED BY <1>1, <1>2, ReadingFacts, StopInv DEF Kept

LEMMA ReconcileInv ==
  ASSUME PasskeyInv, Passkey!Reconcile PROVE PasskeyInv'
  BY SavedStaysInv DEF Passkey!Reconcile

LEMMA ReloadInv ==
  ASSUME PasskeyInv, Passkey!Reload PROVE PasskeyInv'
  BY DEF PasskeyInv, PasskeyTypes, SavedInv, Kept, PageInv, OneFirstAction, Passkey!Reload, Spent, Named, Blocked, Record, Passkey!Idle

LEMMA ExecuteInv ==
  ASSUME NoneIsNoRecord, PasskeyInv, Passkey!Execute PROVE PasskeyInv'
  <1>1. /\ page.pc = "execute" /\ page.rec \in Record /\ saved = page.rec
        /\ page.rec.calls = 0 /\ page.rec.status = "unknown" /\ Spent(page.rec.wallet)
        /\ UNCHANGED inFlight
    BY DEF Passkey!Execute, PasskeyInv, PasskeyTypes, PageInv
  \* Refused before anything was sent.
  <1>2. CASE /\ saved' = [page.rec EXCEPT !.status = "failed"] /\ Passkey!Stop(page.rec) /\ UNCHANGED relay
    <2> DEFINE rec == [page.rec EXCEPT !.status = "failed"]
    <2>1. rec \in Record /\ rec.calls = 0 /\ rec.wallet = page.rec.wallet
      BY <1>1 DEF Record, Status
    <2>. QED BY <1>1, <1>2, <2>1, StopInv DEF Kept
  \* Accepted: the relay has one more action, the only one of the wallet that may count.
  <1>3. ASSUME NEW st \in {"pending", "confirmed", "failed"},
               relay' = Append(relay, [wallet |-> page.rec.wallet, status |-> st]),
               NEW rec \in Record, saved' = rec, rec.wallet = page.rec.wallet,
               rec.calls = Len(relay) + 1 \/ Blocked(rec),
               (\E seen : Passkey!Stop(seen)) \/
                 (rec.calls = Len(relay) + 1 /\ page' = [page EXCEPT !.pc = "confirm", !.rec = rec])
        PROVE  PasskeyInv'
    <2> DEFINE act == [wallet |-> page.rec.wallet, status |-> st]
    <2>1. act \in Action /\ relay \in Seq(Action) BY <1>1, <1>3 DEF Action, Record, PasskeyInv, PasskeyTypes
    <2>2. /\ relay' \in Seq(Action) /\ DOMAIN relay' = 1..(Len(relay) + 1)
          /\ \A i \in DOMAIN relay : i \in DOMAIN relay' /\ i # Len(relay) + 1 /\ relay'[i] = relay[i]
          /\ relay'[Len(relay) + 1] = act
          /\ \A i \in DOMAIN relay' : i \in DOMAIN relay \/ i = Len(relay) + 1
      BY <1>3, <2>1
    <2>3. /\ page' \in [pc : {"idle", "confirm"}, rec : Record \cup {None}, signIn : BOOLEAN]
          /\ page'.pc # "idle" => page'.rec = rec /\ rec.calls = Len(relay) + 1
      BY <1>3 DEF Passkey!Stop, Passkey!Idle, PasskeyInv, PasskeyTypes
    <2>4. PasskeyTypes' BY <1>1, <1>3, <2>2, <2>3 DEF PasskeyInv, PasskeyTypes
    <2>5. rec.calls = Len(relay) + 1 => Named(rec)'
      BY <1>1, <1>3, <2>1, <2>2 DEF Named, Spent
    <2>6. SavedInv' BY <1>3, <2>5 DEF NoneIsNoRecord, SavedInv, Kept, Blocked
    <2>7. PageInv' BY <1>3, <2>1, <2>3 DEF NoneIsNoRecord, PageInv
    <2>8. OneFirstAction' BY <1>1, <2>2 DEF PasskeyInv, OneFirstAction, Spent
    <2>. QED BY <2>4, <2>6, <2>7, <2>8 DEF PasskeyInv
  <1>4. \A st \in {"pending", "unknown", "confirmed", "failed"} :
           Passkey!Known(st) \in Record /\ Passkey!Known(st).calls = Len(relay) + 1 /\ Passkey!Known(st).wallet = page.rec.wallet
    <2> TAKE st \in {"pending", "unknown", "confirmed", "failed"}
    <2>1. Len(relay) + 1 \in Nat /\ st \in Status BY DEF PasskeyInv, PasskeyTypes, Status
    <2> DEFINE yes == st = "confirmed"
    <2>2. yes \in BOOLEAN OBVIOUS
    <2>3. Passkey!Known(st) = [page.rec EXCEPT !.calls = Len(relay) + 1, !.status = st, !.hash = yes] BY DEF Passkey!Known
    <2> HIDE DEF yes
    <2>. QED BY <1>1, <2>1, <2>2, <2>3 DEF Record
  <1>5. Blocked(page.rec) BY <1>1 DEF Blocked
  <1>6. CASE /\ relay' = Passkey!Accepted(page.rec.wallet)
             /\ \/ saved' = Passkey!Known("pending") /\ page' = [page EXCEPT !.pc = "confirm", !.rec = Passkey!Known("pending")]
                \/ saved' = Passkey!Known("unknown") /\ Passkey!Stop(Passkey!Known("unknown"))
                \/ saved' = page.rec /\ Passkey!Stop(page.rec)
    BY <1>1, <1>3, <1>4, <1>5, <1>6 DEF Passkey!Accepted
  <1>7. CASE \E st \in {"confirmed", "failed"} :
                /\ relay' = Append(relay, [wallet |-> page.rec.wallet, status |-> st])
                /\ saved' = Passkey!Known(st) /\ Passkey!Stop(Passkey!Known(st))
    BY <1>3, <1>4, <1>7
  <1>. QED BY <1>2, <1>6, <1>7 DEF Passkey!Execute, Passkey!Persist

\* "a reload cannot submit the same first action twice" (passkey-bootstrap.ts): whatever
\* wallets are tried, answers lost and pages reloaded with an action on its way, all
\* but one of the actions of a wallet were refused without reaching the chain.
THEOREM FirstActionOnce ==
  ASSUME NoneIsNoRecord PROVE Passkey!Spec => []OneFirstAction
  <1>1. PasskeyInv /\ [Passkey!Next]_(Passkey!vars) => PasskeyInv'
    <2> SUFFICES ASSUME PasskeyInv, [Passkey!Next]_(Passkey!vars) PROVE PasskeyInv' OBVIOUS
    <2>1. CASE UNCHANGED Passkey!vars
      BY <2>1 DEF Passkey!vars, PasskeyInv, PasskeyTypes, SavedInv, Kept, PageInv, OneFirstAction, Spent, Named, Blocked
    <2>2. CASE Passkey!Next
      BY <2>2, ActivateInv, AlreadyRegisteredInv, ArriveInv, ReadStatusInv, ExecuteInv, ConfirmInv,
         ReconcileInv, ReloadInv, SettleInv DEF Passkey!Next
    <2>. QED BY <2>1, <2>2
  <1>2. PasskeyInv => OneFirstAction BY DEF PasskeyInv
  <1>. QED BY <1>1, <1>2, PasskeyInit, PTL DEF Passkey!Spec

-----------------------------------------------------------------------------
(***************************************************************************)
(* Registering the identity of an agent.                                   *)
(***************************************************************************)
\* reconcileBlockWindow is a positive number of blocks.
RegistrationParameters == Window \in Nat \ {0}

ResultRecord ==
  [st : {"none", "PENDING", "UNKNOWN", "FAILED", "CONFIRMED"},
   id : BOOLEAN, calls : BOOLEAN, hash : BOOLEAN]

LogRecord ==
  [mintIntent : BOOLEAN, cursor : Nat, mintResult : ResultRecord, mintRec : ResultRecord,
   uriIntent : BOOLEAN, uriResult : ResultRecord, uriRec : ResultRecord, op : BOOLEAN]

PagePc == {"idle", "prepareMint", "signMint", "awaitMint", "recordMint",
           "prepareUri", "signUri", "awaitUri", "recordUri"}

ReconcilePc == {"recStart", "recScan", "recReverted", "recFound", "recNotFound", "recAgent",
                "recUnreadable", "recMint", "recReread", "recUri", "recUriUnknown",
                "recUriConfirmed", "recIdentity", "recEnd"}

TabRecord ==
  [pc : PagePc \cup ReconcilePc, then : {"idle", "uri"}, snap : LogRecord, fin : Nat,
   res : ResultRecord]

Transaction == [st : {"none", "pool", "mined", "reverted"}, blk : Nat]

WellTyped ==
  /\ log \in LogRecord /\ tab \in [Tabs -> TabRecord]
  /\ mint \in Transaction /\ uri \in Transaction
  /\ head \in Nat /\ final \in Nat

MintFinal == mint.st = "mined" /\ mint.blk <= final
UriFinal == uri.st = "mined" /\ uri.blk <= final

-----------------------------------------------------------------------------
(* The reservations. *)

\* A reservation is made once, and only its maker may still sign: the passkey has
\* not signed anything before there is one, nor while its maker is about to.
Reserved ==
  /\ mints \in {0, 1} /\ uris \in {0, 1}
  /\ ~log.mintIntent => mints = 0
  /\ ~log.uriIntent => uris = 0
  /\ \A x \in Tabs : tab[x].pc = "signMint" => log.mintIntent /\ mints = 0
  /\ \A x \in Tabs : tab[x].pc = "signUri" => log.uriIntent /\ uris = 0
  /\ \A x, y \in Tabs : tab[x].pc = tab[y].pc /\ tab[x].pc \in {"signMint", "signUri"} => x = y

(* The reconciles. *)

\* A reconcile reads the chain at a block that was final, and is about to confirm only
\* what was final there.
ReadsFinal ==
  /\ \A x \in Tabs :
       /\ tab[x].fin <= final
       /\ tab[x].pc \in {"recFound", "recMint"} => MintFinal
       /\ tab[x].pc = "recUriConfirmed" => UriFinal
  /\ ReconciledIsFinal

RegistrationInv == WellTyped /\ Reserved /\ ReadsFinal

-----------------------------------------------------------------------------
(* Types. *)

LEMMA ResultTypes ==
  ASSUME NEW st \in {"none", "PENDING", "UNKNOWN", "FAILED", "CONFIRMED"},
         NEW i \in BOOLEAN, NEW c \in BOOLEAN, NEW x \in BOOLEAN
  PROVE  Registration!Result(st, i, c, x) \in ResultRecord
  BY DEF Registration!Result, ResultRecord

LEMMA ReadTypes ==
  ASSUME NEW l \in LogRecord
  PROVE  /\ Registration!MintOutcome(l) \in ResultRecord /\ Registration!UriOutcome(l) \in ResultRecord
         /\ Registration!MintHash(l) \in BOOLEAN /\ Registration!Known(l) \in BOOLEAN
         /\ Registration!MintOutcome(l).calls \in BOOLEAN
  BY DEF LogRecord, ResultRecord, Registration!MintOutcome, Registration!UriOutcome, Registration!MintHash, Registration!Known

LEMMA IdleTypes == Registration!NoLog \in LogRecord /\ Registration!Idle \in TabRecord
  BY DEF Registration!NoLog, LogRecord, Registration!NoResult, ResultRecord, Registration!Idle, TabRecord, PagePc

LEMMA RegistrationInit == Registration!Init => RegistrationInv
  <1> SUFFICES ASSUME Registration!Init PROVE RegistrationInv OBVIOUS
  <1>1. WellTyped BY IdleTypes DEF Registration!Init, WellTyped, Registration!Unsent, Transaction
  <1>2. Reserved BY DEF Registration!Init, Reserved, Registration!NoLog, Registration!Idle
  <1>3. ReadsFinal BY DEF Registration!Init, ReadsFinal, Registration!Idle, ReconciledIsFinal, Registration!NoLog, Registration!NoResult
  <1>. QED BY <1>1, <1>2, <1>3 DEF RegistrationInv

\* The scan never looks past the block it reads at.
LEMMA ScanBound ==
  ASSUME RegistrationParameters, NEW from \in Nat, NEW fin \in Nat
  PROVE  /\ Registration!ScanTo(from, fin) \in Nat /\ Registration!ScanTo(from, fin) <= fin
         /\ Registration!NextCursor(from, fin) \in Nat
  BY DEF RegistrationParameters, Registration!ScanTo, Registration!NextCursor

-----------------------------------------------------------------------------
(* The steps of a page and of its reconciles. *)

\* What an event leaves of the reservations and of what was confirmed.
Honest(l) ==
  /\ l \in LogRecord
  /\ l.mintIntent = log.mintIntent /\ l.uriIntent = log.uriIntent
  /\ l.mintRec.st = "CONFIRMED" => MintFinal
  /\ l.uriRec.st = "CONFIRMED" => UriFinal

\* What a page may turn to without a reservation.
Modest(w) ==
  /\ w \in TabRecord /\ w.fin <= final
  /\ w.pc \notin {"signMint", "signUri"}
  /\ w.pc \in {"recFound", "recMint"} => MintFinal
  /\ w.pc = "recUriConfirmed" => UriFinal

LEMMA ModestStep ==
  ASSUME RegistrationInv, NEW x \in Tabs, NEW w, Modest(w), tab' = [tab EXCEPT ![x] = w],
         Honest(log'), UNCHANGED Registration!chain
  PROVE  RegistrationInv'
  <1>1. /\ head' = head /\ final' = final /\ mint' = mint /\ uri' = uri
        /\ mints' = mints /\ uris' = uris
    BY DEF Registration!chain
  <1>2. \A y \in Tabs : tab'[y] = IF y = x THEN w ELSE tab[y]
    BY DEF RegistrationInv, WellTyped
  <1>3. WellTyped' BY <1>1 DEF RegistrationInv, WellTyped, Honest, Modest
  <1>4. Reserved' BY <1>1, <1>2 DEF RegistrationInv, Reserved, Honest, Modest
  <1>5. ReadsFinal'
    BY <1>1, <1>2
    DEF RegistrationInv, ReadsFinal, ReconciledIsFinal, Honest, Modest, MintFinal, UriFinal
  <1>. QED BY <1>3, <1>4, <1>5 DEF RegistrationInv

\* What the invariant says of one tab.
LEMMA TabFacts ==
  ASSUME RegistrationInv, NEW x \in Tabs
  PROVE  /\ tab[x] \in TabRecord /\ tab[x].fin <= final /\ final \in Nat /\ head \in Nat
         /\ tab[x].snap \in LogRecord /\ tab[x].then \in {"idle", "uri"}
         /\ tab[x].res \in ResultRecord /\ tab[x].fin \in Nat
         /\ mint \in Transaction /\ uri \in Transaction
         /\ mint.blk \in Nat /\ uri.blk \in Nat
         /\ log \in LogRecord /\ Honest(log)
  BY DEF RegistrationInv, WellTyped, ReadsFinal, ReconciledIsFinal, TabRecord, Transaction,
         Honest, MintFinal, UriFinal

\* Where a page may go without having read or reserved anything.
PlainPc == (PagePc \cup ReconcilePc) \ {"signMint", "signUri", "recFound", "recMint", "recUriConfirmed"}

LEMMA ModestPlaces ==
  ASSUME RegistrationInv, NEW x \in Tabs
  PROVE  /\ Modest(Registration!Idle)
         /\ \A pc \in PlainPc :
              /\ Modest([Registration!Idle EXCEPT !.pc = pc])
              /\ \A t \in {"idle", "uri"} : Modest([Registration!Idle EXCEPT !.pc = pc, !.then = t])
              /\ Modest([tab[x] EXCEPT !.pc = pc])
  <1>0. PlainPc \subseteq PagePc \cup ReconcilePc /\
        \A pc \in PlainPc : pc \notin {"signMint", "signUri", "recFound", "recMint", "recUriConfirmed"}
    BY DEF PlainPc
  <1>1. Modest(Registration!Idle) BY TabFacts, IdleTypes DEF Modest, Registration!Idle
  <1>2. ASSUME NEW pc \in PlainPc
        PROVE  /\ Modest([Registration!Idle EXCEPT !.pc = pc])
               /\ \A t \in {"idle", "uri"} : Modest([Registration!Idle EXCEPT !.pc = pc, !.then = t])
    <2>1. Registration!Idle.fin = 0 /\ 0 <= final BY TabFacts DEF Registration!Idle
    <2>2. ASSUME NEW w, w \in TabRecord, w.pc = pc, w.fin = 0 PROVE Modest(w)
      BY <1>0, <2>1, <2>2 DEF Modest
    <2>3. /\ [Registration!Idle EXCEPT !.pc = pc] \in TabRecord
          /\ [Registration!Idle EXCEPT !.pc = pc].pc = pc /\ [Registration!Idle EXCEPT !.pc = pc].fin = 0
      BY <1>0, <2>1, IdleTypes DEF TabRecord
    <2>4. ASSUME NEW t \in {"idle", "uri"}
          PROVE  /\ [Registration!Idle EXCEPT !.pc = pc, !.then = t] \in TabRecord
                 /\ [Registration!Idle EXCEPT !.pc = pc, !.then = t].pc = pc
                 /\ [Registration!Idle EXCEPT !.pc = pc, !.then = t].fin = 0
      BY <1>0, <2>1, IdleTypes DEF TabRecord
    <2>5. Modest([Registration!Idle EXCEPT !.pc = pc]) BY <2>2, <2>3
    <2>6. \A t \in {"idle", "uri"} : Modest([Registration!Idle EXCEPT !.pc = pc, !.then = t]) BY <2>2, <2>4
    <2>. QED BY <2>5, <2>6
  <1>3. ASSUME NEW pc \in PlainPc PROVE Modest([tab[x] EXCEPT !.pc = pc])
    <2> DEFINE w == [tab[x] EXCEPT !.pc = pc]
    <2>1. w \in TabRecord /\ w.pc = pc /\ w.fin = tab[x].fin BY <1>0, TabFacts DEF TabRecord
    <2> HIDE DEF w
    <2>2. Modest(w) BY <1>0, <2>1, TabFacts DEF Modest
    <2>. QED BY <2>2 DEF w
  <1>. QED BY <1>1, <1>2, <1>3

\* ... among them all that a page and an append do.
LEMMA PlainPlaces ==
  {"prepareMint", "prepareUri", "recStart", "recordMint", "recordUri", "recEnd", "recScan",
   "recAgent", "recUri", "recReread", "recIdentity", "recReverted", "recNotFound",
   "recUnreadable", "recUriUnknown", "awaitMint", "awaitUri"} \subseteq PlainPc
  BY DEF PlainPc, PagePc, ReconcilePc

\* The page of a tab, the reservations and the signatures apart.
LEMMA PagesInv ==
  ASSUME RegistrationInv, NEW x \in Tabs,
         Registration!Start(x) \/ Registration!MintAnswer(x) \/ Registration!RecordMint(x) \/ Registration!UriAnswer(x) \/ Registration!RecordUri(x) \/ Registration!CloseTab(x)
  PROVE  RegistrationInv'
  <1> DEFINE v == tab[x]
  <1>0. tab \in [Tabs -> TabRecord] BY DEF RegistrationInv, WellTyped
  <1>1. UNCHANGED Registration!chain
    BY DEF Registration!Start, Registration!MintAnswer, Registration!RecordMint, Registration!UriAnswer, Registration!RecordUri, Registration!CloseTab
  <1>2. /\ Modest(Registration!Idle)
        /\ Modest([tab[x] EXCEPT !.pc = "prepareMint"])
        /\ Modest([Registration!Idle EXCEPT !.pc = "prepareUri"])
        /\ \A t \in {"idle", "uri"} : Modest([Registration!Idle EXCEPT !.pc = "recStart", !.then = t])
    BY ModestPlaces, PlainPlaces
  <1>3. CASE Registration!Start(x)
    <2>1. Honest(log') BY <1>3, TabFacts DEF Registration!Start, Honest
    <2>2. PICK w : Modest(w) /\ tab' = [tab EXCEPT ![x] = w]
      BY <1>0, <1>2, <1>3 DEF Registration!Start, Registration!Goto, Registration!GoPage, Registration!Reconcile
    <2>. QED BY <1>1, <2>1, <2>2, ModestStep
  <1>4. CASE Registration!MintAnswer(x) \/ Registration!UriAnswer(x)
    <2>1. Honest(log') BY <1>4, TabFacts DEF Registration!MintAnswer, Registration!UriAnswer, Honest
    <2>2. PICK res \in ResultRecord, pc \in {"recordMint", "recordUri"} :
            tab' = [tab EXCEPT ![x].pc = pc, ![x].res = res]
      BY <1>4, ResultTypes DEF Registration!MintAnswer, Registration!UriAnswer
    <2> DEFINE w == [v EXCEPT !.pc = pc, !.res = res]
    <2>3. tab' = [tab EXCEPT ![x] = w] BY <1>0, <2>2
    <2>4. w \in TabRecord /\ w.pc = pc /\ w.fin = v.fin BY TabFacts DEF TabRecord, PagePc
    <2> HIDE DEF w
    <2>5. Modest(w) BY <2>4, TabFacts DEF Modest
    <2>. QED BY <1>1, <2>1, <2>3, <2>5, ModestStep
  <1>5. CASE Registration!RecordMint(x)
    <2>1. Honest(log') BY <1>5, TabFacts DEF Registration!RecordMint, Honest, LogRecord
    <2>2. PICK w : Modest(w) /\ tab' = [tab EXCEPT ![x] = w]
      BY <1>2, <1>5 DEF Registration!RecordMint, Registration!GoPage, Registration!Reconcile, Registration!GiveUp
    <2>. QED BY <1>1, <2>1, <2>2, ModestStep
  <1>6. CASE Registration!RecordUri(x)
    <2>1. Honest(log') BY <1>6, TabFacts DEF Registration!RecordUri, Honest, LogRecord
    <2>2. PICK w : Modest(w) /\ tab' = [tab EXCEPT ![x] = w]
      BY <1>2, <1>6 DEF Registration!RecordUri, Registration!GoPage, Registration!Reconcile, Registration!GiveUp
    <2>. QED BY <1>1, <2>1, <2>2, ModestStep
  <1>7. CASE Registration!CloseTab(x)
    <2>1. Honest(log') BY <1>7, TabFacts DEF Registration!CloseTab, Honest
    <2>. QED BY <1>1, <1>2, <1>7, <2>1, ModestStep DEF Registration!CloseTab, Registration!GiveUp
  <1>. QED BY <1>3, <1>4, <1>5, <1>6, <1>7

\* Appending what is honest, then stopping or going on.
LEMMA AppendInv ==
  ASSUME RegistrationInv, NEW x \in Tabs, NEW l, Honest(l), NEW pc \in PlainPc,
         Registration!AppendThen(x, l, pc), UNCHANGED Registration!chain
  PROVE  RegistrationInv'
  <1>0. tab \in [Tabs -> TabRecord] BY DEF RegistrationInv, WellTyped
  <1>1. /\ Modest(Registration!Idle) /\ Modest([tab[x] EXCEPT !.pc = pc])
        /\ \A t \in {"idle", "uri"} : Modest([Registration!Idle EXCEPT !.pc = "recEnd", !.then = t])
    BY ModestPlaces, PlainPlaces
  <1>2. tab[x].then \in {"idle", "uri"} BY TabFacts
  <1>3. Honest(log) BY TabFacts
  <1>4. log' = l \/ log' = log BY DEF Registration!AppendThen
  <1>5. log' \in LogRecord /\ Honest(log') BY <1>3, <1>4 DEF Honest
  <1>6. PICK w : Modest(w) /\ tab' = [tab EXCEPT ![x] = w]
    BY <1>0, <1>1, <1>2 DEF Registration!AppendThen, Registration!EndReconcile, Registration!Goto, Registration!GiveUp
  <1>. QED BY <1>5, <1>6, ModestStep

\* What each append of a reconcile adds is honest.
LEMMA HonestMint ==
  ASSUME RegistrationInv, NEW r \in ResultRecord, NEW c \in Nat, r.st = "CONFIRMED" => MintFinal
  PROVE  /\ Honest([log EXCEPT !.mintRec = r])
         /\ Honest([log EXCEPT !.mintRec = r, !.cursor = c])
  <1>1. log \in LogRecord /\ Honest(log) BY DEF RegistrationInv, WellTyped, ReadsFinal,
        ReconciledIsFinal, Honest, MintFinal, UriFinal
  <1>2. [log EXCEPT !.mintRec = r] \in LogRecord /\ [log EXCEPT !.mintRec = r, !.cursor = c] \in LogRecord
    BY <1>1 DEF LogRecord
  <1>. QED BY <1>1, <1>2 DEF Honest, LogRecord

LEMMA HonestUri ==
  ASSUME RegistrationInv, NEW r \in ResultRecord, r.st = "CONFIRMED" => UriFinal
  PROVE  /\ Honest([log EXCEPT !.uriRec = r])
         /\ Honest([log EXCEPT !.op = TRUE])
  <1>1. log \in LogRecord /\ Honest(log) BY DEF RegistrationInv, WellTyped, ReadsFinal,
        ReconciledIsFinal, Honest, MintFinal, UriFinal
  <1>2. [log EXCEPT !.uriRec = r] \in LogRecord /\ [log EXCEPT !.op = TRUE] \in LogRecord
    BY <1>1 DEF LogRecord
  <1>. QED BY <1>1, <1>2 DEF Honest, LogRecord

\* The appends of a reconcile.
LEMMA AppendsInv ==
  ASSUME RegistrationParameters, RegistrationInv, NEW x \in Tabs,
         \/ Registration!AppendReverted(x) \/ Registration!AppendFound(x) \/ Registration!AppendNotFound(x) \/ Registration!AppendUnreadable(x)
         \/ Registration!AppendMintConfirmed(x) \/ Registration!AppendUriUnknown(x) \/ Registration!AppendUriConfirmed(x)
         \/ Registration!AppendOperation(x)
  PROVE  RegistrationInv'
  <1>1. UNCHANGED Registration!chain
    BY DEF Registration!AppendReverted, Registration!AppendFound, Registration!AppendNotFound, Registration!AppendUnreadable, Registration!AppendMintConfirmed,
           Registration!AppendUriUnknown, Registration!AppendUriConfirmed, Registration!AppendOperation
  <1>2. {"recEnd", "recAgent", "recReread", "recIdentity"} \subseteq PlainPc BY PlainPlaces
  <1>3. tab[x].snap \in LogRecord /\ tab[x].fin \in Nat /\ mint.blk \in Nat BY TabFacts
  <1>4. Registration!MintHash(tab[x].snap) \in BOOLEAN /\ Registration!MintOutcome(tab[x].snap).calls \in BOOLEAN
    BY <1>3, ReadTypes
  <1>5. tab[x].pc \in {"recFound", "recMint"} => MintFinal
    BY DEF RegistrationInv, ReadsFinal
  <1>6. tab[x].pc = "recUriConfirmed" => UriFinal
    BY DEF RegistrationInv, ReadsFinal
  <1>7. \A st, i, c, d : Registration!Result(st, i, c, d).st = st BY DEF Registration!Result
  <1>8. log.cursor \in Nat /\ log \in LogRecord BY TabFacts DEF LogRecord
  <1>9. CASE Registration!AppendReverted(x)
    <2> DEFINE r == Registration!Result("FAILED", TRUE, FALSE, TRUE)
    <2>1. r \in ResultRecord /\ r.st = "FAILED" BY ResultTypes, <1>7
    <2> HIDE DEF r
    <2>2. Honest([log EXCEPT !.mintRec = r]) BY <2>1, <1>8, HonestMint
    <2>3. Registration!AppendThen(x, [log EXCEPT !.mintRec = r], "recEnd") BY <1>9 DEF Registration!AppendReverted, r
    <2>. QED BY <1>1, <1>2, <2>2, <2>3, AppendInv
  <1>10. CASE Registration!AppendFound(x)
    <2> DEFINE r == Registration!Result("CONFIRMED", TRUE, FALSE, TRUE)
               c == mint.blk + 1
    <2>0. c \in Nat BY <1>3
    <2>1. r \in ResultRecord BY ResultTypes
    <2>2. MintFinal BY <1>5, <1>10 DEF Registration!AppendFound
    <2>3. Registration!AppendThen(x, [log EXCEPT !.mintRec = r, !.cursor = c], "recAgent")
      BY <1>10 DEF Registration!AppendFound
    <2> HIDE DEF r, c
    <2>4. Honest([log EXCEPT !.mintRec = r, !.cursor = c]) BY <2>0, <2>1, <2>2, HonestMint
    <2>. QED BY <1>1, <1>2, <2>3, <2>4, AppendInv
  <1>11. CASE Registration!AppendNotFound(x)
    <2> DEFINE r == Registration!Result("PENDING", FALSE, FALSE, Registration!MintHash(tab[x].snap))
               c == Registration!NextCursor(tab[x].snap.cursor, tab[x].fin)
    <2>0. r \in ResultRecord BY <1>4, ResultTypes
    <2>1. r \in ResultRecord /\ r.st = "PENDING" BY <2>0, <1>7
    <2>2. c \in Nat BY <1>3, ScanBound DEF LogRecord
    <2>3. Registration!AppendThen(x, [log EXCEPT !.mintRec = r, !.cursor = c], "recEnd")
      BY <1>11 DEF Registration!AppendNotFound
    <2> HIDE DEF r, c
    <2>4. Honest([log EXCEPT !.mintRec = r, !.cursor = c]) BY <2>1, <2>2, HonestMint
    <2>. QED BY <1>1, <1>2, <2>3, <2>4, AppendInv
  <1>12. CASE Registration!AppendUnreadable(x)
    <2> DEFINE r == Registration!Result("UNKNOWN", TRUE, FALSE, Registration!MintHash(tab[x].snap))
    <2>0. r \in ResultRecord BY <1>4, ResultTypes
    <2>1. r \in ResultRecord /\ r.st = "UNKNOWN" BY <2>0, <1>7
    <2>2. Registration!AppendThen(x, [log EXCEPT !.mintRec = r], "recEnd") BY <1>12 DEF Registration!AppendUnreadable
    <2> HIDE DEF r
    <2>3. Honest([log EXCEPT !.mintRec = r]) BY <2>1, <1>8, HonestMint
    <2>. QED BY <1>1, <1>2, <2>2, <2>3, AppendInv
  <1>13. CASE Registration!AppendMintConfirmed(x)
    <2> DEFINE r == Registration!Result("CONFIRMED", TRUE, Registration!MintOutcome(tab[x].snap).calls, TRUE)
    <2>1. r \in ResultRecord BY <1>4, ResultTypes
    <2>2. MintFinal BY <1>5, <1>13 DEF Registration!AppendMintConfirmed
    <2>3. Registration!AppendThen(x, [log EXCEPT !.mintRec = r], "recReread") BY <1>13 DEF Registration!AppendMintConfirmed
    <2> HIDE DEF r
    <2>4. Honest([log EXCEPT !.mintRec = r]) BY <2>1, <2>2, <1>8, HonestMint
    <2>. QED BY <1>1, <1>2, <2>3, <2>4, AppendInv
  <1>14. CASE Registration!AppendUriUnknown(x)
    <2> DEFINE r == Registration!Result("UNKNOWN", TRUE, FALSE, FALSE)
    <2>1. r \in ResultRecord /\ r.st = "UNKNOWN" BY <1>7, ResultTypes
    <2>2. Registration!AppendThen(x, [log EXCEPT !.uriRec = r], "recEnd") BY <1>14 DEF Registration!AppendUriUnknown
    <2> HIDE DEF r
    <2>3. Honest([log EXCEPT !.uriRec = r]) BY <2>1, HonestUri
    <2>. QED BY <1>1, <1>2, <2>2, <2>3, AppendInv
  <1>15. CASE Registration!AppendUriConfirmed(x)
    <2> DEFINE r == Registration!Result("CONFIRMED", TRUE, FALSE, FALSE)
    <2>1. r \in ResultRecord BY ResultTypes
    <2>2. UriFinal BY <1>6, <1>15 DEF Registration!AppendUriConfirmed
    <2>3. Registration!AppendThen(x, [log EXCEPT !.uriRec = r], "recIdentity") BY <1>15 DEF Registration!AppendUriConfirmed
    <2> HIDE DEF r
    <2>4. Honest([log EXCEPT !.uriRec = r]) BY <2>1, <2>2, HonestUri
    <2>. QED BY <1>1, <1>2, <2>3, <2>4, AppendInv
  <1>16. CASE Registration!AppendOperation(x)
    <2>1. Honest([log EXCEPT !.op = TRUE])
      <3>1. log.uriRec \in ResultRecord /\ Honest(log) BY TabFacts DEF LogRecord
      <3>2. log.uriRec.st = "CONFIRMED" => UriFinal BY <3>1 DEF Honest
      <3>. QED BY <3>1, <3>2, HonestUri
    <2>2. CASE Registration!AppendThen(x, [log EXCEPT !.op = TRUE], "recEnd")
      BY <1>1, <1>2, <2>1, <2>2, AppendInv
    <2>3. CASE Registration!EndReconcile(x) /\ UNCHANGED log
      <3>1. Modest([Registration!Idle EXCEPT !.pc = "recEnd", !.then = tab[x].then])
        BY TabFacts, ModestPlaces, PlainPlaces
      <3>2. Honest(log') BY <2>3, TabFacts DEF Honest
      <3>. QED BY <1>1, <2>3, <3>1, <3>2, ModestStep DEF Registration!EndReconcile
    <2>. QED BY <1>16, <2>2, <2>3 DEF Registration!AppendOperation
  <1>. QED BY <1>9, <1>10, <1>11, <1>12, <1>13, <1>14, <1>15, <1>16

\* The reads of a reconcile.
LEMMA ReadsInv ==
  ASSUME RegistrationParameters, RegistrationInv, NEW x \in Tabs,
         Registration!ReadEvents(x) \/ Registration!Scan(x) \/ Registration!ReadAgent(x) \/ Registration!Reread(x) \/ Registration!CompareUri(x) \/ Registration!Return(x)
  PROVE  RegistrationInv'
  <1> DEFINE v == tab[x]
  <1>0. tab \in [Tabs -> TabRecord] BY DEF RegistrationInv, WellTyped
  <1>1. UNCHANGED Registration!chain
    BY DEF Registration!ReadEvents, Registration!Scan, Registration!ReadAgent, Registration!Reread, Registration!CompareUri, Registration!Return
  <1>2. log' = log
    BY DEF Registration!ReadEvents, Registration!Scan, Registration!ReadAgent, Registration!Reread, Registration!CompareUri, Registration!Return
  <1>3. Honest(log') BY <1>2, TabFacts DEF Honest
  <1>4. /\ Modest(Registration!Idle) /\ Modest([Registration!Idle EXCEPT !.pc = "prepareUri"])
        /\ \A pc \in PlainPc : Modest([tab[x] EXCEPT !.pc = pc])
    BY ModestPlaces, PlainPlaces
  <1>5. ASSUME NEW pc \in PagePc \cup ReconcilePc, NEW s \in LogRecord, NEW f \in Nat, f <= final,
               pc \notin {"signMint", "signUri"}, pc \in {"recFound", "recMint"} => MintFinal,
               pc = "recUriConfirmed" => UriFinal
        PROVE  Modest([v EXCEPT !.fin = f, !.pc = pc, !.snap = s])
    <2> DEFINE w == [v EXCEPT !.fin = f, !.pc = pc, !.snap = s]
    <2>1. w \in TabRecord /\ w.pc = pc /\ w.fin = f BY <1>5, TabFacts DEF TabRecord
    <2> HIDE DEF w
    <2>2. Modest(w) BY <1>5, <2>1 DEF Modest
    <2>. QED BY <2>2 DEF w
  <1>6. CASE Registration!ReadEvents(x)
    <2>1. CASE bound
      <3> DEFINE w == [v EXCEPT !.fin = v.fin, !.pc = "recScan", !.snap = log]
      <3>1. tab' = [tab EXCEPT ![x] = w] BY <1>0, <1>6, <2>1, TabFacts DEF Registration!ReadEvents, TabRecord
      <3>2. Modest(w) BY <1>5, TabFacts DEF PagePc, ReconcilePc
      <3> HIDE DEF w
      <3>. QED BY <1>1, <1>3, <3>1, <3>2, ModestStep
    <2>2. CASE ~bound
      BY <1>1, <1>3, <1>4, <1>6, <2>2, ModestStep DEF Registration!ReadEvents, Registration!GiveUp
    <2>. QED BY <2>1, <2>2
  <1>7. CASE Registration!Scan(x)
    <2> DEFINE s == v.snap
               reverted == Registration!Known(s) /\ Registration!MintHash(s) /\ mint.st = "reverted"
               early == Registration!MintHash(s) /\ mint.st = "mined" /\ mint.blk > Registration!FinalizedBlock
               p == CASE reverted -> "recReverted"
                      [] ~reverted /\ Registration!Known(s) /\ ~early -> "recAgent"
                      [] ~reverted /\ (~Registration!Known(s) \/ early) ->
                           IF s.cursor > Registration!FinalizedBlock THEN "recEnd"
                           ELSE IF /\ mint.st = "mined" /\ s.cursor <= mint.blk
                                   /\ mint.blk <= Registration!ScanTo(s.cursor, Registration!FinalizedBlock)
                                THEN "recFound" ELSE "recNotFound"
               w == [v EXCEPT !.fin = Registration!FinalizedBlock, !.pc = p, !.snap = v.snap]
    <2>1. tab' = [tab EXCEPT ![x] = w] BY <1>0, <1>7, TabFacts DEF Registration!Scan, TabRecord
    <2>2. Registration!Known(s) \in BOOLEAN /\ Registration!MintHash(s) \in BOOLEAN /\ s.cursor \in Nat
      BY TabFacts, ReadTypes DEF LogRecord
    <2>3. Registration!ScanTo(s.cursor, final) \in Nat /\ Registration!ScanTo(s.cursor, final) <= final
      BY <2>2, TabFacts, ScanBound
    <2>4. p \in {"recReverted", "recAgent", "recEnd", "recFound", "recNotFound"}
      BY <2>2
    <2>5. p = "recFound" => mint.st = "mined" /\ mint.blk <= Registration!ScanTo(s.cursor, final)
      BY <2>2 DEF Registration!FinalizedBlock
    <2>6. p = "recFound" => MintFinal
      BY <2>3, <2>5, TabFacts DEF MintFinal
    <2> HIDE DEF p
    <2>7. Modest([v EXCEPT !.fin = final, !.pc = p, !.snap = v.snap])
      <3>1. p \in PagePc \cup ReconcilePc /\ p \notin {"signMint", "signUri", "recMint", "recUriConfirmed"}
        BY <2>4 DEF PagePc, ReconcilePc
      <3>2. v.snap \in LogRecord /\ final \in Nat /\ final <= final BY TabFacts
      <3>. QED BY <1>5, <2>6, <3>1, <3>2
    <2>8. Modest(w) BY <2>7 DEF Registration!FinalizedBlock
    <2> HIDE DEF w
    <2>. QED BY <1>1, <1>3, <2>1, <2>8, ModestStep
  <1>8. CASE Registration!ReadAgent(x)
    <2>1. CASE mint.st = "mined" /\ mint.blk <= v.fin
      <3> DEFINE p == IF ~Registration!MintOutcome(log).calls \/ ~Registration!Known(log) THEN "recMint" ELSE "recUri"
                 w == [v EXCEPT !.fin = v.fin, !.pc = p, !.snap = log]
      <3>1. tab' = [tab EXCEPT ![x] = w] BY <1>0, <1>8, <2>1, TabFacts DEF Registration!ReadAgent, TabRecord
      <3>2. MintFinal BY <2>1, TabFacts DEF MintFinal
      <3>3. p \in {"recMint", "recUri"} OBVIOUS
      <3> HIDE DEF p
      <3>4. Modest(w) BY <1>5, <3>2, <3>3, TabFacts DEF PagePc, ReconcilePc
      <3> HIDE DEF w
      <3>. QED BY <1>1, <1>3, <3>1, <3>4, ModestStep
    <2>2. CASE ~(mint.st = "mined" /\ mint.blk <= v.fin)
      <3>1. tab' = [tab EXCEPT ![x] = [v EXCEPT !.pc = "recUnreadable"]]
        BY <1>0, <1>8, <2>2 DEF Registration!ReadAgent, Registration!Goto
      <3>2. Modest([v EXCEPT !.pc = "recUnreadable"]) BY <1>4, PlainPlaces
      <3>. QED BY <1>1, <1>3, <3>1, <3>2, ModestStep
    <2>. QED BY <2>1, <2>2
  <1>9. CASE Registration!Reread(x)
    <2> DEFINE w == [v EXCEPT !.fin = v.fin, !.pc = "recUri", !.snap = log]
    <2>1. tab' = [tab EXCEPT ![x] = w] BY <1>0, <1>9, TabFacts DEF Registration!Reread, TabRecord
    <2>2. Modest(w) BY <1>5, TabFacts DEF PagePc, ReconcilePc
    <2> HIDE DEF w
    <2>. QED BY <1>1, <1>3, <2>1, <2>2, ModestStep
  <1>10. CASE Registration!CompareUri(x)
    <2> DEFINE s == v.snap
               updated == uri.st = "mined" /\ uri.blk <= v.fin
               p == CASE Registration!State(s) \in {"failed", "mint_pending"} -> "recEnd"
                      [] Registration!State(s) \notin {"failed", "mint_pending"} /\ updated # s.uriIntent -> "recUriUnknown"
                      [] Registration!State(s) \notin {"failed", "mint_pending"} /\ ~updated /\ ~s.uriIntent -> "recEnd"
                      [] Registration!State(s) = "registered" /\ updated /\ s.uriIntent -> "recIdentity"
                      [] OTHER -> "recUriConfirmed"
               w == [v EXCEPT !.pc = p]
    <2>1. tab' = [tab EXCEPT ![x] = w] BY <1>0, <1>10 DEF Registration!CompareUri, Registration!Goto
    <2>2. s.uriIntent \in BOOLEAN BY TabFacts DEF LogRecord
    <2>3. PICK st : st = Registration!State(s) OBVIOUS
    <2>4. /\ p \in {"recEnd", "recUriUnknown", "recIdentity", "recUriConfirmed"}
          /\ p = "recUriConfirmed" => updated
      BY <2>2, <2>3
    <2>5. p = "recUriConfirmed" => UriFinal BY <2>4, TabFacts DEF UriFinal
    <2> HIDE DEF p
    <2>6. w = [v EXCEPT !.fin = v.fin, !.pc = p, !.snap = v.snap] BY TabFacts DEF TabRecord
    <2>7. Modest(w) BY <1>5, <2>4, <2>5, <2>6, TabFacts DEF PagePc, ReconcilePc
    <2> HIDE DEF w
    <2>. QED BY <1>1, <1>3, <2>1, <2>7, ModestStep
  <1>11. CASE Registration!Return(x)
    <2>1. PICK w : Modest(w) /\ tab' = [tab EXCEPT ![x] = w]
      BY <1>4, <1>11 DEF Registration!Return, Registration!GoPage, Registration!GiveUp
    <2>. QED BY <1>1, <1>3, <2>1, ModestStep
  <1>. QED BY <1>6, <1>7, <1>8, <1>9, <1>10, <1>11

-----------------------------------------------------------------------------
(* The reservations and the signatures. *)

\* A reservation: nobody else is about to sign, and nothing was signed.
LEMMA PrepareInv ==
  ASSUME RegistrationInv, NEW x \in Tabs, Registration!PrepareMint(x) \/ Registration!PrepareUri(x)
  PROVE  RegistrationInv'
  <1>0. tab \in [Tabs -> TabRecord] BY DEF RegistrationInv, WellTyped
  <1>1. UNCHANGED Registration!chain BY DEF Registration!PrepareMint, Registration!PrepareUri
  <1>2. /\ head' = head /\ final' = final /\ mint' = mint /\ uri' = uri
        /\ mints' = mints /\ uris' = uris
    BY <1>1 DEF Registration!chain
  <1>3. /\ Modest(Registration!Idle)
        /\ \A t \in {"idle", "uri"} : Modest([Registration!Idle EXCEPT !.pc = "recStart", !.then = t])
    BY ModestPlaces, PlainPlaces
  <1>4. CASE UNCHANGED log
    <2>1. Honest(log') BY <1>4, TabFacts DEF Honest
    <2>2. log.mintIntent' = log.mintIntent /\ log.uriIntent' = log.uriIntent BY <1>4
    <2>3. ~(log' = [log EXCEPT !.mintIntent = TRUE, !.cursor = final] /\ Registration!CanMint(log))
      <3>1. log \in LogRecord BY TabFacts
      <3>. QED BY <1>4, <3>1 DEF Registration!CanMint, LogRecord
    <2>4. ~(log' = [log EXCEPT !.uriIntent = TRUE] /\ Registration!CanSetUri(log))
      <3>1. log \in LogRecord BY TabFacts
      <3>. QED BY <1>4, <3>1 DEF Registration!CanSetUri, LogRecord
    <2>5. PICK w : Modest(w) /\ tab' = [tab EXCEPT ![x] = w]
      BY <1>3, <2>3, <2>4 DEF Registration!PrepareMint, Registration!PrepareUri, Registration!Reconcile, Registration!GiveUp
    <2>. QED BY <1>1, <2>1, <2>5, ModestStep
  <1>5. ASSUME NEW pc \in {"signMint", "signUri"}, Registration!Goto(x, pc), log' \in LogRecord,
               log'.mintRec = log.mintRec, log'.uriRec = log.uriRec,
               log'.mintIntent = (log.mintIntent \/ pc = "signMint"),
               log'.uriIntent = (log.uriIntent \/ pc = "signUri"),
               pc = "signMint" => ~log.mintIntent, pc = "signUri" => ~log.uriIntent
        PROVE  RegistrationInv'
    <2> DEFINE w == [tab[x] EXCEPT !.pc = pc]
    <2>1. w \in TabRecord /\ w.pc = pc /\ w.fin = tab[x].fin
      BY TabFacts DEF TabRecord, PagePc
    <2>2. tab' = [tab EXCEPT ![x] = w] BY <1>0, <1>5 DEF Registration!Goto
    <2> HIDE DEF w
    <2>3. \A y \in Tabs : tab'[y] = IF y = x THEN w ELSE tab[y] BY <1>0, <2>2
    <2>4. WellTyped' BY <1>2, <1>5, <2>1, <2>2 DEF RegistrationInv, WellTyped
    <2>5. Reserved'
      <3>1. log.mintIntent \in BOOLEAN /\ log.uriIntent \in BOOLEAN BY TabFacts DEF LogRecord
      <3>2. pc = "signMint" => mints = 0 /\ \A y \in Tabs : tab[y].pc # "signMint"
        BY <1>5 DEF RegistrationInv, Reserved
      <3>3. pc = "signUri" => uris = 0 /\ \A y \in Tabs : tab[y].pc # "signUri"
        BY <1>5 DEF RegistrationInv, Reserved
      <3>4. Reserved BY DEF RegistrationInv
      <3>5. /\ mints' \in {0, 1} /\ uris' \in {0, 1}
            /\ ~log'.mintIntent => mints' = 0
            /\ ~log'.uriIntent => uris' = 0
        BY <1>2, <1>5, <3>1, <3>4 DEF Reserved
      <3>6. \A y \in Tabs : tab'[y].pc = "signMint" => log'.mintIntent /\ mints' = 0
        BY <1>2, <1>5, <2>1, <2>3, <3>1, <3>2, <3>4 DEF Reserved
      <3>7. \A y \in Tabs : tab'[y].pc = "signUri" => log'.uriIntent /\ uris' = 0
        BY <1>2, <1>5, <2>1, <2>3, <3>1, <3>3, <3>4 DEF Reserved
      <3>8. \A y, z \in Tabs :
              tab'[y].pc = tab'[z].pc /\ tab'[y].pc \in {"signMint", "signUri"} => y = z
        BY <2>1, <2>3, <3>2, <3>3, <3>4 DEF Reserved
      <3>. QED BY <3>5, <3>6, <3>7, <3>8 DEF Reserved
    <2>6. ReadsFinal'
      BY <1>2, <1>5, <2>1, <2>3 DEF RegistrationInv, ReadsFinal, ReconciledIsFinal, MintFinal, UriFinal
    <2>. QED BY <2>4, <2>5, <2>6 DEF RegistrationInv
  <1>6. CASE Registration!PrepareMint(x) /\ bound /\ Registration!CanMint(log)
    <2>1. log' = [log EXCEPT !.mintIntent = TRUE, !.cursor = final] /\ Registration!Goto(x, "signMint")
      BY <1>6 DEF Registration!PrepareMint
    <2>2. log \in LogRecord /\ final \in Nat BY TabFacts
    <2>3. /\ log' \in LogRecord /\ log'.mintRec = log.mintRec /\ log'.uriRec = log.uriRec
          /\ log'.mintIntent = TRUE /\ log'.uriIntent = log.uriIntent
      BY <2>1, <2>2 DEF LogRecord
    <2>4. ~log.mintIntent /\ log.mintIntent \in BOOLEAN /\ log.uriIntent \in BOOLEAN
      BY <1>6, <2>2 DEF Registration!CanMint, LogRecord
    <2>. QED BY <1>5, <2>1, <2>3, <2>4
  <1>7. CASE Registration!PrepareUri(x) /\ bound /\ Registration!CanSetUri(log) /\ Registration!Known(log)
    <2>1. log' = [log EXCEPT !.uriIntent = TRUE] /\ Registration!Goto(x, "signUri")
      BY <1>7 DEF Registration!PrepareUri
    <2>2. log \in LogRecord BY TabFacts
    <2>3. /\ log' \in LogRecord /\ log'.mintRec = log.mintRec /\ log'.uriRec = log.uriRec
          /\ log'.uriIntent = TRUE /\ log'.mintIntent = log.mintIntent
      BY <2>1, <2>2 DEF LogRecord
    <2>4. ~log.uriIntent /\ log.mintIntent \in BOOLEAN /\ log.uriIntent \in BOOLEAN
      BY <1>7, <2>2 DEF Registration!CanSetUri, LogRecord
    <2>. QED BY <1>5, <2>1, <2>3, <2>4
  <1>8. \/ UNCHANGED log
        \/ Registration!PrepareMint(x) /\ bound /\ Registration!CanMint(log)
        \/ Registration!PrepareUri(x) /\ bound /\ Registration!CanSetUri(log) /\ Registration!Known(log)
    BY DEF Registration!PrepareMint, Registration!PrepareUri
  <1>. QED BY <1>4, <1>6, <1>7, <1>8

\* A signature: the one that holds the reservation signs, and holds it no more.
LEMMA SignInv ==
  ASSUME RegistrationInv, NEW x \in Tabs, Registration!SignMint(x) \/ Registration!SignUri(x)
  PROVE  RegistrationInv'
  <1>0. tab \in [Tabs -> TabRecord] BY DEF RegistrationInv, WellTyped
  <1>1. log' = log /\ head' = head /\ final' = final BY DEF Registration!SignMint, Registration!SignUri
  <1>2. PICK w : /\ tab' = [tab EXCEPT ![x] = w]
                 /\ w \in TabRecord /\ w.fin = tab[x].fin
                 /\ w.pc \in {"awaitMint", "recordMint", "awaitUri", "recordUri"}
    <2>2. CASE \E pc \in {"awaitMint", "awaitUri"} : Registration!Goto(x, pc)
      <3>1. PICK pc \in {"awaitMint", "awaitUri"} : Registration!Goto(x, pc) BY <2>2
      <3> DEFINE u == [tab[x] EXCEPT !.pc = pc]
      <3>2. tab' = [tab EXCEPT ![x] = u] BY <1>0, <3>1 DEF Registration!Goto
      <3>4. u \in TabRecord /\ u.fin = tab[x].fin /\ u.pc = pc BY TabFacts DEF TabRecord, PagePc
      <3> HIDE DEF u
      <3>. QED BY <3>2, <3>4
    <2>3. CASE \E pc \in {"recordMint", "recordUri"}, res \in ResultRecord :
                 tab' = [tab EXCEPT ![x].pc = pc, ![x].res = res]
      <3>1. PICK pc \in {"recordMint", "recordUri"}, res \in ResultRecord :
              tab' = [tab EXCEPT ![x].pc = pc, ![x].res = res]
        BY <2>3
      <3> DEFINE u == [tab[x] EXCEPT !.pc = pc, !.res = res]
      <3>2. tab' = [tab EXCEPT ![x] = u] BY <1>0, <3>1
      <3>3. u \in TabRecord /\ u.fin = tab[x].fin /\ u.pc = pc BY TabFacts DEF TabRecord, PagePc
      <3> HIDE DEF u
      <3>. QED BY <3>2, <3>3
    <2>4. \A st \in {"UNKNOWN", "FAILED"} :
            Registration!Result(st, FALSE, FALSE, FALSE) \in ResultRecord /\ Registration!Result(st, TRUE, FALSE, FALSE) \in ResultRecord
      BY ResultTypes
    <2>. QED BY <2>2, <2>3, <2>4 DEF Registration!SignMint, Registration!SignUri
  <1>3. \A y \in Tabs : tab'[y] = IF y = x THEN w ELSE tab[y] BY <1>0, <1>2
  <1>4. /\ mint' = mint \/ (mint = Registration!Unsent /\ mint' = [st |-> "pool", blk |-> 0])
        /\ uri' = uri \/ (uri = Registration!Unsent /\ uri' = [st |-> "pool", blk |-> 0])
    BY DEF Registration!SignMint, Registration!SignUri
  <1>5. /\ mint' \in Transaction /\ uri' \in Transaction
        /\ MintFinal => mint' = mint
        /\ UriFinal => uri' = uri
    BY <1>4, TabFacts DEF Transaction, MintFinal, UriFinal, Registration!Unsent
  <1>6. WellTyped' BY <1>1, <1>2, <1>5 DEF RegistrationInv, WellTyped
  <1>7. Reserved'
    <2>1. \/ tab[x].pc = "signMint" /\ mints' \in {mints, mints + 1} /\ uris' = uris
          \/ tab[x].pc = "signUri" /\ uris' \in {uris, uris + 1} /\ mints' = mints
      BY DEF Registration!SignMint, Registration!SignUri
    <2>2. w.pc \notin {"signMint", "signUri"} BY <1>2
    <2>3. Reserved BY DEF RegistrationInv
    <2>4. CASE tab[x].pc = "signMint" /\ mints' \in {mints, mints + 1} /\ uris' = uris
      <3>1. log.mintIntent /\ mints = 0 /\ \A y \in Tabs : tab[y].pc = "signMint" => y = x
        BY <2>3, <2>4 DEF Reserved
      <3>2. mints' \in {0, 1} BY <2>4, <3>1
      <3>. QED BY <1>1, <1>3, <2>2, <2>3, <2>4, <3>1, <3>2 DEF Reserved
    <2>5. CASE tab[x].pc = "signUri" /\ uris' \in {uris, uris + 1} /\ mints' = mints
      <3>1. log.uriIntent /\ uris = 0 /\ \A y \in Tabs : tab[y].pc = "signUri" => y = x
        BY <2>3, <2>5 DEF Reserved
      <3>2. uris' \in {0, 1} BY <2>5, <3>1
      <3>. QED BY <1>1, <1>3, <2>2, <2>3, <2>5, <3>1, <3>2 DEF Reserved
    <2>. QED BY <2>1, <2>4, <2>5
  <1>8. ReadsFinal'
    <2>1. /\ MintFinal => MintFinal'
          /\ UriFinal => UriFinal'
      BY <1>1, <1>5 DEF MintFinal, UriFinal
    <2>2. ReadsFinal BY DEF RegistrationInv
    <2>3. /\ log.mintRec.st = "CONFIRMED" => MintFinal'
          /\ log.uriRec.st = "CONFIRMED" => UriFinal'
      BY <2>1, <2>2 DEF ReadsFinal, ReconciledIsFinal, MintFinal, UriFinal
    <2>4. \A y \in Tabs : /\ tab'[y].fin <= final'
                          /\ tab'[y].pc \in {"recFound", "recMint"} => MintFinal'
                          /\ tab'[y].pc = "recUriConfirmed" => UriFinal'
      BY <1>1, <1>2, <1>3, <2>1, <2>2 DEF ReadsFinal
    <2>. QED BY <1>1, <2>3, <2>4 DEF ReadsFinal, ReconciledIsFinal, MintFinal, UriFinal
  <1>. QED BY <1>6, <1>7, <1>8 DEF RegistrationInv

\* The world: what is final stays.
LEMMA WorldInv ==
  ASSUME RegistrationInv, Registration!Unbind \/ Registration!Mine \/ Registration!Finalize \/ Registration!Reorg \/ UNCHANGED Registration!vars
  PROVE  RegistrationInv'
  <1>1. log' = log /\ tab' = tab /\ mints' = mints /\ uris' = uris
    BY DEF Registration!Unbind, Registration!Mine, Registration!Finalize, Registration!Reorg, Registration!vars, Registration!chain
  <1>2. log \in LogRecord /\ tab \in [Tabs -> TabRecord] /\ mint \in Transaction /\ uri \in Transaction
        /\ head \in Nat /\ final \in Nat /\ mint.blk \in Nat /\ uri.blk \in Nat
    BY DEF RegistrationInv, WellTyped, Transaction
  <1>3. head' \in Nat /\ final' \in Nat /\ final <= final'
    BY <1>2 DEF Registration!Unbind, Registration!Mine, Registration!Finalize, Registration!Reorg, Registration!vars, Registration!chain
  <1>4. mint' \in Transaction /\ (MintFinal => mint' = mint)
    <2>1. \/ mint' = mint
          \/ mint.st = "pool" /\ mint' \in {[st |-> "mined", blk |-> head + 1], [st |-> "reverted", blk |-> head + 1]}
          \/ mint.st = "mined" /\ mint.blk > final /\ mint' = [st |-> "pool", blk |-> 0]
      BY DEF Registration!Unbind, Registration!Mine, Registration!Finalize, Registration!Reorg, Registration!vars, Registration!chain, Registration!Included
    <2>. QED BY <1>2, <2>1 DEF Transaction, MintFinal
  <1>5. uri' \in Transaction /\ (UriFinal => uri' = uri)
    <2>1. \/ uri' = uri
          \/ uri.st = "pool" /\ uri' = [st |-> "mined", blk |-> head + 1]
          \/ uri.st = "mined" /\ uri.blk > final /\ uri' = [st |-> "pool", blk |-> 0]
      BY DEF Registration!Unbind, Registration!Mine, Registration!Finalize, Registration!Reorg, Registration!vars, Registration!chain, Registration!Included
    <2>. QED BY <1>2, <2>1 DEF Transaction, UriFinal
  <1>6. /\ MintFinal => MintFinal'
        /\ UriFinal => UriFinal'
    BY <1>2, <1>3, <1>4, <1>5 DEF MintFinal, UriFinal
  <1>7. WellTyped' BY <1>1, <1>2, <1>3, <1>4, <1>5 DEF WellTyped
  <1>8. Reserved' BY <1>1 DEF RegistrationInv, Reserved
  <1>9. ReadsFinal'
    <2>1. ReadsFinal BY DEF RegistrationInv
    <2>2. /\ log.mintRec.st = "CONFIRMED" => MintFinal'
          /\ log.uriRec.st = "CONFIRMED" => UriFinal'
      BY <1>6, <2>1 DEF ReadsFinal, ReconciledIsFinal, MintFinal, UriFinal
    <2>3. \A y \in Tabs : /\ tab[y].fin <= final'
                          /\ tab[y].pc \in {"recFound", "recMint"} => MintFinal'
                          /\ tab[y].pc = "recUriConfirmed" => UriFinal'
      <3>1. \A y \in Tabs : tab[y].fin \in Nat BY <1>2 DEF TabRecord
      <3>. QED BY <1>2, <1>3, <1>6, <2>1, <3>1 DEF ReadsFinal
    <2>. QED BY <1>1, <2>2, <2>3 DEF ReadsFinal, ReconciledIsFinal, MintFinal, UriFinal
  <1>. QED BY <1>7, <1>8, <1>9 DEF RegistrationInv

LEMMA RegistrationSteps ==
  ASSUME RegistrationParameters, RegistrationInv, [Registration!Next]_(Registration!vars)
  PROVE  RegistrationInv'
  <1>1. CASE UNCHANGED Registration!vars \/ Registration!Unbind \/ Registration!Mine \/ Registration!Finalize \/ Registration!Reorg BY <1>1, WorldInv
  <1>2. CASE \E x \in Tabs : Registration!RunningPage(x) \/ Registration!CreatorStep(x) \/ Registration!CloseTab(x)
    <2>1. PICK x \in Tabs : Registration!RunningPage(x) \/ Registration!CreatorStep(x) \/ Registration!CloseTab(x) BY <1>2
    <2>2. CASE Registration!ReconcileStep(x) BY <2>2, ReadsInv, AppendsInv DEF Registration!ReconcileStep
    <2>3. CASE Registration!PrepareMint(x) \/ Registration!PrepareUri(x) BY <2>3, PrepareInv
    <2>4. CASE Registration!SignMint(x) \/ Registration!SignUri(x) BY <2>4, SignInv
    <2>5. CASE Registration!Start(x) \/ Registration!MintAnswer(x) \/ Registration!RecordMint(x) \/ Registration!UriAnswer(x) \/ Registration!RecordUri(x) \/ Registration!CloseTab(x)
      BY <2>5, PagesInv
    <2>. QED BY <2>1, <2>2, <2>3, <2>4, <2>5 DEF Registration!RunningPage, Registration!CreatorStep
  <1>. QED BY <1>1, <1>2 DEF Registration!Next

\* The invariant holds throughout.
THEOREM RegistrationInvariant == ASSUME RegistrationParameters PROVE Registration!Spec => []RegistrationInv
  <1>1. RegistrationInv /\ [Registration!Next]_(Registration!vars) => RegistrationInv' BY RegistrationSteps
  <1>. QED BY <1>1, RegistrationInit, PTL DEF Registration!Spec

\* However many tabs, reloads and lost answers there are, the passkey signs one mint and
\* one URI update (registerCreatorErc8004Agent, "never duplicate mint").
THEOREM RegistrationSignsOnce == ASSUME RegistrationParameters PROVE Registration!Spec => []SignedOnce
  <1>1. RegistrationInv => SignedOnce BY DEF RegistrationInv, Reserved, SignedOnce
  <1>. QED BY <1>1, RegistrationInvariant, PTL

\* What a reconcile appends as confirmed is final on chain, whatever is reorganised and
\* in whatever order the appends of several reconciles come (reconcile of
\* creator-registration.ts).
THEOREM RegistrationIsFinal == ASSUME RegistrationParameters PROVE Registration!Spec => []ReconciledIsFinal
  <1>1. RegistrationInv => ReconciledIsFinal BY DEF RegistrationInv, ReadsFinal
  <1>. QED BY <1>1, RegistrationInvariant, PTL

-----------------------------------------------------------------------------
(***************************************************************************)
(* The deployment queue.  A worker is committed to a deploy from the       *)
(* moment its intent is durable until Studio was told; the intent is what  *)
(* keeps every other worker, and every later tick, from committing to the  *)
(* same draft, and it is never taken back.                                 *)
(***************************************************************************)

DeploymentRow ==
  [state : {"none", "queued", "working", "failed", "listed"}, stage : Nat,
   id : BOOLEAN, url : BOOLEAN, scaffoldIntent : BOOLEAN, deployIntent : BOOLEAN, fresh : BOOLEAN]

WorkerPc ==
  {"idle", "load", "scaffold", "materialize", "recordScaffold", "scaffolded", "pending", "inspect",
   "pendingAgain", "install", "inspectInstalled", "mismatch", "intent", "recheck", "run", "status",
   "confirm", "recordStatus", "recordConfirm", "handoff", "recordHandoff"}

WorkerRecord ==
  [pc : WorkerPc, d : Drafts \cup {"none"}, stage : Nat,
   outcome : {"none", "ready", "mismatch", "recorded", "live", "confirmed", "pending"}]

QueueTypes == /\ deploys \in [Drafts -> Nat]
              /\ dep \in [Drafts -> DeploymentRow]
              /\ provider \in [Drafts -> {"none", "recorded", "live"}]
              /\ wk \in [Workers -> WorkerRecord]
              /\ \A x \in Workers : wk[x].pc # "idle" => wk[x].d \in Drafts

\* The intent of the draft is durable and Studio was not told yet.
Committed(w) == w.pc \in {"recheck", "run"}

OneCommitted ==
  /\ \A x \in Workers : Committed(wk[x]) => deploys[wk[x].d] = 0 /\ dep[wk[x].d].deployIntent
  /\ \A x, y \in Workers : x # y /\ Committed(wk[x]) /\ Committed(wk[y]) => wk[x].d # wk[y].d

ToldOnce == \A d \in Drafts : deploys[d] <= 1 /\ (deploys[d] = 1 => dep[d].deployIntent)

QueueInv == QueueTypes /\ OneCommitted /\ ToldOnce

\* A step that commits nobody and tells Studio nothing.
Idling == /\ QueueTypes'
          /\ deploys' = deploys
          /\ \A d \in Drafts : dep[d].deployIntent => dep'[d].deployIntent
          /\ \A x \in Workers : Committed(wk'[x]) => Committed(wk[x]) /\ wk'[x].d = wk[x].d

LEMMA IdlingKeeps == ASSUME QueueInv, Idling PROVE QueueInv'
  <1>1. OneCommitted'
    <2>1. ASSUME NEW x \in Workers, Committed(wk'[x])
          PROVE deploys'[wk'[x].d] = 0 /\ dep'[wk'[x].d].deployIntent
      <3>1. Committed(wk[x]) /\ wk'[x].d = wk[x].d /\ wk[x].d \in Drafts
        BY <2>1 DEF Idling, QueueInv, QueueTypes, Committed
      <3>. QED BY <3>1 DEF Idling, QueueInv, OneCommitted
    <2>2. ASSUME NEW x \in Workers, NEW y \in Workers, x # y, Committed(wk'[x]), Committed(wk'[y])
          PROVE wk'[x].d # wk'[y].d
      BY <2>2 DEF Idling, QueueInv, OneCommitted
    <2>. QED BY <2>1, <2>2 DEF OneCommitted, Committed
  <1>2. ToldOnce' BY DEF Idling, QueueInv, ToldOnce
  <1>. QED BY <1>1, <1>2 DEF Idling, QueueInv

\* A worker goes on, or ends its step, without committing to a deploy.
LEMMA WorkerMoves ==
  ASSUME QueueInv, NEW x \in Workers, NEW w \in WorkerRecord,
         wk' = [wk EXCEPT ![x] = w],
         w.pc = "idle" \/ w.d \in Drafts,
         Committed(w) => Committed(wk[x]) /\ w.d = wk[x].d,
         deploys' = deploys, provider' = provider, dep' \in [Drafts -> DeploymentRow],
         \A d \in Drafts : dep[d].deployIntent => dep'[d].deployIntent
  PROVE  QueueInv'
  <1>1. wk' \in [Workers -> WorkerRecord] BY DEF QueueInv, QueueTypes
  <1>2. \A y \in Workers : wk'[y] = IF y = x THEN w ELSE wk[y] BY DEF QueueInv, QueueTypes
  <1>3. \A y \in Workers : wk'[y].pc # "idle" => wk'[y].d \in Drafts BY <1>2 DEF QueueInv, QueueTypes
  <1>4. QueueTypes' BY <1>1, <1>3 DEF QueueInv, QueueTypes
  <1>5. \A y \in Workers : Committed(wk'[y]) => Committed(wk[y]) /\ wk'[y].d = wk[y].d BY <1>2
  <1>. QED BY <1>4, <1>5, IdlingKeeps DEF Idling

LEMMA QueueStart == Queue!Init => QueueInv
  <1> SUFFICES ASSUME Queue!Init PROVE QueueInv OBVIOUS
  <1>1. Queue!NoRow \in DeploymentRow BY DEF Queue!NoRow, DeploymentRow
  <1>2. Queue!Idle \in WorkerRecord /\ Queue!Idle.pc = "idle" BY DEF Queue!Idle, WorkerRecord, WorkerPc
  <1>3. QueueTypes BY <1>1, <1>2 DEF Queue!Init, QueueTypes
  <1>4. OneCommitted BY <1>2 DEF Queue!Init, OneCommitted, Committed
  <1>5. ToldOnce BY DEF Queue!Init, ToldOnce
  <1>. QED BY <1>3, <1>4, <1>5 DEF QueueInv

\* The row of one draft is rewritten and keeps its intent.
LEMMA RowWritten ==
  ASSUME QueueInv, NEW d \in Drafts, NEW row \in DeploymentRow,
         dep' = [dep EXCEPT ![d] = row], dep[d].deployIntent => row.deployIntent
  PROVE  /\ dep' \in [Drafts -> DeploymentRow]
         /\ \A e \in Drafts : dep[e].deployIntent => dep'[e].deployIntent
  BY DEF QueueInv, QueueTypes

\* The environment of the workers.
LEMMA AroundWorkers ==
  ASSUME QueueInv, NEW d \in Drafts,
         Queue!QueueDeployment(d) \/ Queue!Revoke(d) \/ Queue!LeaseExpires(d)
           \/ Queue!ProviderProgress(d) \/ Queue!Tamper(d)
  PROVE  QueueInv'
  <1>1. CASE Queue!QueueDeployment(d)
    <2>1. PICK row : row = [dep[d] EXCEPT !.state = "queued", !.stage = Queue!Scaffold, !.fresh = TRUE] OBVIOUS
    <2>2. row \in DeploymentRow /\ row.deployIntent = dep[d].deployIntent
      BY <2>1 DEF QueueInv, QueueTypes, DeploymentRow, Queue!Scaffold
    <2>3. dep' = [dep EXCEPT ![d] = row] BY <1>1, <2>1 DEF Queue!QueueDeployment, QueueInv, QueueTypes
    <2>4. Idling BY <1>1, <2>2, <2>3, RowWritten DEF Queue!QueueDeployment, Idling, QueueInv, QueueTypes
    <2>. QED BY <2>4, IdlingKeeps
  <1>2. CASE Queue!Revoke(d)
    <2>1. Idling BY <1>2 DEF Queue!Revoke, Idling, QueueInv, QueueTypes
    <2>. QED BY <2>1, IdlingKeeps
  <1>3. CASE Queue!LeaseExpires(d)
    <2>1. PICK row : row = [dep[d] EXCEPT !.fresh = FALSE] OBVIOUS
    <2>2. row \in DeploymentRow /\ row.deployIntent = dep[d].deployIntent
      BY <2>1 DEF QueueInv, QueueTypes, DeploymentRow
    <2>3. dep' = [dep EXCEPT ![d] = row] BY <1>3, <2>1 DEF Queue!LeaseExpires, QueueInv, QueueTypes
    <2>4. Idling BY <1>3, <2>2, <2>3, RowWritten DEF Queue!LeaseExpires, Idling, QueueInv, QueueTypes
    <2>. QED BY <2>4, IdlingKeeps
  <1>4. CASE Queue!ProviderProgress(d)
    <2>1. Idling BY <1>4 DEF Queue!ProviderProgress, Idling, QueueInv, QueueTypes
    <2>. QED BY <2>1, IdlingKeeps
  <1>5. CASE Queue!Tamper(d)
    <2>1. Idling BY <1>5 DEF Queue!Tamper, Idling, QueueInv, QueueTypes
    <2>. QED BY <2>1, IdlingKeeps
  <1>. QED BY <1>1, <1>2, <1>3, <1>4, <1>5

LEMMA WorkerTypes ==
  ASSUME QueueInv, NEW x \in Workers
  PROVE  /\ \A pc \in WorkerPc : [wk[x] EXCEPT !.pc = pc] \in WorkerRecord
         /\ Queue!Idle \in WorkerRecord /\ Queue!Idle.pc = "idle"
         /\ wk[x] \in WorkerRecord
         /\ wk[x].pc # "idle" => wk[x].d \in Drafts /\ dep[wk[x].d] \in DeploymentRow
  BY DEF QueueInv, QueueTypes, WorkerRecord, Queue!Idle, WorkerPc

\* goto: the worker keeps its draft.
LEMMA Goes ==
  ASSUME QueueInv, NEW x \in Workers, wk[x].pc # "idle", NEW pc \in WorkerPc, Queue!Goto(x, pc),
         Committed([pc |-> pc]) => Committed(wk[x]),
         deploys' = deploys, provider' = provider, dep' \in [Drafts -> DeploymentRow],
         \A d \in Drafts : dep[d].deployIntent => dep'[d].deployIntent
  PROVE  QueueInv'
  <1>1. PICK w : w = [wk[x] EXCEPT !.pc = pc] OBVIOUS
  <1>2. w \in WorkerRecord /\ w.pc = pc /\ w.d = wk[x].d BY <1>1, WorkerTypes DEF WorkerRecord
  <1>3. wk' = [wk EXCEPT ![x] = w] BY <1>1 DEF Queue!Goto, QueueInv, QueueTypes
  <1>4. w.d \in Drafts BY <1>2, WorkerTypes
  <1>5. Committed(w) => Committed(wk[x]) /\ w.d = wk[x].d BY <1>2 DEF Committed
  <1>. QED BY <1>2, <1>3, <1>4, <1>5, WorkerMoves

LEMMA Ends ==
  ASSUME QueueInv, NEW x \in Workers, Queue!EndStep(x),
         deploys' = deploys, provider' = provider, dep' \in [Drafts -> DeploymentRow],
         \A d \in Drafts : dep[d].deployIntent => dep'[d].deployIntent
  PROVE  QueueInv'
  <1>1. wk' = [wk EXCEPT ![x] = Queue!Idle] BY DEF Queue!EndStep
  <1>2. ~Committed(Queue!Idle) BY WorkerTypes DEF Committed
  <1>. QED BY <1>1, <1>2, WorkerTypes, WorkerMoves

\* The worker reads and changes nothing durable.
LEMMA OnlyReads ==
  ASSUME QueueInv, NEW x \in Workers, NEW w \in WorkerRecord, wk' = [wk EXCEPT ![x] = w],
         w.d = wk[x].d, wk[x].pc # "idle", ~Committed(w),
         UNCHANGED <<deploys, provider, dep>>
  PROVE  QueueInv'
  <1>1. w.d \in Drafts BY WorkerTypes
  <1>2. dep' \in [Drafts -> DeploymentRow] BY DEF QueueInv, QueueTypes
  <1>. QED BY <1>1, <1>2, WorkerMoves

\* record of the store keeps the intent.
LEMMA RecordKeeps ==
  ASSUME QueueInv, NEW x \in Workers, wk[x].pc # "idle",
         NEW stage \in Nat, NEW mismatch \in BOOLEAN, NEW id \in BOOLEAN, NEW url \in BOOLEAN,
         Queue!Record(x, stage, mismatch, id, url)
  PROVE  /\ dep' \in [Drafts -> DeploymentRow]
         /\ \A e \in Drafts : dep[e].deployIntent => dep'[e].deployIntent
  <1>1. PICK st : st = CASE mismatch -> "failed"
                         [] ~mismatch /\ stage = Queue!Completed -> "listed"
                         [] OTHER -> "working" OBVIOUS
  <1>2. st \in {"failed", "listed", "working"} BY <1>1
  <1>3. PICK r : r = dep[wk[x].d] OBVIOUS
  <1>4. PICK row : row = [r EXCEPT !.stage = stage, !.fresh = TRUE,
                                   !.id = r.id \/ id, !.url = r.url \/ url, !.state = st] OBVIOUS
  <1>5. wk[x].d \in Drafts /\ r \in DeploymentRow BY <1>3, WorkerTypes
  <1>6. row \in DeploymentRow /\ row.deployIntent = r.deployIntent BY <1>2, <1>4, <1>5 DEF DeploymentRow
  <1>7. dep' = [dep EXCEPT ![wk[x].d] = row]
    <2>1. dep' = [dep EXCEPT ![wk[x].d] =
            [dep[wk[x].d] EXCEPT !.stage = stage, !.fresh = TRUE,
                                 !.id = dep[wk[x].d].id \/ id, !.url = dep[wk[x].d].url \/ url,
                                 !.state = CASE mismatch -> "failed"
                                             [] ~mismatch /\ stage = Queue!Completed -> "listed"
                                             [] OTHER -> "working"]]
      BY Zenon DEF Queue!Record, Queue!Row
    <2>. QED BY <2>1, <1>1, <1>3, <1>4
  <1>. QED BY <1>3, <1>5, <1>6, <1>7, RowWritten

LEMMA DepStays ==
  ASSUME QueueInv, dep' = dep
  PROVE  /\ dep' \in [Drafts -> DeploymentRow]
         /\ \A e \in Drafts : dep[e].deployIntent => dep'[e].deployIntent
  BY DEF QueueInv, QueueTypes

LEMMA ClaimKeeps ==
  ASSUME QueueInv, NEW x \in Workers, NEW d \in Drafts, Queue!Claim(x, d) \/ Queue!RunNamed(x, d)
  PROVE  QueueInv'
  <1>1. PICK w : w = [Queue!Idle EXCEPT !.pc = "load", !.d = d] OBVIOUS
  <1>2. w \in WorkerRecord /\ w.d = d /\ ~Committed(w)
    BY <1>1 DEF Queue!Idle, WorkerRecord, WorkerPc, Committed
  <1>3. wk' = [wk EXCEPT ![x] = w] BY <1>1 DEF Queue!Claim, Queue!RunNamed
  <1>4. CASE Queue!Claim(x, d)
    <2>1. PICK row : row = [dep[d] EXCEPT !.state = "working", !.fresh = TRUE] OBVIOUS
    <2>2. row \in DeploymentRow /\ row.deployIntent = dep[d].deployIntent
      BY <2>1 DEF QueueInv, QueueTypes, DeploymentRow
    <2>3. dep' = [dep EXCEPT ![d] = row] BY <1>4, <2>1 DEF Queue!Claim, QueueInv, QueueTypes
    <2>4. /\ dep' \in [Drafts -> DeploymentRow]
          /\ \A e \in Drafts : dep[e].deployIntent => dep'[e].deployIntent BY <2>2, <2>3, RowWritten
    <2>. QED BY <1>2, <1>3, <1>4, <2>4, WorkerMoves DEF Queue!Claim
  <1>5. CASE Queue!RunNamed(x, d)
    BY <1>2, <1>3, <1>5, DepStays, WorkerMoves DEF Queue!RunNamed
  <1>. QED BY <1>4, <1>5

\* The steps of a worker that can neither win an intent nor spawn a deploy.
LEMMA Reading ==
  ASSUME QueueInv, NEW x \in Workers,
         \/ Queue!Load(x) \/ Queue!Materialize(x) \/ Queue!PendingDeploy(x) \/ Queue!Inspect(x)
         \/ Queue!PendingDeployAgain(x) \/ Queue!InspectInstalled(x) \/ Queue!ReadStatus(x)
         \/ Queue!Handoff(x)
  PROVE  QueueInv'
  <1>1. CASE Queue!Load(x)
    <2>1. CASE Queue!EndStep(x) BY <1>1, <2>1, Ends, DepStays DEF Queue!Load
    <2>2. CASE ~Queue!EndStep(x)
      <3>1. PICK pc : pc = CASE Queue!Row(x).stage = Queue!Scaffold -> "scaffold"
                             [] Queue!Row(x).stage = Queue!Deploy /\ Queue!Row(x).id -> "confirm"
                             [] Queue!Row(x).stage = Queue!Deploy /\ ~Queue!Row(x).id -> "pending"
                             [] OTHER -> "handoff" OBVIOUS
      <3>2. pc \in {"scaffold", "confirm", "pending", "handoff"}
        BY <3>1 DEF Queue!Scaffold, Queue!Deploy
      <3>3. PICK st : st = Queue!Row(x).stage OBVIOUS
      <3>4. st \in Nat BY <1>1, <3>3, WorkerTypes DEF Queue!Row, Queue!Load, DeploymentRow
      <3>5. PICK w : w = [wk[x] EXCEPT !.stage = st, !.pc = pc] OBVIOUS
      <3>6. w \in WorkerRecord /\ w.d = wk[x].d /\ ~Committed(w)
      <4>1. wk[x] \in WorkerRecord BY WorkerTypes
      <4>2. pc \in WorkerPc /\ pc \notin {"recheck", "run"} BY <3>2 DEF WorkerPc
      <4>3. w \in WorkerRecord /\ w.d = wk[x].d /\ w.pc = pc BY <4>1, <4>2, <3>4, <3>5 DEF WorkerRecord
      <4>. QED BY <4>2, <4>3 DEF Committed
      <3>7. wk' = [wk EXCEPT ![x] = w] BY <1>1, <2>2, <3>1, <3>3, <3>5 DEF Queue!Load, QueueInv, QueueTypes
      <3>. QED BY <1>1, <3>6, <3>7, OnlyReads DEF Queue!Load
    <2>. QED BY <2>1, <2>2
  <1>2. CASE Queue!Materialize(x)
    <2>1. PICK o : o = IF ws'[wk[x].d] = "ready" THEN "ready" ELSE "mismatch" OBVIOUS
    <2>2. o \in {"ready", "mismatch"} BY <2>1
    <2>3. PICK w : w = [wk[x] EXCEPT !.pc = "recordScaffold", !.outcome = o] OBVIOUS
    <2>4. w \in WorkerRecord /\ w.d = wk[x].d /\ ~Committed(w)
    <3>1. wk[x] \in WorkerRecord BY WorkerTypes
    <3>2. "recordScaffold" \in WorkerPc /\ "recordScaffold" \notin {"recheck", "run"} BY <2>2 DEF WorkerPc
    <3>3. w \in WorkerRecord /\ w.d = wk[x].d /\ w.pc = "recordScaffold" BY <3>1, <3>2, <2>2, <2>3 DEF WorkerRecord
    <3>. QED BY <3>2, <3>3 DEF Committed
    <2>5. wk' = [wk EXCEPT ![x] = w] BY <1>2, <2>1, <2>3 DEF Queue!Materialize, QueueInv, QueueTypes
    <2>. QED BY <1>2, <2>4, <2>5, OnlyReads DEF Queue!Materialize
  <1>3. CASE Queue!PendingDeploy(x)
    BY <1>3, Goes, DepStays DEF Queue!PendingDeploy, WorkerPc, Committed
  <1>4. CASE Queue!Inspect(x)
    BY <1>4, Goes, DepStays DEF Queue!Inspect, WorkerPc, Committed
  <1>5. CASE Queue!PendingDeployAgain(x)
    BY <1>5, Goes, DepStays DEF Queue!PendingDeployAgain, WorkerPc, Committed
  <1>6. CASE Queue!InspectInstalled(x)
    BY <1>6, Goes, DepStays DEF Queue!InspectInstalled, WorkerPc, Committed
  <1>7. CASE Queue!ReadStatus(x)
    <2>1. PICK pc : pc = IF wk[x].pc = "status" THEN "recordStatus" ELSE "recordConfirm" OBVIOUS
    <2>2. PICK o : o = provider[wk[x].d] OBVIOUS
    <2>3. pc \in {"recordStatus", "recordConfirm"} /\ o \in {"none", "recorded", "live"}
      BY <1>7, <2>1, <2>2, WorkerTypes DEF Queue!ReadStatus, QueueInv, QueueTypes
    <2>4. PICK w : w = [wk[x] EXCEPT !.outcome = o, !.pc = pc] OBVIOUS
    <2>5. w \in WorkerRecord /\ w.d = wk[x].d /\ ~Committed(w)
    <3>1. wk[x] \in WorkerRecord BY WorkerTypes
    <3>2. pc \in WorkerPc /\ pc \notin {"recheck", "run"} BY <2>3 DEF WorkerPc
    <3>3. w \in WorkerRecord /\ w.d = wk[x].d /\ w.pc = pc BY <3>1, <3>2, <2>3, <2>4 DEF WorkerRecord
    <3>. QED BY <3>2, <3>3 DEF Committed
    <2>6. wk' = [wk EXCEPT ![x] = w] BY <1>7, <2>1, <2>2, <2>4 DEF Queue!ReadStatus, QueueInv, QueueTypes
    <2>. QED BY <1>7, <2>5, <2>6, OnlyReads DEF Queue!ReadStatus
  <1>8. CASE Queue!Handoff(x)
    <2>1. PICK o \in {"confirmed", "pending"} :
            wk' = [wk EXCEPT ![x].pc = "recordHandoff", ![x].outcome = o]
      BY <1>8 DEF Queue!Handoff
    <2>2. PICK w : w = [wk[x] EXCEPT !.pc = "recordHandoff", !.outcome = o] OBVIOUS
    <2>3. w \in WorkerRecord /\ w.d = wk[x].d /\ ~Committed(w)
    <3>1. wk[x] \in WorkerRecord BY WorkerTypes
    <3>2. "recordHandoff" \in WorkerPc /\ "recordHandoff" \notin {"recheck", "run"} BY <2>2 DEF WorkerPc
    <3>3. w \in WorkerRecord /\ w.d = wk[x].d /\ w.pc = "recordHandoff" BY <3>1, <3>2, <2>2 DEF WorkerRecord
    <3>. QED BY <3>2, <3>3 DEF Committed
    <2>4. wk' = [wk EXCEPT ![x] = w] BY <2>1, <2>2 DEF QueueInv, QueueTypes
    <2>. QED BY <1>8, <2>3, <2>4, OnlyReads DEF Queue!Handoff
  <1>. QED BY <1>1, <1>2, <1>3, <1>4, <1>5, <1>6, <1>7, <1>8

\* The steps that write the row, and those that end the worker's step.
LEMMA Writing ==
  ASSUME QueueInv, NEW x \in Workers,
         \/ Queue!RecordScaffoldIntent(x) \/ Queue!RecordScaffold(x) \/ Queue!RecordScaffolded(x)
         \/ Queue!Install(x) \/ Queue!RecordMismatch(x) \/ Queue!RecordStatus(x)
         \/ Queue!RecordConfirm(x) \/ Queue!RecordHandoff(x) \/ Queue!Crash(x)
  PROVE  QueueInv'
  <1>1. CASE Queue!RecordScaffoldIntent(x)
    <2>1. wk[x].pc # "idle" BY <1>1 DEF Queue!RecordScaffoldIntent
    <2>2. /\ dep' \in [Drafts -> DeploymentRow]
          /\ \A e \in Drafts : dep[e].deployIntent => dep'[e].deployIntent
      <3>1. CASE dep' = dep BY <3>1, DepStays
      <3>2. CASE dep' # dep
        <4>1. PICK r : r = dep[wk[x].d] OBVIOUS
        <4>2. PICK row : row = [r EXCEPT !.scaffoldIntent = TRUE, !.state = "working", !.fresh = TRUE] OBVIOUS
        <4>3. wk[x].d \in Drafts /\ r \in DeploymentRow BY <2>1, <4>1, WorkerTypes
        <4>4. row \in DeploymentRow /\ row.deployIntent = r.deployIntent BY <4>2, <4>3 DEF DeploymentRow
        <4>5. dep' = [dep EXCEPT ![wk[x].d] = row]
          BY <1>1, <3>2, <4>1, <4>2, <4>3 DEF Queue!RecordScaffoldIntent, QueueInv, QueueTypes
        <4>. QED BY <4>1, <4>3, <4>4, <4>5, RowWritten
      <3>. QED BY <3>1, <3>2
    <2>. QED BY <1>1, <2>1, <2>2, Goes DEF Queue!RecordScaffoldIntent, WorkerPc, Committed
  <1>2. CASE Queue!RecordScaffold(x)
    <2>1. wk[x].pc # "idle" BY <1>2 DEF Queue!RecordScaffold
    <2>2. Queue!Record(x, Queue!Scaffold, wk[x].outcome = "mismatch", FALSE, FALSE)
      BY <1>2 DEF Queue!RecordScaffold
    <2>3. /\ dep' \in [Drafts -> DeploymentRow]
          /\ \A e \in Drafts : dep[e].deployIntent => dep'[e].deployIntent
      BY <2>1, <2>2, RecordKeeps DEF Queue!Scaffold
    <2>. QED BY <1>2, <2>1, <2>3, Goes, Ends DEF Queue!RecordScaffold, WorkerPc, Committed
  <1>3. CASE Queue!RecordScaffolded(x)
    <2>1. wk[x].pc # "idle" BY <1>3 DEF Queue!RecordScaffolded
    <2>2. Queue!Record(x, Queue!Deploy, FALSE, FALSE, FALSE) BY <1>3 DEF Queue!RecordScaffolded
    <2>3. /\ dep' \in [Drafts -> DeploymentRow]
          /\ \A e \in Drafts : dep[e].deployIntent => dep'[e].deployIntent
      BY <2>1, <2>2, RecordKeeps DEF Queue!Deploy
    <2>. QED BY <1>3, <2>3, Ends DEF Queue!RecordScaffolded
  <1>4. CASE Queue!Install(x)
    <2>1. wk[x].pc # "idle" BY <1>4 DEF Queue!Install
    <2>2. CASE Queue!Goto(x, "inspectInstalled") /\ dep' = dep
      BY <1>4, <2>1, <2>2, DepStays, Goes DEF Queue!Install, WorkerPc, Committed
    <2>3. CASE Queue!Record(x, Queue!Deploy, FALSE, FALSE, FALSE) /\ Queue!EndStep(x)
      <3>1. /\ dep' \in [Drafts -> DeploymentRow]
            /\ \A e \in Drafts : dep[e].deployIntent => dep'[e].deployIntent
        BY <2>1, <2>3, RecordKeeps DEF Queue!Deploy
      <3>. QED BY <1>4, <2>3, <3>1, Ends DEF Queue!Install
    <2>. QED BY <1>4, <2>2, <2>3 DEF Queue!Install
  <1>5. CASE Queue!RecordMismatch(x)
    <2>1. wk[x].pc # "idle" BY <1>5 DEF Queue!RecordMismatch
    <2>2. Queue!Record(x, Queue!Deploy, TRUE, FALSE, FALSE) BY <1>5 DEF Queue!RecordMismatch
    <2>3. /\ dep' \in [Drafts -> DeploymentRow]
          /\ \A e \in Drafts : dep[e].deployIntent => dep'[e].deployIntent
      BY <2>1, <2>2, RecordKeeps DEF Queue!Deploy
    <2>. QED BY <1>5, <2>3, Ends DEF Queue!RecordMismatch
  <1>6. CASE Queue!RecordStatus(x)
    <2>1. wk[x].pc # "idle" BY <1>6 DEF Queue!RecordStatus
    <2>2. Queue!Record(x, Queue!Deploy, FALSE, wk[x].outcome # "none", wk[x].outcome = "live")
      BY <1>6 DEF Queue!RecordStatus, Queue!StatusStage
    <2>3. /\ dep' \in [Drafts -> DeploymentRow]
          /\ \A e \in Drafts : dep[e].deployIntent => dep'[e].deployIntent
      BY <2>1, <2>2, RecordKeeps DEF Queue!Deploy
    <2>. QED BY <1>6, <2>3, Ends DEF Queue!RecordStatus
  <1>7. CASE Queue!RecordConfirm(x)
    <2>1. wk[x].pc # "idle" BY <1>7 DEF Queue!RecordConfirm
    <2>2. /\ dep' \in [Drafts -> DeploymentRow]
          /\ \A e \in Drafts : dep[e].deployIntent => dep'[e].deployIntent
      <3>1. CASE wk[x].outcome = "none" BY <1>7, <3>1, DepStays DEF Queue!RecordConfirm
      <3>2. CASE wk[x].outcome # "none"
        <4>1. PICK n : n = IF wk[x].outcome = "live" THEN Queue!Register ELSE Queue!Deploy OBVIOUS
        <4>2. n \in Nat BY <4>1 DEF Queue!Register, Queue!Deploy
        <4>3. Queue!Record(x, n, FALSE, TRUE, wk[x].outcome = "live")
          BY <1>7, <3>2, <4>1 DEF Queue!RecordConfirm
        <4>. QED BY <2>1, <4>2, <4>3, RecordKeeps
      <3>. QED BY <3>1, <3>2
    <2>. QED BY <1>7, <2>2, Ends DEF Queue!RecordConfirm
  <1>8. CASE Queue!RecordHandoff(x)
    <2>1. wk[x].pc # "idle" BY <1>8 DEF Queue!RecordHandoff
    <2>2. PICK n : n = IF wk[x].outcome = "confirmed" THEN wk[x].stage + 1 ELSE wk[x].stage OBVIOUS
    <2>3. wk[x].stage \in Nat BY WorkerTypes DEF WorkerRecord
    <2>4. n \in Nat BY <2>2, <2>3
    <2>5. Queue!Record(x, n, FALSE, FALSE, FALSE) BY <1>8, <2>2 DEF Queue!RecordHandoff
    <2>6. /\ dep' \in [Drafts -> DeploymentRow]
          /\ \A e \in Drafts : dep[e].deployIntent => dep'[e].deployIntent
      BY <2>1, <2>4, <2>5, RecordKeeps
    <2>. QED BY <1>8, <2>6, Ends DEF Queue!RecordHandoff
  <1>9. CASE Queue!Crash(x) BY <1>9, DepStays, Ends DEF Queue!Crash
  <1>. QED BY <1>1, <1>2, <1>3, <1>4, <1>5, <1>6, <1>7, <1>8, <1>9

\* recordIntent: whoever writes the intent first is the only one committed to the draft.
LEMMA IntentKeeps ==
  ASSUME QueueInv, NEW x \in Workers, Queue!RecordIntent(x)
  PROVE  QueueInv'
  <1>1. wk[x].pc = "intent" /\ UNCHANGED <<deploys, provider>> BY DEF Queue!RecordIntent
  <1>2. CASE ~Queue!IntentFree(x)
    BY <1>1, <1>2, DepStays, Goes DEF Queue!RecordIntent, WorkerPc, Committed
  <1>3. CASE Queue!IntentFree(x)
    <2>1. PICK d \in Drafts : d = wk[x].d BY <1>1, WorkerTypes
    <2>2. dep[d] \in DeploymentRow /\ ~dep[d].deployIntent
      BY <1>3, <2>1 DEF Queue!IntentFree, Queue!Row, QueueInv, QueueTypes
    <2>3. PICK row : row = [dep[d] EXCEPT !.deployIntent = TRUE, !.stage = Queue!Deploy,
                                          !.state = "working", !.fresh = TRUE] OBVIOUS
    <2>4. row \in DeploymentRow /\ row.deployIntent BY <2>2, <2>3 DEF DeploymentRow, Queue!Deploy
    <2>5. dep' = [dep EXCEPT ![d] = row]
      BY <1>3, <2>1, <2>3 DEF Queue!RecordIntent, QueueInv, QueueTypes
    <2>6. /\ dep' \in [Drafts -> DeploymentRow]
          /\ \A e \in Drafts : dep[e].deployIntent => dep'[e].deployIntent BY <2>4, <2>5, RowWritten
    <2>7. dep'[d].deployIntent BY <2>4, <2>5 DEF QueueInv, QueueTypes
    <2>8. deploys[d] = 0
      <3>1. deploys[d] \in Nat /\ deploys[d] <= 1 /\ deploys[d] # 1 BY <2>2 DEF QueueInv, QueueTypes, ToldOnce
      <3>. QED BY <3>1
    <2>9. PICK w : w = [wk[x] EXCEPT !.pc = "recheck"] OBVIOUS
    <2>10. wk[x] \in WorkerRecord BY WorkerTypes
    <2>11. w \in WorkerRecord /\ w.pc = "recheck" /\ w.d = d BY <2>1, <2>9, <2>10 DEF WorkerRecord, WorkerPc
    <2>12. wk' = [wk EXCEPT ![x] = w] BY <1>3, <2>9 DEF Queue!RecordIntent, Queue!Goto, QueueInv, QueueTypes
    <2>13. \A y \in Workers : wk'[y] = IF y = x THEN w ELSE wk[y] BY <2>12 DEF QueueInv, QueueTypes
    <2>14. QueueTypes'
      <3>1. wk' \in [Workers -> WorkerRecord] BY <2>11, <2>12 DEF QueueInv, QueueTypes
      <3>2. \A y \in Workers : wk'[y].pc # "idle" => wk'[y].d \in Drafts
        BY <2>11, <2>13 DEF QueueInv, QueueTypes
      <3>. QED BY <1>1, <2>6, <3>1, <3>2 DEF QueueInv, QueueTypes
    <2>15. \A y \in Workers : Committed(wk[y]) => wk[y].d # d
      BY <2>2 DEF QueueInv, OneCommitted
    <2>16. OneCommitted'
      <3>1. ASSUME NEW y \in Workers, Committed(wk'[y])
            PROVE deploys'[wk'[y].d] = 0 /\ dep'[wk'[y].d].deployIntent
        <4>1. CASE y = x BY <1>1, <2>7, <2>8, <2>11, <2>13, <4>1
        <4>2. CASE y # x
          <5>1. wk'[y] = wk[y] /\ Committed(wk[y]) BY <2>13, <3>1, <4>2
          <5>2. wk[y].d \in Drafts BY <5>1 DEF QueueInv, QueueTypes, Committed
          <5>. QED BY <1>1, <2>6, <5>1, <5>2 DEF QueueInv, OneCommitted
        <4>. QED BY <4>1, <4>2
      <3>2. ASSUME NEW y \in Workers, NEW z \in Workers, y # z, Committed(wk'[y]), Committed(wk'[z])
            PROVE wk'[y].d # wk'[z].d
        BY <2>11, <2>13, <2>15, <3>2 DEF QueueInv, OneCommitted
      <3>. QED BY <3>1, <3>2 DEF OneCommitted, Committed
    <2>17. ToldOnce' BY <1>1, <2>6 DEF QueueInv, ToldOnce
    <2>. QED BY <2>14, <2>16, <2>17 DEF QueueInv
  <1>. QED BY <1>2, <1>3

\* The deploy is spawned by the worker that is committed to it, once.
LEMMA SpawnKeeps ==
  ASSUME QueueInv, NEW x \in Workers, Queue!SpawnDeploy(x)
  PROVE  QueueInv'
  <1>1. wk[x].pc = "run" /\ UNCHANGED <<provider, dep>> BY DEF Queue!SpawnDeploy
  <1>2. PICK d \in Drafts : d = wk[x].d BY <1>1, WorkerTypes
  <1>3. deploys[d] = 0 /\ dep[d].deployIntent BY <1>1, <1>2 DEF QueueInv, OneCommitted, Committed
  <1>4. deploys' = [deploys EXCEPT ![d] = 1]
    BY <1>2, <1>3 DEF Queue!SpawnDeploy, QueueInv, QueueTypes
  <1>5. PICK w : w = [wk[x] EXCEPT !.pc = "status"] OBVIOUS
  <1>6. wk[x] \in WorkerRecord BY WorkerTypes
  <1>7. w \in WorkerRecord /\ w.pc = "status" /\ w.d = d BY <1>2, <1>5, <1>6 DEF WorkerRecord, WorkerPc
  <1>8. wk' = [wk EXCEPT ![x] = w] BY <1>5 DEF Queue!SpawnDeploy, Queue!Goto, QueueInv, QueueTypes
  <1>9. \A y \in Workers : wk'[y] = IF y = x THEN w ELSE wk[y] BY <1>8 DEF QueueInv, QueueTypes
  <1>10. QueueTypes'
    <2>1. wk' \in [Workers -> WorkerRecord] BY <1>7, <1>8 DEF QueueInv, QueueTypes
    <2>2. \A y \in Workers : wk'[y].pc # "idle" => wk'[y].d \in Drafts
      BY <1>7, <1>9 DEF QueueInv, QueueTypes
    <2>3. deploys' \in [Drafts -> Nat] BY <1>4 DEF QueueInv, QueueTypes
    <2>. QED BY <1>1, <2>1, <2>2, <2>3 DEF QueueInv, QueueTypes
  <1>11. \A y \in Workers : y # x /\ Committed(wk[y]) => wk[y].d # d
    BY <1>1, <1>2 DEF QueueInv, OneCommitted, Committed
  <1>12. OneCommitted'
    <2>1. \A y \in Workers : Committed(wk'[y]) => y # x /\ wk'[y] = wk[y] /\ Committed(wk[y])
      BY <1>7, <1>9 DEF Committed
    <2>2. ASSUME NEW y \in Workers, Committed(wk'[y])
          PROVE deploys'[wk'[y].d] = 0 /\ dep'[wk'[y].d].deployIntent
      <3>1. wk[y].d \in Drafts /\ wk[y].d # d BY <1>11, <2>1, <2>2 DEF QueueInv, QueueTypes, Committed
      <3>. QED BY <1>1, <1>4, <2>1, <2>2, <3>1 DEF QueueInv, QueueTypes, OneCommitted
    <2>3. ASSUME NEW y \in Workers, NEW z \in Workers, y # z, Committed(wk'[y]), Committed(wk'[z])
          PROVE wk'[y].d # wk'[z].d
      BY <2>1, <2>3 DEF QueueInv, OneCommitted
    <2>. QED BY <2>2, <2>3 DEF OneCommitted, Committed
  <1>13. ToldOnce'
    <2>1. \A e \in Drafts : deploys'[e] = IF e = d THEN 1 ELSE deploys[e] BY <1>4 DEF QueueInv, QueueTypes
    <2>. QED BY <1>1, <1>3, <2>1 DEF QueueInv, ToldOnce
  <1>. QED BY <1>10, <1>12, <1>13 DEF QueueInv

LEMMA RecheckKeeps ==
  ASSUME QueueInv, NEW x \in Workers, Queue!RecheckAuthority(x)
  PROVE  QueueInv'
  BY DepStays, Goes, Ends DEF Queue!RecheckAuthority, WorkerPc, Committed

LEMMA QueueSteps == ASSUME QueueInv, [Queue!Next]_(Queue!vars) PROVE QueueInv'
  <1>1. CASE UNCHANGED Queue!vars
    BY <1>1 DEF Queue!vars, QueueInv, QueueTypes, OneCommitted, ToldOnce, Committed
  <1>2. CASE \E d \in Drafts : Queue!QueueDeployment(d) \/ Queue!Revoke(d) \/ Queue!LeaseExpires(d)
                                 \/ Queue!ProviderProgress(d) \/ Queue!Tamper(d)
    BY <1>2, AroundWorkers
  <1>3. CASE \E x \in Workers, d \in Drafts : Queue!Claim(x, d) \/ Queue!RunNamed(x, d)
    BY <1>3, ClaimKeeps
  <1>4. CASE \E x \in Workers : Queue!WorkerStep(x) \/ Queue!Crash(x)
    BY <1>4, Reading, Writing, IntentKeeps, SpawnKeeps, RecheckKeeps DEF Queue!WorkerStep
  <1>. QED BY <1>1, <1>2, <1>3, <1>4 DEF Queue!Next

\* Studio is told to deploy a draft at most once (runDeploy of creator-worker.ts, "never
\* send a second deploy in that case"): for any number of workers that overrun their
\* leases, stop anywhere or run a deployment by name, and any answers of Studio.
THEOREM DraftsDeployOnce == Queue!Spec => []DeployedOnce
  <1>1. QueueInv /\ [Queue!Next]_(Queue!vars) => QueueInv' BY QueueSteps
  <1>2. QueueInv => DeployedOnce BY DEF QueueInv, QueueTypes, ToldOnce, DeployedOnce
  <1>. QED BY <1>1, <1>2, QueueStart, PTL DEF Queue!Spec

-----------------------------------------------------------------------------
(***************************************************************************)
(* The authority of a draft.  Whatever the stored rows say, the runtime's  *)
(* file holds one session for good, every row with a secret reference is   *)
(* that session's, and the chain is read before a use.                     *)
(***************************************************************************)

AuthorityRow == [status : {"active", "revoked", "expired"}, secret : BOOLEAN]
AuthorityRequest ==
  [pc : {"idle", "existing", "observe", "sink", "put"}, op : {"handoff", "read", Unset},
   s : Sessions \cup {Unset}, at : Nat, status : {"active", "revoked", "expired", Unset}]

\* The lifetimes are numbers, and Unset is a value of its own.
AuthorityParameters == /\ Lifetime \in Nat /\ Observation \in Nat
                       /\ Unset \notin Sessions \cup Nat \cup AuthorityRow \cup {"active", "revoked", "expired"}

AuthorityTypes ==
  /\ time \in Nat
  /\ issued \in [Sessions -> Nat \cup {Unset}]
  /\ key \in [Sessions -> [at : Nat \cup {Unset}, revoked : Nat \cup {Unset}]]
  /\ rows \in [Sessions -> AuthorityRow \cup {Unset}]
  /\ latest \in Sessions \cup {Unset}
  /\ file \in Sessions \cup {Unset}
  /\ req \in [Requests -> AuthorityRequest]

KeysGranted ==
  /\ \A s \in Sessions : rows[s] # Unset => key[s].at # Unset
  /\ \A s \in Sessions : key[s].at # Unset => issued[s] \in Nat

\* The file is that of every row with a secret reference.
OneFile(rs, f) == \A s \in Sessions : rs[s] # Unset /\ rs[s].secret => f = s

\* A request works on a session with a row, and when it is about to write a secret
\* reference, or read one, the file is that session's.
RequestOk(q, rs, f) ==
  q.pc # "idle" => /\ q.s \in Sessions /\ rs[q.s] # Unset
                   /\ q.pc = "put" \/ q.op = "read" => f = q.s
                   /\ q.pc = "put" => q.status # Unset

AuthorityInv == /\ AuthorityTypes /\ KeysGranted /\ OneFile(rows, file)
                /\ \A r \in Requests : RequestOk(req[r], rows, file)

LEMMA AuthorityStart == ASSUME Authority!Init PROVE AuthorityInv
  <1>1. AuthorityTypes
    <2>1. Authority!Idle \in AuthorityRequest BY DEF Authority!Idle, AuthorityRequest
    <2>2. Authority!NoKey \in [at : Nat \cup {Unset}, revoked : Nat \cup {Unset}] BY DEF Authority!NoKey
    <2>. QED BY <2>1, <2>2 DEF Authority!Init, AuthorityTypes
  <1>2. KeysGranted BY DEF Authority!Init, KeysGranted, Authority!NoKey
  <1>3. OneFile(rows, file) BY DEF Authority!Init, OneFile
  <1>4. \A r \in Requests : RequestOk(req[r], rows, file) BY DEF Authority!Init, RequestOk, Authority!Idle
  <1>. QED BY <1>1, <1>2, <1>3, <1>4 DEF AuthorityInv

\* A request moves; rows and file stay.
LEMMA RequestMoves ==
  ASSUME AuthorityInv, NEW r \in Requests, NEW q \in AuthorityRequest, RequestOk(q, rows, file),
         req' = [req EXCEPT ![r] = q],
         UNCHANGED <<time, issued, key, rows, latest, file>>
  PROVE  AuthorityInv'
  <1>1. req' \in [Requests -> AuthorityRequest] BY DEF AuthorityInv, AuthorityTypes
  <1>2. \A p \in Requests : req'[p] = q \/ req'[p] = req[p] BY DEF AuthorityInv, AuthorityTypes
  <1>3. \A p \in Requests : RequestOk(req'[p], rows, file) BY <1>2 DEF AuthorityInv
  <1>4. OneFile(rows', file') BY DEF AuthorityInv
  <1>5. \A p \in Requests : RequestOk(req'[p], rows', file') BY <1>3
  <1>. QED BY <1>1, <1>4, <1>5 DEF AuthorityInv, AuthorityTypes, KeysGranted

\* A session has a new row; a row has a secret reference when it had one, or when the
\* file is the session's.
LEMMA RowSet ==
  ASSUME AuthorityInv, AuthorityParameters, NEW s \in Sessions, NEW row \in AuthorityRow,
         Authority!SetRow(s, row), key[s].at # Unset,
         row.secret => file = s,
         \/ req' = req
         \/ \E r \in Requests : req' = [req EXCEPT ![r] = Authority!Idle],
         UNCHANGED <<time, issued, key, file>>
  PROVE  AuthorityInv'
  <1>1. rows' \in [Sessions -> AuthorityRow \cup {Unset}] /\ latest' = s
    BY DEF Authority!SetRow, AuthorityInv, AuthorityTypes
  <1>2. \A t \in Sessions : rows'[t] = IF t = s THEN row ELSE rows[t]
    BY DEF Authority!SetRow, AuthorityInv, AuthorityTypes
  <1>3. OneFile(rows', file) BY <1>2 DEF AuthorityInv, OneFile
  <1>4. \A t \in Sessions : rows[t] # Unset => rows'[t] # Unset BY <1>2 DEF AuthorityParameters
  <1>5. \A q \in AuthorityRequest : RequestOk(q, rows, file) => RequestOk(q, rows', file)
    BY <1>4 DEF RequestOk
  <1>6. /\ req' \in [Requests -> AuthorityRequest]
        /\ \A p \in Requests : req'[p] = req[p] \/ req'[p] = Authority!Idle
    <2>1. Authority!Idle \in AuthorityRequest BY DEF Authority!Idle, AuthorityRequest
    <2>. QED BY <2>1 DEF AuthorityInv, AuthorityTypes
  <1>7. \A p \in Requests : RequestOk(req'[p], rows', file)
    <2>1. RequestOk(Authority!Idle, rows', file) BY DEF RequestOk, Authority!Idle
    <2>. QED BY <1>5, <1>6, <2>1 DEF AuthorityInv, AuthorityTypes
  <1>8. \A p \in Requests : RequestOk(req'[p], rows', file') BY <1>7
  <1>9. OneFile(rows', file') BY <1>3
  <1>10. AuthorityTypes' BY <1>1, <1>6 DEF AuthorityInv, AuthorityTypes
  <1>11. KeysGranted' BY <1>2 DEF AuthorityInv, KeysGranted
  <1>. QED BY <1>8, <1>9, <1>10, <1>11 DEF AuthorityInv

\* The file is written where there was none, or holds the session already.
LEMMA FilePut ==
  ASSUME AuthorityInv, AuthorityParameters, NEW r \in Requests, NEW q \in AuthorityRequest,
         req[r].pc # "idle", Authority!PutsNewFile(req[r].s), file' = req[r].s,
         req' = [req EXCEPT ![r] = q], q.pc # "idle" => q.s = req[r].s /\ q.status # Unset,
         UNCHANGED <<time, issued, key, rows, latest>>
  PROVE  AuthorityInv'
  <1>1. PICK s \in Sessions : s = req[r].s BY DEF AuthorityInv, RequestOk
  <1>2. rows[s] # Unset BY <1>1 DEF AuthorityInv, RequestOk
  <1>3. file = Unset \/ file = s BY <1>1 DEF Authority!PutsNewFile
  <1>4. \A t \in Sessions : file = t => t = s BY <1>3 DEF AuthorityParameters
  <1>5. OneFile(rows, s) BY <1>4 DEF AuthorityInv, OneFile
  <1>6. \A x \in AuthorityRequest : RequestOk(x, rows, file) => RequestOk(x, rows, s)
    BY <1>4 DEF RequestOk
  <1>7. RequestOk(q, rows, s) BY <1>1, <1>2 DEF RequestOk
  <1>8. /\ req' \in [Requests -> AuthorityRequest]
        /\ \A p \in Requests : req'[p] = q \/ req'[p] = req[p]
    BY DEF AuthorityInv, AuthorityTypes
  <1>9. \A p \in Requests : RequestOk(req'[p], rows, s)
    BY <1>6, <1>7, <1>8 DEF AuthorityInv, AuthorityTypes
  <1>10. OneFile(rows', file') BY <1>1, <1>5
  <1>11. \A p \in Requests : RequestOk(req'[p], rows', file') BY <1>1, <1>9
  <1>. QED BY <1>1, <1>8, <1>10, <1>11 DEF AuthorityInv, AuthorityTypes, KeysGranted

LEMMA RequestTypes ==
  ASSUME AuthorityInv, NEW r \in Requests
  PROVE  /\ req[r] \in AuthorityRequest
         /\ RequestOk(req[r], rows, file)
         /\ Authority!Idle \in AuthorityRequest /\ Authority!Idle.pc = "idle"
         /\ time \in Nat
  BY DEF AuthorityInv, AuthorityTypes, Authority!Idle, AuthorityRequest

LEMMA RequestEnds ==
  ASSUME AuthorityInv, NEW r \in Requests, Authority!End(r),
         UNCHANGED <<time, issued, key, rows, latest, file>>
  PROVE  AuthorityInv'
  <1>1. RequestOk(Authority!Idle, rows, file) BY RequestTypes DEF RequestOk
  <1>. QED BY <1>1, RequestTypes, RequestMoves DEF Authority!End

LEMMA RequestBegins ==
  ASSUME AuthorityInv, NEW r \in Requests, NEW op \in {"handoff", "read"}, NEW s \in Sessions,
         NEW pc \in {"existing", "observe"}, Authority!Begin(r, op, s, pc), rows[s] # Unset,
         op = "read" => file = s
  PROVE  AuthorityInv'
  <1>1. PICK q : q = [pc |-> pc, op |-> op, s |-> s, at |-> time, status |-> Unset] OBVIOUS
  <1>2. time \in Nat BY RequestTypes
  <1>3. q \in AuthorityRequest BY <1>1, <1>2 DEF AuthorityRequest
  <1>4. RequestOk(q, rows, file) BY <1>1 DEF RequestOk
  <1>. QED BY <1>1, <1>3, <1>4, RequestMoves DEF Authority!Begin

\* The pages.
LEMMA PageKeeps ==
  ASSUME AuthorityInv, AuthorityParameters, NEW s \in Sessions, Authority!Page(s)
  PROVE  AuthorityInv'
  <1>1. CASE Authority!Grant(s)
    <2>1. PICK t \in 0..time : issued' = [issued EXCEPT ![s] = t] BY <1>1 DEF Authority!Grant
    <2>2. t \in Nat /\ time \in Nat BY DEF AuthorityInv, AuthorityTypes
    <2>3. PICK k : k = [key[s] EXCEPT !.at = time] OBVIOUS
    <2>4. k \in [at : Nat \cup {Unset}, revoked : Nat \cup {Unset}]
      BY <2>2, <2>3 DEF AuthorityInv, AuthorityTypes
    <2>5. key' = [key EXCEPT ![s] = k] BY <1>1, <2>3 DEF Authority!Grant, AuthorityInv, AuthorityTypes
    <2>6. AuthorityTypes' BY <1>1, <2>1, <2>2, <2>4, <2>5 DEF Authority!Grant, AuthorityInv, AuthorityTypes
    <2>7. rows[s] = Unset \/ k.at # Unset
      <3>1. issued[s] = Unset BY <1>1 DEF Authority!Grant
      <3>. QED BY <3>1 DEF AuthorityInv, KeysGranted, AuthorityParameters
    <2>8. KeysGranted' BY <1>1, <2>1, <2>2, <2>5, <2>7 DEF Authority!Grant, AuthorityInv, AuthorityTypes, KeysGranted
    <2>9. OneFile(rows', file') /\ \A r \in Requests : RequestOk(req'[r], rows', file')
      BY <1>1 DEF Authority!Grant, AuthorityInv
    <2>. QED BY <2>6, <2>8, <2>9 DEF AuthorityInv
  <1>2. CASE Authority!Revoke(s)
    <2>1. PICK k : k = [key[s] EXCEPT !.revoked = time] OBVIOUS
    <2>2. k \in [at : Nat \cup {Unset}, revoked : Nat \cup {Unset}] /\ k.at = key[s].at
      BY <2>1 DEF AuthorityInv, AuthorityTypes
    <2>3. key' = [key EXCEPT ![s] = k] BY <1>2, <2>1 DEF Authority!Revoke, AuthorityInv, AuthorityTypes
    <2>4. AuthorityTypes' BY <1>2, <2>2, <2>3 DEF Authority!Revoke, AuthorityInv, AuthorityTypes
    <2>5. \A t \in Sessions : key'[t].at = key[t].at BY <2>2, <2>3 DEF AuthorityInv, AuthorityTypes
    <2>6. KeysGranted' BY <1>2, <2>5 DEF Authority!Revoke, AuthorityInv, KeysGranted
    <2>7. OneFile(rows', file') /\ \A r \in Requests : RequestOk(req'[r], rows', file')
      BY <1>2 DEF Authority!Revoke, AuthorityInv
    <2>. QED BY <2>4, <2>6, <2>7 DEF AuthorityInv
  <1>3. CASE Authority!RecordAuthority(s)
    <2>1. Authority!Row("active", FALSE) \in AuthorityRow /\ Authority!Row("active", FALSE).secret = FALSE
      BY DEF Authority!Row, AuthorityRow
    <2>. QED BY <1>3, <2>1, RowSet DEF Authority!RecordAuthority
  <1>4. CASE Authority!RecordRevocation(s)
    <2>1. rows[s] \in AuthorityRow /\ key[s].at # Unset
      BY <1>4 DEF Authority!RecordRevocation, AuthorityInv, AuthorityTypes, KeysGranted
    <2>2. PICK row : row = [rows[s] EXCEPT !.status = "revoked"] OBVIOUS
    <2>3. row \in AuthorityRow /\ row.secret = rows[s].secret BY <2>1, <2>2 DEF AuthorityRow
    <2>4. row.secret => file = s BY <1>4, <2>3 DEF Authority!RecordRevocation, AuthorityInv, OneFile
    <2>. QED BY <1>4, <2>1, <2>2, <2>3, <2>4, RowSet DEF Authority!RecordRevocation
  <1>. QED BY <1>1, <1>2, <1>3, <1>4 DEF Authority!Page

LEMMA StoredIsFile ==
  ASSUME AuthorityInv, NEW s \in Sessions, Authority!Stored(s)
  PROVE  rows[s] \in AuthorityRow /\ rows[s].secret /\ file = s /\ rows[s] # Unset
         /\ key[s].at \in Nat /\ issued[s] \in Nat
  BY DEF Authority!Stored, AuthorityInv, AuthorityTypes, OneFile, KeysGranted

LEMMA ConfirmKeeps ==
  ASSUME AuthorityInv, AuthorityParameters, NEW s \in Sessions, NEW block \in 0..time,
         Authority!ConfirmRevocation(s, block)
  PROVE  AuthorityInv'
  <1>1. Authority!Stored(s) BY DEF Authority!ConfirmRevocation
  <1>2. rows[s] \in AuthorityRow /\ file = s /\ key[s].at # Unset
    BY <1>1, StoredIsFile DEF AuthorityInv, KeysGranted
  <1>3. PICK row : row = [rows[s] EXCEPT !.status = "revoked"] OBVIOUS
  <1>4. row \in AuthorityRow BY <1>2, <1>3 DEF AuthorityRow
  <1>. QED BY <1>2, <1>3, <1>4, RowSet DEF Authority!ConfirmRevocation

\* The requests.
LEMMA ServerKeeps ==
  ASSUME AuthorityInv, AuthorityParameters, NEW r \in Requests, Authority!Server(r)
  PROVE  AuthorityInv'
  <1>1. ASSUME NEW s \in Sessions, Authority!Handoff(r, s) PROVE AuthorityInv'
    <2>1. CASE Authority!Begin(r, "handoff", s, "existing")
      BY <1>1, <2>1, RequestBegins DEF Authority!Handoff
    <2>2. CASE UNCHANGED <<time, issued, key, rows, latest, file, req>>
      BY <2>2 DEF AuthorityInv, AuthorityTypes, KeysGranted
    <2>. QED BY <1>1, <2>1, <2>2 DEF Authority!Handoff
  <1>2. ASSUME NEW s \in Sessions, Authority!Read(r, s) PROVE AuthorityInv'
    <2>1. Authority!Stored(s) /\ Authority!Begin(r, "read", s, "observe") BY <1>2 DEF Authority!Read
    <2>2. file = s /\ rows[s] # Unset BY <2>1, StoredIsFile
    <2>. QED BY <2>1, <2>2, RequestBegins
  <1>3. ASSUME NEW block \in 0..time, Authority!Observe(r, block) PROVE AuthorityInv'
    <2>1. CASE Authority!End(r) BY <1>3, <2>1, RequestEnds DEF Authority!Observe
    <2>2. CASE /\ req[r].op = "read"
               /\ Authority!Reference(r, Authority!Effective(req[r].s, block, req[r].at))
      <3>1. PICK st : st = Authority!Effective(req[r].s, block, req[r].at) OBVIOUS
      <3>2. st \in {"active", "revoked", "expired"} BY <3>1 DEF Authority!Effective, Authority!StatusAt
      <3>3. PICK q : q = [req[r] EXCEPT !.pc = "put", !.status = st] OBVIOUS
      <3>4. req[r] \in AuthorityRequest BY RequestTypes
      <3>5. q \in AuthorityRequest /\ q.s = req[r].s /\ q.status = st BY <3>2, <3>3, <3>4 DEF AuthorityRequest
      <3>6. RequestOk(q, rows, file)
        BY <1>3, <2>2, <3>2, <3>5, RequestTypes DEF RequestOk, Authority!Observe, AuthorityParameters
      <3>7. req' = [req EXCEPT ![r] = q]
        BY <2>2, <3>1, <3>3 DEF Authority!Reference, AuthorityInv, AuthorityTypes
      <3>. QED BY <1>3, <3>5, <3>6, <3>7, RequestMoves DEF Authority!Observe
    <2>3. CASE req' = [req EXCEPT ![r].pc = "sink"]
      <3>1. PICK q : q = [req[r] EXCEPT !.pc = "sink"] OBVIOUS
      <3>2. req[r] \in AuthorityRequest BY RequestTypes
      <3>3. q \in AuthorityRequest /\ q.s = req[r].s /\ q.op = req[r].op /\ q.pc = "sink"
        BY <3>1, <3>2 DEF AuthorityRequest
      <3>4. RequestOk(q, rows, file) BY <1>3, <3>3, RequestTypes DEF RequestOk, Authority!Observe
      <3>5. req' = [req EXCEPT ![r] = q] BY <2>3, <3>1 DEF AuthorityInv, AuthorityTypes
      <3>. QED BY <1>3, <3>3, <3>4, <3>5, RequestMoves DEF Authority!Observe
    <2>. QED BY <1>3, <2>1, <2>2, <2>3 DEF Authority!Observe
  <1>4. CASE Authority!Existing(r)
    <2>1. PICK s \in Sessions : s = req[r].s /\ rows[s] # Unset
      BY <1>4, RequestTypes DEF RequestOk, Authority!Existing
    <2>2. req[r] \in AuthorityRequest BY RequestTypes
    <2>3. CASE req' = [req EXCEPT ![r].pc = "observe"]
      <3>1. PICK q : q = [req[r] EXCEPT !.pc = "observe"] OBVIOUS
      <3>2. q \in AuthorityRequest /\ q.s = req[r].s /\ q.op = req[r].op /\ q.pc = "observe"
        BY <2>2, <3>1 DEF AuthorityRequest
      <3>3. RequestOk(q, rows, file) BY <1>4, <3>2, RequestTypes DEF RequestOk, Authority!Existing
      <3>4. req' = [req EXCEPT ![r] = q] BY <2>3, <3>1 DEF AuthorityInv, AuthorityTypes
      <3>. QED BY <1>4, <3>2, <3>3, <3>4, RequestMoves DEF Authority!Existing
    <2>4. CASE /\ rows[latest].secret /\ latest = req[r].s
               /\ req' = [req EXCEPT ![r].pc = "observe", ![r].op = "read"]
      <3>1. PICK q : q = [req[r] EXCEPT !.pc = "observe", !.op = "read"] OBVIOUS
      <3>2. q \in AuthorityRequest /\ q.s = req[r].s /\ q.pc = "observe" BY <2>2, <3>1 DEF AuthorityRequest
      <3>3. file = s BY <2>1, <2>4 DEF AuthorityInv, OneFile
      <3>4. RequestOk(q, rows, file) BY <2>1, <3>2, <3>3 DEF RequestOk
      <3>5. req' = [req EXCEPT ![r] = q] BY <2>4, <3>1 DEF AuthorityInv, AuthorityTypes
      <3>. QED BY <1>4, <3>2, <3>4, <3>5, RequestMoves DEF Authority!Existing
    <2>5. CASE Authority!End(r) BY <1>4, <2>5, RequestEnds DEF Authority!Existing
    <2>. QED BY <1>4, <2>3, <2>4, <2>5 DEF Authority!Existing
  <1>5. CASE Authority!Sink(r)
    <2>1. req[r].pc = "sink" /\ req[r] \in AuthorityRequest BY <1>5, RequestTypes DEF Authority!Sink
    <2>2. CASE ~Authority!PutsNewFile(req[r].s) BY <1>5, <2>2, RequestEnds DEF Authority!Sink
    <2>3. CASE Authority!PutsNewFile(req[r].s)
      <3>1. file' = req[r].s /\ UNCHANGED <<time, issued, key, rows, latest>>
        BY <1>5, <2>3 DEF Authority!Sink
      <3>2. CASE Authority!Reference(r, "active")
        <4>1. PICK q : q = [req[r] EXCEPT !.pc = "put", !.status = "active"] OBVIOUS
        <4>2. q \in AuthorityRequest /\ q.s = req[r].s /\ q.status = "active" BY <2>1, <4>1 DEF AuthorityRequest
        <4>3. req' = [req EXCEPT ![r] = q] BY <3>2, <4>1 DEF Authority!Reference, AuthorityInv, AuthorityTypes
        <4>. QED BY <2>1, <2>3, <3>1, <4>2, <4>3, FilePut DEF AuthorityParameters
      <3>3. CASE Authority!End(r)
        BY <2>1, <2>3, <3>1, <3>3, RequestTypes, FilePut DEF Authority!End
      <3>. QED BY <1>5, <2>3, <3>2, <3>3 DEF Authority!Sink
    <2>. QED BY <2>2, <2>3
  <1>6. CASE Authority!Put(r)
    <2>1. PICK s \in Sessions : s = req[r].s /\ rows[s] # Unset /\ file = s
      BY <1>6, RequestTypes DEF RequestOk, Authority!Put
    <2>2. key[s].at # Unset BY <2>1 DEF AuthorityInv, KeysGranted
    <2>3. req[r].status \in {"active", "revoked", "expired"}
      BY <1>6, RequestTypes DEF RequestOk, Authority!Put, AuthorityRequest
    <2>4. PICK row : row = Authority!Row(req[r].status, TRUE) OBVIOUS
    <2>5. row \in AuthorityRow BY <2>3, <2>4 DEF Authority!Row, AuthorityRow
    <2>. QED BY <1>6, <2>1, <2>2, <2>4, <2>5, RowSet DEF Authority!Put, Authority!End
  <1>7. CASE Authority!Crash(r) BY <1>7, RequestEnds DEF Authority!Crash
  <1>. QED BY <1>1, <1>2, <1>3, <1>4, <1>5, <1>6, <1>7 DEF Authority!Server

LEMMA AuthoritySteps ==
  ASSUME AuthorityParameters, AuthorityInv, [Authority!Next]_(Authority!vars)
  PROVE  AuthorityInv'
  <1>1. CASE UNCHANGED Authority!vars
    BY <1>1 DEF Authority!vars, AuthorityInv, AuthorityTypes, KeysGranted
  <1>2. CASE Authority!Tick
    <2>1. AuthorityTypes' BY <1>2 DEF Authority!Tick, AuthorityInv, AuthorityTypes
    <2>. QED BY <1>2, <2>1 DEF Authority!Tick, AuthorityInv, KeysGranted
  <1>3. ASSUME NEW s \in Sessions, Authority!Page(s) PROVE AuthorityInv' BY <1>3, PageKeeps
  <1>4. ASSUME NEW s \in Sessions, NEW block \in 0..time, Authority!ConfirmRevocation(s, block)
        PROVE AuthorityInv'
    BY <1>4, ConfirmKeeps
  <1>5. ASSUME NEW r \in Requests, Authority!Server(r) PROVE AuthorityInv' BY <1>5, ServerKeeps
  <1>. QED BY <1>1, <1>2, <1>3, <1>4, <1>5 DEF Authority!Next

LEMMA UseIsLive == ASSUME AuthorityParameters, AuthorityInv PROVE UsedAuthorityIsLive
  <1> SUFFICES ASSUME NEW s \in Sessions, NEW at \in 0..time, NEW block \in 0..time,
                      Authority!Allowed(s, at, block)
               PROVE  /\ at < Authority!Expiry(s) /\ file = s
                      /\ key[s].revoked = Unset \/ at < key[s].revoked + Observation
    BY DEF UsedAuthorityIsLive, Authority!UsedAuthorityIsLive
  <1>1. /\ Authority!Stored(s) /\ Authority!IsFresh(block, at)
        /\ Authority!Effective(s, block, at) = "active"
    BY DEF Authority!Allowed
  <1>2. file = s /\ issued[s] \in Nat BY <1>1, StoredIsFile
  <1>3. time \in Nat /\ at \in Nat /\ block \in Nat BY DEF AuthorityInv, AuthorityTypes
  <1>4. Authority!StatusAt(s, block) = "active" /\ ~(at >= Authority!Expiry(s))
    BY <1>1 DEF Authority!Effective
  <1>5. Authority!Expiry(s) \in Nat BY <1>2 DEF Authority!Expiry, AuthorityParameters
  <1>6. at < Authority!Expiry(s) BY <1>3, <1>4, <1>5
  <1>7. CASE key[s].revoked # Unset
    <2>1. key[s].revoked \in Nat BY <1>7 DEF AuthorityInv, AuthorityTypes
    <2>2. ~(key[s].revoked <= block) BY <1>4, <1>7 DEF Authority!StatusAt
    <2>3. at <= block + Observation BY <1>1 DEF Authority!IsFresh, Authority!ObservedAt
    <2>. QED BY <1>2, <1>3, <1>6, <2>1, <2>2, <2>3 DEF AuthorityParameters
  <1>. QED BY <1>2, <1>6, <1>7

\* The runtime acts only with the session whose key its file holds, while that session
\* lives, and at most the observation window after its revocation on chain, whatever the
\* stored status says (authority.ts requireRuntimeAuthority): for any number of sessions
\* handed over for one draft, of concurrent requests and crashes, and any lifetimes.
THEOREM AuthorityIsLive == ASSUME AuthorityParameters PROVE Authority!Spec => []UsedAuthorityIsLive
  <1>1. AuthorityInv /\ [Authority!Next]_(Authority!vars) => AuthorityInv' BY AuthoritySteps
  <1>2. AuthorityInv => UsedAuthorityIsLive BY UseIsLive
  <1>. QED BY <1>1, <1>2, AuthorityStart, PTL DEF Authority!Spec
=============================================================================
