------------------------------ MODULE PhaseZero ------------------------------
(***************************************************************************)
(* The phase-zero run of an Altana session (spikes/altana-studio/src/      *)
(* runner.ts) and the evidence it assembles (packages/altana/src/          *)
(* evidence.ts): a policy is reviewed and granted, the session key is      *)
(* handed over, one permitted action is made, the session is revoked and   *)
(* the same action must then be refused.                                   *)
(*                                                                         *)
(* The runner only sees what its adapters report.  The chain really grants,*)
(* executes and revokes; an adapter may answer with any attempt or reading *)
(* made so far, its own retries and cached answers included, or fail.      *)
(* Addresses, selectors and digests are names; an amount is a small        *)
(* number; a spend bucket is a token with its period.                      *)
(***************************************************************************)
EXTENDS Naturals, Sequences, SequencesExt

CONSTANTS Policies,      \* policies a wallet may be asked for or may grant
          Requests,      \* actions a run may be asked to make
          Used,          \* what may have been charged before: lists of charges
          Destinations,  \* where a session key may be handed over to
          Attestors,     \* "simulation", "local-verifier", "authorized-live-adapter"
          MaxAge,        \* MAX_AUTHORITY_OBSERVATION_AGE_SECONDS
          MaxLifetime, MaxSpend,  \* PolicyBounds
          MaxTime, MaxAttempts

VARIABLES
  clock,
  input,     \* of the run: policy, request, used, destination, attestor, now
  session,   \* on chain: the policy granted, and when it was granted and revoked
  attempts,  \* what reached the chain or its relay: [at, ok, hash, spends]
  step,      \* what the runner awaits
  ev         \* the evidence

vars == <<clock, input, session, attempts, step, ev>>

Steps == {"policy_reviewed", "session_granted", "session_handed_off",
          "permitted_action_confirmed", "revocation_confirmed", "post_revocation_action_rejected"}

-----------------------------------------------------------------------------
(* Amounts.  A charge is [bucket, amount]; "native" is the chain's coin.   *)

Charged(charges, b) ==
  FoldSeq(LAMBDA c, n : IF c.bucket = b THEN c.amount + n ELSE n, 0, charges)

Buckets(charges) == {charges[i].bucket : i \in DOMAIN charges}

NativeMatches(value, charges) == Charged(charges, "native") = value

SameTotals(left, right) ==
  /\ Buckets(left) = Buckets(right)
  /\ \A b \in Buckets(left) : Charged(left, b) = Charged(right, b)

(* policy.spend: a limit for each bucket it names. *)
Covered(policy, charges) ==
  \A b \in Buckets(charges) : b \in DOMAIN policy.spend /\ Charged(charges, b) <= policy.spend[b]

-----------------------------------------------------------------------------
(* Policies (policy.ts). *)

NormalPolicy(p) ==
  /\ p.chain \in {56, 97} /\ p.expires > 0
  /\ p.calls # {}
  /\ \A b \in DOMAIN p.spend : p.spend[b] > 0

ValidAt(p, now) == NormalPolicy(p) /\ now < p.expires

WithinBounds(p, now) ==
  /\ ValidAt(p, now)
  /\ p.expires - now <= MaxLifetime
  /\ \A b \in DOMAIN p.spend : p.spend[b] <= MaxSpend

CallAllowed(p, r) == r.call \in p.calls /\ r.value <= p.maxNative

(* Mutation: what was charged before is not counted. *)
WithinLimitAlone(p, used, charges, b) == Charged(charges, b) <= p.spend[b]

WithinLimit(p, used, charges, b) == Charged(used, b) + Charged(charges, b) <= p.spend[b]

ActionWithinPolicy(p, r, used, now) ==
  /\ ValidAt(p, now) /\ CallAllowed(p, r)
  /\ NativeMatches(r.value, r.spends)
  /\ Buckets(used) \subseteq DOMAIN p.spend
  /\ \A b \in DOMAIN p.spend : Charged(used, b) <= p.spend[b]
  /\ \A b \in Buckets(r.spends) : b \in DOMAIN p.spend /\ WithinLimit(p, used, r.spends, b)

(* executionGate: a fresh active reading of this session, and the policy. *)
FreshActive(obs, now) ==
  /\ obs.mine /\ obs.policy = ev.session.policy
  /\ obs.at <= now /\ now - obs.at <= MaxAge
  /\ obs.status = "active"

ExecutionAllowed(obs) ==
  /\ FreshActive(obs, input.now)
  /\ ActionWithinPolicy(session.policy, input.request, input.used, input.now)

-----------------------------------------------------------------------------
(* Evidence (evidence.ts). *)

Empty == [state |-> "not_observed", at |-> 0, hash |-> FALSE, spends |-> <<>>]

NoAuthority == [status |-> "none", at |-> 0, mine |-> FALSE, policy |-> "none", source |-> "none"]

Template == [status |-> "not_run", level |-> "design_only",
             policy |-> "none", expected |-> "none",
             session |-> [policy |-> "none", handed |-> "none"],
             authority |-> NoAuthority,
             cp |-> [s \in Steps |-> Empty]]

RecordCheckpoint(e, s, at) ==
  [e EXCEPT !.status = "in_progress", !.cp[s] = [Empty EXCEPT !.state = "observed", !.at = at]]

(* recordAuthorityObservation *)
AuthorityAcceptable(obs) ==
  obs.mine /\ obs.status = "active" /\ obs.policy = ev.session.policy

(* recordActionObservation *)
ActionAcceptable(x) ==
  /\ NativeMatches(x.value, x.spends)
  /\ x.value = input.request.value /\ SameTotals(x.spends, input.request.spends)

ActionState(s, ok) ==
  IF s = "post_revocation_action_rejected" THEN (IF ok THEN "failed" ELSE "rejected")
                                           ELSE (IF ok THEN "observed" ELSE "failed")

RecordAction(e, s, x) ==
  [e EXCEPT !.status = "in_progress",
            !.cp[s] = [state |-> ActionState(s, x.ok), at |-> x.at, hash |-> x.hash, spends |-> x.spends]]

RecordRevocation(e, at, hash) ==
  [e EXCEPT !.status = "in_progress",
            !.cp["revocation_confirmed"] = [Empty EXCEPT !.state = "observed", !.at = at, !.hash = hash]]

(* Mutation: the refusal may precede the revocation. *)
ActionFirst(action, revoke, post) == action.at <= revoke.at

Chronological(action, revoke, post) == action.at <= revoke.at /\ revoke.at <= post.at

(* Live evidence: nothing read or stored by a test, and both hashes. *)
LiveComplete(e) ==
  /\ e.authority.source # "test" /\ e.session.handed # "local-test-only"
  /\ e.expected.chain = 97
  /\ e.cp["permitted_action_confirmed"].hash /\ e.cp["revocation_confirmed"].hash

ActionEvidence(e) ==
  LET action == e.cp["permitted_action_confirmed"] IN
  /\ action.state = "observed"
  /\ e.authority.at <= action.at /\ action.at - e.authority.at <= MaxAge
  /\ SameTotals(action.spends, e.expected.request.spends)

PostEvidence(e) ==
  LET post == e.cp["post_revocation_action_rejected"] IN
  /\ post.state = "rejected" /\ ~post.hash
  /\ SameTotals(post.spends, e.expected.request.spends)

Complete(e, attestor) ==
  /\ e.status = "in_progress" /\ e.session.handed # "none"
  /\ e.authority.status = "active" /\ e.authority.policy = e.session.policy
  /\ e.policy.chain = e.expected.chain
  /\ CallAllowed(e.policy, e.expected.request) /\ Covered(e.policy, e.expected.request.spends)
  /\ \A s \in Steps : e.cp[s].state \notin {"not_observed", "failed"} /\ e.cp[s].at > 0
  /\ Chronological(e.cp["permitted_action_confirmed"], e.cp["revocation_confirmed"],
                   e.cp["post_revocation_action_rejected"])
  /\ ActionEvidence(e) /\ PostEvidence(e)
  /\ attestor = "authorized-live-adapter" => LiveComplete(e)

Level(attestor) == CASE attestor = "simulation" -> "simulated"
                     [] attestor = "local-verifier" -> "local_test"
                     [] attestor = "authorized-live-adapter" -> "testnet"

Finalized(e, attestor) == [e EXCEPT !.status = "passed", !.level = Level(attestor)]

Failed(e, s) == [e EXCEPT !.status = "blocked", !.cp[s] = [Empty EXCEPT !.state = "failed", !.at = clock]]

-----------------------------------------------------------------------------
(* The chain and the adapters. *)

StatusAt(t) == CASE session.granted = 0 \/ t < session.granted -> "unverified"
                 [] session.revoked # 0 /\ t >= session.revoked -> "revoked"
                 [] t >= session.policy.expires -> "expired"
                 [] OTHER -> "active"

(* A reading of this or of another session of the wallet, fresh or cached. *)
Readings == [status : {"active"}, at : 1 .. clock, mine : BOOLEAN, policy : {session.policy},
             source : {"keystore-read", "test"}]

Truthful(obs) == obs.mine => StatusAt(obs.at) = obs.status

Running == step \notin {"passed", "blocked"}

(* An action reaches the chain: it goes through only while the session is  *)
(* active, and may be refused for reasons of its own.                      *)
Attempt ==
  /\ step \in {"permitted_action_confirmed", "post_revocation_action_rejected"}
  /\ Len(attempts) < MaxAttempts
  /\ \E ok, hash \in BOOLEAN, r \in Requests :
       /\ ok => hash /\ StatusAt(clock) = "active"
       /\ attempts' = Append(attempts, [at |-> clock, ok |-> ok, hash |-> hash,
                                        value |-> r.value, spends |-> r.spends])
  /\ UNCHANGED <<clock, input, session, step, ev>>

(* revokeSession, or the owner on their own. *)
RevokeOnChain ==
  /\ Running /\ session.granted # 0 /\ session.revoked = 0
  /\ session' = [session EXCEPT !.revoked = clock]
  /\ UNCHANGED <<clock, input, attempts, step, ev>>

Tick ==
  /\ Running /\ clock < MaxTime
  /\ clock' = clock + 1
  /\ UNCHANGED <<input, session, attempts, step, ev>>

-----------------------------------------------------------------------------
(* runPhaseZeroSpike: one action per answer of an adapter. *)

Stop(s) ==
  /\ ev' = Failed(ev, s) /\ step' = "blocked"

Begin ==
  /\ step = "start"
  /\ \E p \in Policies, r \in Requests, u \in Used, d \in Destinations, a \in Attestors :
       /\ input' = [policy |-> p, request |-> r, used |-> u, destination |-> d, attestor |-> a, now |-> clock]
       /\ LET admitted == /\ p.chain = 97 /\ WithinBounds(p, clock)
                          /\ ActionWithinPolicy(p, r, u, clock)
          IN \/ /\ admitted
                /\ ev' = [Template EXCEPT !.status = "in_progress", !.policy = p,
                                          !.expected = [chain |-> p.chain, request |-> r]]
                /\ step' = "policy_reviewed"
             \/ /\ ~admitted
                /\ ev' = Failed(Template, "policy_reviewed")
                /\ step' = "blocked"
  /\ UNCHANGED <<clock, session, attempts>>

Review ==
  /\ step = "policy_reviewed"
  /\ ev' = RecordCheckpoint(ev, step, input.now)
  /\ step' = "session_granted"
  /\ UNCHANGED <<clock, input, session, attempts>>

(* The wallet grants a policy, which need not be the one reviewed. *)
Grant ==
  /\ step = "session_granted"
  /\ \E p \in Policies :
       /\ session' = [policy |-> p, granted |-> clock, revoked |-> 0]
       /\ \/ /\ p = input.policy
             /\ ev' = [RecordCheckpoint(ev, step, clock) EXCEPT !.session.policy = p]
             /\ step' = "session_handed_off"
          \/ p # input.policy /\ Stop(step)
  /\ UNCHANGED <<clock, input, attempts>>

(* handoffRuntimeSession *)
Handoff ==
  /\ step = "session_handed_off"
  /\ \/ /\ clock < session.policy.expires
        /\ ev' = [RecordCheckpoint(ev, step, clock) EXCEPT !.session.handed = input.destination]
        /\ step' = "permitted_action_confirmed"
     \/ clock >= session.policy.expires /\ Stop(step)
  /\ UNCHANGED <<clock, input, session, attempts>>

ReadAuthority ==
  /\ step = "permitted_action_confirmed" /\ ev.authority = NoAuthority
  /\ \E obs \in Readings :
       /\ Truthful(obs)
       /\ \/ /\ AuthorityAcceptable(obs) /\ ExecutionAllowed(obs)
             /\ ev' = [ev EXCEPT !.authority = obs]
             /\ UNCHANGED step
          \/ ~AuthorityAcceptable(obs) /\ Stop(step)
          \/ /\ AuthorityAcceptable(obs) /\ ~ExecutionAllowed(obs)
             /\ ev' = Failed([ev EXCEPT !.authority = obs], step) /\ step' = "blocked"
  /\ UNCHANGED <<clock, input, session, attempts>>

Execute ==
  /\ step = "permitted_action_confirmed" /\ ev.authority # NoAuthority
  /\ \E i \in DOMAIN attempts :
       \/ /\ ActionAcceptable(attempts[i]) /\ attempts[i].ok
          /\ ev' = RecordAction(ev, step, attempts[i])
          /\ step' = "revocation_confirmed"
       \/ ~(ActionAcceptable(attempts[i]) /\ attempts[i].ok) /\ Stop(step)
  /\ UNCHANGED <<clock, input, session, attempts>>

(* revokeSession answers once the revocation is on chain. *)
Revoke ==
  /\ step = "revocation_confirmed" /\ session.revoked # 0
  /\ \E hash \in BOOLEAN : ev' = RecordRevocation(ev, session.revoked, hash)
  /\ step' = "post_revocation_action_rejected"
  /\ UNCHANGED <<clock, input, session, attempts>>

(* executeAfterRevocation answers, and the evidence is finalized. *)
ExecuteAfterRevocation ==
  /\ step = "post_revocation_action_rejected"
  /\ \E i \in DOMAIN attempts :
       LET e == RecordAction(ev, step, attempts[i])
           good == ActionAcceptable(attempts[i]) /\ ~attempts[i].ok /\ Complete(e, input.attestor)
       IN \/ good /\ ev' = Finalized(e, input.attestor) /\ step' = "passed"
          \/ ~good /\ Stop(step)
  /\ UNCHANGED <<clock, input, session, attempts>>

(* An adapter throws. *)
AdapterFails ==
  /\ step \in Steps
  /\ Stop(step)
  /\ UNCHANGED <<clock, input, session, attempts>>

-----------------------------------------------------------------------------
Init ==
  /\ clock = 1
  /\ input = "none"
  /\ session = [policy |-> "none", granted |-> 0, revoked |-> 0]
  /\ attempts = <<>>
  /\ step = "start"
  /\ ev = Template

Next ==
  \/ Attempt \/ RevokeOnChain \/ Tick
  \/ Begin \/ Review \/ Grant \/ Handoff \/ ReadAuthority \/ Execute \/ Revoke
  \/ ExecuteAfterRevocation \/ AdapterFails

Spec == Init /\ [][Next]_vars

-----------------------------------------------------------------------------
(***************************************************************************)
(* A report that says "passed" is true of the chain, whatever the adapters *)
(* cached or retried: the action went through under the session that was   *)
(* reviewed, the session was revoked no earlier than that, and an attempt  *)
(* was refused no earlier than the revocation; with what was charged       *)
(* before, the charges stay within the granted limits.                     *)
(* (finalizePhaseZeroEvidence: "an empty report cannot be promoted to      *)
(* passed/testnet")                                                        *)
(***************************************************************************)
PassedIsTrue ==
  ev.status = "passed" =>
    /\ session.policy = input.policy /\ session.revoked # 0
    /\ \E i \in DOMAIN attempts :
         /\ attempts[i].ok /\ session.granted <= attempts[i].at /\ attempts[i].at <= session.revoked
         /\ \A b \in Buckets(attempts[i].spends) :
              Charged(input.used, b) + Charged(attempts[i].spends, b) <= session.policy.spend[b]
    /\ \E i \in DOMAIN attempts : ~attempts[i].ok /\ attempts[i].at >= session.revoked
    /\ ev.level = "testnet" => input.attestor = "authorized-live-adapter" /\ input.destination # "local-test-only"
=============================================================================
