---------------------------- MODULE JobLifecycle ----------------------------
(***************************************************************************)
(* The ERC-8183 job lifecycle and the process-local repository that keeps  *)
(* it (lifecycle.ts, repository.ts, validation.ts of agent-commerce): one  *)
(* job, its append-only events and the idempotency records of its actions. *)
(* create and transition compute the next job from what they read and then *)
(* wait for the transactions before them, so what they commit may be out   *)
(* of date.  The buyer approval is no field here: no operation of this     *)
(* repository writes one, so complete, which needs it, is always refused.  *)
(***************************************************************************)
EXTENDS Naturals, Sequences

CONSTANTS Keys,                    \* idempotency keys
          Lead, Horizon, Expiry,   \* minExpiryLeadSeconds, maxExpiryHorizonSeconds, expiresAtUnix
          MinBudget, MaxBudget,    \* of the deployment pin
          InputDefects,            \* what can be wrong with an input, "none" included
          MaxTime, MaxWaiting,     \* bounds: the clock, overlapping transactions
          None

VARIABLES
  clock,     \* the repository's trusted clock
  stored,    \* the job, None before its creation
  events,    \* the events in the order of their insertion
  actions,   \* key -> the digest of the action it was used for
  waiting    \* transactions that wait for their predecessor

lifecycleVars == <<clock, stored, events, actions, waiting>>

States == {"open", "funded", "submitted", "completed", "rejected", "expired"}
ActionTypes == {"set_provider", "set_budget", "fund", "submit", "complete", "reject", "claim_refund", "reconcile"}
Actors == {"client", "provider", "evaluator", "reconciler"}
Budgets == (MinBudget - 1)..(MaxBudget + 1)

\* What an action brings: a provider, a budget, a deliverable or nothing.
NoMetadata == [provider |-> None, budget |-> None, deliverable |-> None]
Metadata(action) ==
  CASE action = "set_provider" -> {NoMetadata, [NoMetadata EXCEPT !.provider = "provider"]}
    [] action = "set_budget" -> {[NoMetadata EXCEPT !.budget = b] : b \in Budgets \cup {None}}
    [] action \in {"submit", "reject"} -> {NoMetadata, [NoMetadata EXCEPT !.deliverable = "result"]}
    [] OTHER -> {NoMetadata}

-----------------------------------------------------------------------------
(* The checks of validation.ts; d is the defect of the input, if any. *)

parseEnabledDeploymentPin(d) == d # "disabled pin"

assertDeploymentPinSnapshot(d) == parseEnabledDeploymentPin(d) /\ d # "other pin"

assertPinMatchesJob(d) == d \notin {"chain", "contract", "token", "decimals"}

assertBudgetMatchesPin(budget) == budget \in MinBudget..MaxBudget

normalizeJobKey(d) == d # "job key"

assertPublicPayloadSafe(d) == d # "private field"

normalizeJobTerms(budget, d) ==
  parseEnabledDeploymentPin(d) /\ assertPinMatchesJob(d) /\ assertBudgetMatchesPin(budget) /\ d # "address"

validateJobTerms(budget, d, now) ==
  /\ normalizeJobTerms(budget, d)
  /\ Expiry > now + Lead
  /\ Expiry <= now + Horizon

\* The record's own schema: its key and pin agree with its terms.
JobRecordParses(d) == d \notin {"record key", "pin digest"}

-----------------------------------------------------------------------------
(* lifecycle.ts *)

allowedTransitions ==
  [s \in States |-> CASE s = "open" -> {"funded", "rejected"}
                      [] s = "funded" -> {"submitted", "rejected", "expired"}
                      [] s = "submitted" -> {"completed", "rejected", "expired"}
                      [] OTHER -> {}]

actorMatches(job, role, actor) ==
  CASE role = "any" -> TRUE
    [] role = "provider" -> job.provider # None /\ actor = job.provider
    [] OTHER -> actor = role

assertActorForAction(job, action, actor, now) ==
  /\ CASE action \in {"fund", "set_provider", "claim_refund"} -> actorMatches(job, "client", actor)
       [] action = "set_budget" -> actorMatches(job, "client", actor) \/ actorMatches(job, "provider", actor)
       [] action = "submit" -> actorMatches(job, "provider", actor)
       [] action = "complete" -> actorMatches(job, "evaluator", actor)
       [] action = "reject" -> actorMatches(job, IF job.state = "open" THEN "client" ELSE "evaluator", actor)
  /\ action = "claim_refund" => now >= Expiry

isOpenMutation(job, action, next) == action \in {"set_provider", "set_budget"} /\ job.state = "open" /\ next = "open"

\* The state each action is valid from and leads to.
ActionFits(job, action, next) ==
  CASE action = "fund" -> job.state = "open" /\ next = "funded"
    [] action \in {"set_provider", "set_budget"} -> isOpenMutation(job, action, next)
    [] action = "submit" -> job.state = "funded" /\ next = "submitted"
    [] action = "complete" -> FALSE   \* buyerApproval is null
    [] action = "reject" -> job.state \in {"open", "funded", "submitted"} /\ next = "rejected"
    [] action = "claim_refund" -> job.state \in {"funded", "submitted"} /\ next = "expired"

assertErc8183Transition(job, next, action, actor, now, d) ==
  /\ JobRecordParses(d) /\ assertDeploymentPinSnapshot(d) /\ assertPinMatchesJob(d) /\ assertBudgetMatchesPin(job.budget)
  /\ \/ action = "reconcile" /\ next = job.state /\ actor = "reconciler"
     \/ /\ action # "reconcile"
        /\ action # "claim_refund" => now < Expiry
        /\ next \in allowedTransitions[job.state] \/ isOpenMutation(job, action, next)
        /\ ActionFits(job, action, next)
        /\ assertActorForAction(job, action, actor, now)
        /\ next = "expired" => now >= Expiry
        /\ next = "submitted" => job.provider # None

\* transitionErc8183Job: what the metadata must hold, and the next job.
MetadataFits(action, next, meta, d) ==
  /\ meta.deliverable # None => next = "submitted"
  /\ action = "set_provider" => meta.provider # None
  /\ action = "set_budget" => meta.budget # None /\ assertBudgetMatchesPin(meta.budget)
  /\ assertPublicPayloadSafe(d) /\ d # "transaction hash"

NextJob(job, action, next, meta, now) ==
  [job EXCEPT !.state = next,
              !.provider = IF action = "set_provider" THEN meta.provider ELSE @,
              !.budget = IF action = "set_budget" THEN meta.budget ELSE @,
              !.deliverable = IF meta.deliverable # None THEN meta.deliverable ELSE @,
              !.updated = now]

eventTypeFor(action, next) ==
  CASE action = "set_provider" -> "provider_set"
    [] action = "set_budget" -> "budget_set"
    [] action = "reconcile" -> "reconciliation_requested"
    [] OTHER -> [funded |-> "job_funded", submitted |-> "job_submitted", completed |-> "job_completed",
                 expired |-> "job_expired", rejected |-> "job_rejected"][next]

createErc8183JobEvent(key, type, prev, next, now) == [key |-> key, type |-> type, prev |-> prev, next |-> next, at |-> now]

-----------------------------------------------------------------------------
(* repository.ts *)

Init ==
  /\ clock = 1
  /\ stored = None
  /\ events = <<>>
  /\ actions = [k \in Keys |-> None]
  /\ waiting = <<>>

\* The transaction queues behind transactionTail and commits later.
Enter(key, digest, expected, job, event) ==
  /\ Len(waiting) < MaxWaiting
  /\ waiting' = Append(waiting, [key |-> key, digest |-> digest, expected |-> expected, job |-> job, event |-> event])
  /\ UNCHANGED <<clock, stored, events, actions>>

\* create.  A key already used replays or is refused: neither changes anything.
create(key, budget, provider, d) ==
  LET job == [state |-> "open", provider |-> provider, budget |-> budget, deliverable |-> None, updated |-> clock]
      request == [action |-> "create", by |-> "client", meta |-> [NoMetadata EXCEPT !.budget = budget, !.provider = provider]]
  IN /\ JobRecordParses(d) /\ assertDeploymentPinSnapshot(d) /\ normalizeJobKey(d) /\ normalizeJobTerms(budget, d)
     /\ actions[key] = None
     /\ validateJobTerms(budget, d, clock)
     /\ stored = None
     /\ Enter(key, request, None, job, createErc8183JobEvent(key, "job_created", None, "open", clock))

\* transition: computed from the job read now, committed when it is its turn.
transition(key, expectedState, next, action, actor, meta, d) ==
  LET request == [action |-> action, by |-> actor, meta |-> meta]
  IN /\ normalizeJobKey(d)
     /\ actions[key] = None
     /\ stored # None
     /\ stored.state = expectedState
     /\ assertErc8183Transition(stored, next, action, actor, clock, d)
     /\ MetadataFits(action, next, meta, d)
     /\ Enter(key, request, stored, NextJob(stored, action, next, meta, clock),
              createErc8183JobEvent(key, eventTypeFor(action, next), stored.state, next, clock))

(* Mutation: the expected job is compared by its state only. *)
ExpectedStateStored(t) ==
  IF t.expected = None \/ stored = None THEN t.expected = stored ELSE stored.state = t.expected.state

\* The job is still the one the transition was computed from.
ExpectedIsStored(t) == stored = t.expected

\* Neither the event's key nor the action's was used meanwhile.
KeyIsFresh(t) == actions[t.key] = None

\* commit of the unit of work.  The terms are validated against the clock again,
\* also for a job that is past its lead time; a refused commit restores the maps.
commit ==
  /\ waiting # <<>>
  /\ LET t == Head(waiting)
         ok == validateJobTerms(t.job.budget, "none", clock) /\ ExpectedIsStored(t) /\ KeyIsFresh(t)
     IN /\ stored' = IF ok THEN t.job ELSE stored
        /\ events' = IF ok THEN Append(events, t.event) ELSE events
        /\ actions' = IF ok THEN [actions EXCEPT ![t.key] = t.digest] ELSE actions
  /\ waiting' = Tail(waiting)
  /\ UNCHANGED clock

\* appendEvent only ever returns the event its action stored: no state changes.

Tick ==
  /\ clock < MaxTime
  /\ clock' = clock + 1
  /\ UNCHANGED <<stored, events, actions, waiting>>

Next ==
  \/ /\ stored = None /\ Len(waiting) < MaxWaiting
     /\ \E k \in Keys, b \in Budgets, p \in {None, "provider"}, d \in InputDefects : create(k, b, p, d)
  \/ /\ stored # None /\ Len(waiting) < MaxWaiting
     /\ \E k \in Keys, a \in ActionTypes, n \in allowedTransitions[stored.state] \cup {stored.state}, who \in Actors :
          \E m \in Metadata(a), d \in InputDefects : transition(k, stored.state, n, a, who, m, d)
  \/ commit
  \/ Tick

Spec == Init /\ [][Next]_lifecycleVars

-----------------------------------------------------------------------------
\* Keys 1, 2, ... are used in this order: a constraint for TLC.
KeysInOrder ==
  LET used == {waiting[i].key : i \in DOMAIN waiting} \cup {k \in Keys : actions[k] # None}
  IN \A k \in used : k > 1 => k - 1 \in used

\* What an event and the request stored under its key make of a job.
Applied(job, e) ==
  LET request == actions[e.key]
  IN IF request.action = "create"
     THEN [state |-> "open", provider |-> request.meta.provider, budget |-> request.meta.budget, deliverable |-> None, updated |-> e.at]
     ELSE NextJob(job, request.action, e.next, request.meta, e.at)

\* The job after the first n events.
After[n \in 0..Len(events)] == IF n = 0 THEN None ELSE Applied(After[n - 1], events[n])

\* The job is exactly what its events make of it, applied in order: no
\* transition that overlaps another one loses what the other committed, and
\* every event starts from the state the one before it left.
JobIsItsEvents ==
  /\ After[Len(events)] = stored
  /\ \A i \in 2..Len(events) : events[i].prev = events[i - 1].next
=============================================================================
