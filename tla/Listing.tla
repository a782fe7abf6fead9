------------------------------- MODULE Listing -------------------------------
(***************************************************************************)
(* One agent of the marketplace, from its registration document to its     *)
(* card: the composition run enriches it (pipeline.ts), publishes a        *)
(* version (publication.ts), saves its category and its vector             *)
(* (composition.ts); the seller review promotes it in a transaction of its *)
(* own (marketplace-mainnet-release-sync.ts); probes age; a moderator may  *)
(* take it down; and a reader builds the card from several queries         *)
(* (source.ts) and judges it later (eligibility.ts).                       *)
(*                                                                         *)
(* Time is counted in minutes, the tick of the health cron.  A document is *)
(* what the agent URI serves; a version is the document with the services  *)
(* known when it was made, and whether it came from a seller review.       *)
(***************************************************************************)
EXTENDS Naturals, Sequences

CONSTANTS Runs,          \* composition runs
          Docs,          \* registration documents
          Services,      \* endpoints
          Advertises,    \* document -> the services it names
          Explicit,      \* documents that carry a capability manifest themselves
          Answers,       \* what an endpoint may answer: healthy, unhealthy, rejected
          Reviews,       \* reviews of the seller: refreshes (TRUE), promotions (FALSE)
          Takedowns,     \* what a moderator may do: <<axis, status>>
          Sink,          \* whether a category sink is configured
          Reading,       \* whether the directory is read
          MaxAge,        \* age at which a probe is stale, both for publishing and browsing
          MaxTime, MaxVersions,   \* bounds
          None

VARIABLES now,        \* the wall clock
          up,         \* what a probe of each endpoint would find
          offer,      \* the document served at the agent URI
          read,       \* the identity row: consistency of its last read
          caps,       \* documents whose capability manifest is stored
          observed,   \* services stored for the identity: their validation status
          probe,      \* latest stored probe of each service
          axes,       \* verification, runtime and listing status of the agent row
          versions,   \* agent_versions, in order
          current,    \* agents.current_version_id as a version number, 0 for NULL
          predicted,  \* <<version, document>>: agent_category_predictions
          vectors,    \* versions with a vector
          run,        \* composition runs
          review,     \* the seller review
          view,       \* the reader
          answered    \* history: when an endpoint last answered a stored probe

chainVars == <<now, up, offer>>
rowVars == <<read, caps, observed, probe>>
agentVars == <<axes, versions, current>>
indexVars == <<predicted, vectors>>
vars == <<chainVars, rowVars, agentVars, indexVars, run, review, view, answered>>

NoRun == [pc |-> "idle", read |-> FALSE, doc |-> None, cap |-> FALSE, services |-> {},
          version |-> 0, published |-> FALSE, target |-> 0]
NoReview == [pc |-> "idle", refresh |-> FALSE, axes |-> None, current |-> 0, latest |-> 0, at |-> 0]
NoView == [pc |-> "idle", axes |-> None, probe |-> None, status |-> "unknown", observedAt |-> None,
           at |-> 0, eligible |-> FALSE]

Init ==
  /\ now = 0 /\ answered = None
  /\ up \in [Services -> Answers]
  /\ offer \in Docs
  /\ read \in {"none", "provisional"}
  /\ caps = {} /\ observed = [s \in Services |-> None]
  /\ probe = [s \in Services |-> None]
  /\ axes = [verification |-> "pending", runtime |-> "unavailable", listing |-> "draft"]
  /\ versions = <<>> /\ current = 0
  /\ predicted = {} /\ vectors = {}
  /\ run = [r \in Runs |-> NoRun]
  /\ review = NoReview /\ view = NoView

-----------------------------------------------------------------------------
(* The world: time, the endpoints, the document, and the moderator, who is  *)
(* bound by the transitions of states.ts.                                    *)

Tick == /\ now < MaxTime /\ now' = now + 1
        /\ UNCHANGED <<up, offer, rowVars, agentVars, indexVars, run, review, view, answered>>

Switch(s) == /\ \E a \in Answers \ {up[s]} : up' = [up EXCEPT ![s] = a]
             /\ UNCHANGED <<now, offer, rowVars, agentVars, indexVars, run, review, view, answered>>

Rewrite(d) == /\ offer' = d
              /\ UNCHANGED <<now, up, rowVars, agentVars, indexVars, run, review, view, answered>>

Transitions ==
  [verification |-> [pending |-> {"verified", "degraded", "rejected"}, verified |-> {"degraded", "rejected"},
                     degraded |-> {"verified", "rejected"}, rejected |-> {}],
   runtime |-> [live |-> {"unavailable", "paused"}, unavailable |-> {"live", "paused"},
                paused |-> {"live", "unavailable"}],
   listing |-> [draft |-> {"published", "paused", "suspended", "delisted"},
                published |-> {"paused", "suspended", "delisted"},
                paused |-> {"published", "suspended", "delisted"},
                suspended |-> {"published", "paused", "delisted"}, delisted |-> {}]]

CanTransition(axis, to) == axes[axis] = to \/ to \in Transitions[axis][axes[axis]]

Moderate ==
  /\ \E change \in Takedowns :
       /\ CanTransition(change[1], change[2])
       /\ axes' = [axes EXCEPT ![change[1]] = change[2]]
  /\ UNCHANGED <<chainVars, rowVars, versions, current, indexVars, run, review, view, answered>>

-----------------------------------------------------------------------------
(* A composition run of the candidate.                                       *)

Stored == {s \in Services : observed[s] # None}

(* Services a version may advertise: a rejected one is left out of it. *)
Usable == {s \in Stored : observed[s] # "rejected"}

Fresh(p) == p # None /\ p.at <= now /\ now - p.at <= MaxAge

HealthyNow(p) == Fresh(p) /\ p.status = "healthy"

Continue(r, pc) == run' = [run EXCEPT ![r].pc = pc]

(* ingestCandidate, then the registry read at the finalized tag; a failed
   read leaves the row as it was and the run goes on. *)
ReadRegistry(r) ==
  /\ run[r].pc = "idle"
  /\ \/ read' = "finalized" /\ run' = [run EXCEPT ![r] = [NoRun EXCEPT !.pc = "resolve", !.read = TRUE]]
     \/ UNCHANGED read /\ run' = [run EXCEPT ![r] = [NoRun EXCEPT !.pc = "resolve"]]
  /\ UNCHANGED <<chainVars, caps, observed, probe, agentVars, indexVars, review, view, answered>>

(* The document is fetched when the row has a URI.  Its services are stored
   and join those the run already had; a manifest in it is stored too. *)
Resolve(r) ==
  /\ run[r].pc = "resolve"
  /\ \/ /\ read # "none"
        /\ caps' = caps \cup ({offer} \cap Explicit)
        /\ observed' = [s \in Services |-> IF s \in Advertises[offer] THEN "unverified" ELSE observed[s]]
        /\ run' = [run EXCEPT ![r].pc = "probe", ![r].doc = offer, ![r].cap = offer \in Explicit,
                              ![r].services = Advertises[offer]]
     \/ Continue(r, "probe") /\ UNCHANGED <<caps, observed>>
  /\ UNCHANGED <<chainVars, read, probe, agentVars, indexVars, review, view, answered>>

(* probeManyAndPersist: one result per service, whatever the others do. *)
ProbeMany(S) ==
  /\ probe' = [s \in Services |-> IF s \in S THEN [at |-> now, status |-> up[s]] ELSE probe[s]]
  /\ observed' = [s \in Services |-> IF s \in S THEN up[s] ELSE observed[s]]
  /\ answered' = IF \E s \in S : up[s] = "healthy" THEN now ELSE answered

(* capabilityManifestFromA2AProbes *)
HasHealthyCard(r) == \E s \in run[r].services : up[s] = "healthy"

(* Each service of the run is probed and the result stored.  Without a
   manifest of its own the document gets the one of a healthy agent card. *)
Probe(r) ==
  /\ run[r].pc = "probe"
  /\ LET doc == run[r].doc
         adapted == doc # None /\ ~run[r].cap /\ HasHealthyCard(r)
     IN /\ caps' = IF adapted THEN caps \cup {doc} ELSE caps
        /\ run' = [run EXCEPT ![r].pc = "publish", ![r].cap = @ \/ adapted]
  /\ ProbeMany(run[r].services)
  /\ UNCHANGED <<chainVars, read, agentVars, indexVars, review, view>>

-----------------------------------------------------------------------------
(* publication.ts: one transaction that holds the agent's row.               *)

Content(doc, reviewed) == [doc |-> doc, services |-> Usable, reviewed |-> reviewed]

(* Mutation: a version of equal content is reused wherever it stands. *)
ReusableAnywhere(c) == {v \in DOMAIN versions : versions[v] = c}

(* selectOrCreateVersion: the current version, or the newest when none is
   published or it was retained after the current one. *)
Reusable(c) == {v \in DOMAIN versions : /\ versions[v] = c
                                        /\ v = current \/ (v = Len(versions) /\ v > current)}

Oldest(S) == CHOOSE v \in S : \A w \in S : v <= w

Selected(c) == IF current \in Reusable(c) THEN current
               ELSE IF Reusable(c) # {} THEN Oldest(Reusable(c)) ELSE Len(versions) + 1

WithVersion(c) == IF Reusable(c) = {} THEN Append(versions, c) ELSE versions

(* nextPublishableState *)
Publishable == /\ axes.verification # "rejected" /\ axes.runtime # "paused"
               /\ axes.listing \notin {"delisted", "paused", "suspended"}
               /\ CanTransition("verification", "verified")
               /\ CanTransition("runtime", "live")
               /\ CanTransition("listing", "published")

Live == [verification |-> "verified", runtime |-> "live", listing |-> "published"]

(* The version is kept even when publication is withheld: the read is not
   final, no service is known, none has a fresh healthy probe, or the state
   of the agent forbids it. *)
PublishInTransaction(r) ==
  LET c == Content(run[r].doc, FALSE)
      ready == /\ read = "finalized"
               /\ \E s \in Usable : HealthyNow(probe[s])
               /\ Publishable
  IN /\ Reusable(c) = {} => Len(versions) < MaxVersions
     /\ versions' = WithVersion(c)
     /\ current' = IF ready THEN Selected(c) ELSE current
     /\ axes' = IF ready THEN Live ELSE axes
     /\ run' = IF Sink THEN [run EXCEPT ![r].pc = "category", ![r].version = Selected(c), ![r].published = ready]
               ELSE [run EXCEPT ![r] = NoRun]

(* prepareInput: a resolved document and a capability manifest. *)
Prepared(r) == run[r].doc # None /\ run[r].cap

(* noCapabilityDigestMatches *)
ManifestStored(r) == run[r].doc \in caps

(* publish: input that is not a document with a stored manifest is refused
   without a version, and then there is nothing to classify or index. *)
Publish(r) ==
  /\ run[r].pc = "publish"
  /\ IF Prepared(r) /\ ManifestStored(r)
     THEN PublishInTransaction(r)
     ELSE run' = [run EXCEPT ![r] = NoRun] /\ UNCHANGED agentVars
  /\ UNCHANGED <<chainVars, rowVars, indexVars, review, view, answered>>

(* Any failing query rolls the transaction back. *)
PublicationFails(r) ==
  /\ run[r].pc = "publish" /\ Prepared(r)
  /\ run' = [run EXCEPT ![r] = NoRun]
  /\ UNCHANGED <<chainVars, rowVars, agentVars, indexVars, review, view, answered>>

(* PgCategoryPredictionSink.save asks for the agent's newest version, then
   stores the prediction for that one; a failed write is only reported. *)
FindVersion(r) ==
  /\ run[r].pc = "category"
  /\ \/ run' = [run EXCEPT ![r].pc = "save", ![r].target = Len(versions)]
     \/ run' = [run EXCEPT ![r] = NoRun]
  /\ UNCHANGED <<chainVars, rowVars, agentVars, indexVars, review, view, answered>>

SavePrediction(r) ==
  /\ run[r].pc = "save"
  /\ predicted' = predicted \cup {<<run[r].target, run[r].doc>>}
  /\ run' = IF run[r].published /\ run[r].read THEN [run EXCEPT ![r].pc = "embed"]
            ELSE [run EXCEPT ![r] = NoRun]
  /\ UNCHANGED <<chainVars, rowVars, agentVars, vectors, review, view, answered>>

(* Only a published version of verified enrichment whose category was just
   saved gets a vector. *)
Embed(r) ==
  /\ run[r].pc = "embed"
  /\ \/ vectors' = vectors \cup {run[r].version}
     \/ UNCHANGED vectors
  /\ run' = [run EXCEPT ![r] = NoRun]
  /\ UNCHANGED <<chainVars, rowVars, agentVars, predicted, review, view, answered>>

-----------------------------------------------------------------------------
(* The seller review: the row is read and the seller probed without a lock, *)
(* the transaction compares the locked row with what was reviewed.           *)

ReviewSeller(refresh) ==
  /\ review.pc = "idle" /\ versions # <<>> /\ Stored # {}
  /\ axes.listing \notin {"delisted", "suspended"} /\ axes.verification # "rejected" /\ axes.runtime # "paused"
  /\ refresh => current = Len(versions) /\ versions[current].reviewed
  /\ LET s == CHOOSE x \in Stored : TRUE
     IN IF up[s] = "healthy"
        THEN /\ review' = [pc |-> "promote", refresh |-> refresh, axes |-> axes, current |-> current,
                           latest |-> Len(versions), at |-> now]
             /\ answered' = now /\ UNCHANGED probe
        ELSE /\ probe' = [probe EXCEPT ![s] = [at |-> now, status |-> "unhealthy"]]
             /\ UNCHANGED <<review, answered>>
  /\ read' = "finalized"
  /\ UNCHANGED <<chainVars, caps, observed, agentVars, indexVars, run, view>>

(* Mutation: the locked row is not compared with the reviewed one. *)
UnchangedSinceAlways == TRUE

UnchangedSince == axes = review.axes /\ current = review.current /\ Len(versions) = review.latest

Promote ==
  /\ review.pc = "promote"
  /\ LET s == CHOOSE x \in Stored : TRUE
         fresh == ~review.refresh /\ ~versions[review.latest].reviewed
         base == IF review.current # 0 THEN review.current ELSE review.latest
         c == [versions[review.latest] EXCEPT !.reviewed = TRUE]
     IN \/ /\ UnchangedSince
           /\ fresh => Len(versions) < MaxVersions
           /\ versions' = IF fresh THEN Append(versions, c) ELSE versions
           /\ probe' = IF probe[s] # None /\ probe[s].at > review.at THEN probe
                       ELSE [probe EXCEPT ![s] = [at |-> review.at, status |-> "healthy"]]
           /\ IF review.refresh
              THEN axes' = [axes EXCEPT !.runtime = IF @ = "unavailable" THEN "live" ELSE @] /\ UNCHANGED current
              ELSE axes' = Live /\ current' = IF fresh THEN Len(versions) + 1 ELSE base
        \/ UNCHANGED <<agentVars, probe>>
  /\ review' = NoReview
  /\ UNCHANGED <<chainVars, read, caps, observed, indexVars, run, view, answered>>

-----------------------------------------------------------------------------
(* A directory request: the identity, then its probes, then the clock; the  *)
(* search judges the listing later still.                                    *)

ReadAgent ==
  /\ Reading /\ view.pc \in {"idle", "shown"} /\ current # 0
  /\ view' = [NoView EXCEPT !.pc = "probes", !.axes = axes]
  /\ UNCHANGED <<chainVars, rowVars, agentVars, indexVars, run, review, answered>>

ReadProbes ==
  /\ view.pc = "probes"
  /\ view' = [view EXCEPT !.pc = "project", !.probe = probe]
  /\ UNCHANGED <<chainVars, rowVars, agentVars, indexVars, run, review, answered>>

NewestAt(S) == IF S = {} THEN None
               ELSE (CHOOSE s \in S : \A t \in S : view.probe[t].at <= view.probe[s].at)

(* projectionFromProbes: one fresh healthy transport keeps the listing
   healthy, and the newest of those is the observation shown. *)
Project ==
  /\ view.pc = "project"
  /\ LET known == {s \in Services : view.probe[s] # None}
         fresh == {s \in known : Fresh(view.probe[s])}
         healthy == {s \in fresh : view.probe[s].status = "healthy"}
         best == NewestAt(IF healthy # {} THEN healthy ELSE IF fresh # {} THEN fresh ELSE known)
     IN view' = [view EXCEPT !.pc = "evaluate",
                             !.status = IF healthy # {} THEN "healthy" ELSE IF fresh # {} THEN "unhealthy" ELSE "unknown",
                             !.observedAt = IF best = None THEN None ELSE view.probe[best].at]
  /\ UNCHANGED <<chainVars, rowVars, agentVars, indexVars, run, review, answered>>

(* Mutation: what was fresh when it was projected is still shown. *)
StaleNever == FALSE

Stale == view.observedAt # None /\ now - view.observedAt > MaxAge

Listable == /\ view.status = "healthy" /\ view.axes.runtime = "live"
            /\ view.axes.listing = "published"
            /\ view.axes.verification \notin {"pending", "rejected"}

(* evaluateListing *)
Evaluate ==
  /\ view.pc = "evaluate"
  /\ view' = [view EXCEPT !.pc = "shown", !.at = now, !.eligible = Listable /\ ~Stale]
  /\ UNCHANGED <<chainVars, rowVars, agentVars, indexVars, run, review, answered>>

-----------------------------------------------------------------------------
RunStep(r) == \/ ReadRegistry(r) \/ Resolve(r) \/ Probe(r) \/ Publish(r) \/ PublicationFails(r)
              \/ FindVersion(r) \/ SavePrediction(r) \/ Embed(r)

Next == \/ Tick \/ Moderate
        \/ \E s \in Services : Switch(s)
        \/ \E d \in Docs : Rewrite(d)
        \/ \E r \in Runs : RunStep(r)
        \/ \E b \in Reviews : ReviewSeller(b)
        \/ Promote
        \/ ReadAgent \/ ReadProbes \/ Project \/ Evaluate

Spec == Init /\ [][Next]_vars

-----------------------------------------------------------------------------
TypeOK == /\ current \in 0..Len(versions)
          /\ Len(versions) <= MaxVersions
          /\ axes.listing \in DOMAIN Transitions.listing

MovesForward == current' >= current

StaysDown == /\ axes.listing = "delisted" => axes'.listing = "delisted"
             /\ axes.verification = "rejected" => axes'.verification = "rejected"

(* "the observed sequence remains auditable (v1 -> v2 -> v3), rather than
   moving the pointer backwards to v1" (publication.ts
   selectOrCreateVersion): whatever document returns, and whoever publishes
   in between, the published version only moves to a later one. *)
CurrentMovesForward == [][MovesForward]_current

(* A listing that was delisted, or whose verification was rejected, is never
   published again: not by a run that started before (nextPublishableState),
   not by a review made before it was taken down (release-sync). *)
TakenDownStays == [][StaysDown]_axes

(* A card shown as available stands for an endpoint that answered at most
   MaxAge before the card was judged, however long the reads took and
   whatever probes were stored between them. *)
ShownIsFresh == view.pc = "shown" /\ view.eligible =>
                  answered # None /\ view.at <= answered + MaxAge

(* "only a category-bearing, immutable, published version may be indexed"
   (composition.ts): every version with a vector has a category of its own. *)
VectorHasCategory == \A v \in vectors : \E d \in Docs : <<v, d>> \in predicted
=============================================================================
