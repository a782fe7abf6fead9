--------------------------- MODULE Listing_proofs ---------------------------
(***************************************************************************)
(* Listing satisfies CurrentMovesForward, TakenDownStays and ShownIsFresh  *)
(* for any number of runs, documents, services and versions; DirectoryRead *)
(* satisfies AnswerIsCurrent for any number of requests, loads, agents and *)
(* changes.                                                                *)
(*                                                                         *)
(* Publication holds the agent's row, so the first two need only what a    *)
(* review remembers of the row it looked at (ReviewInv).  Freshness is     *)
(* carried through the stored probes and the reader's copies of them: a    *)
(* healthy observation is never younger than the last answer of an         *)
(* endpoint (Sound).  For the reads it is the join that counts: the slot   *)
(* holds a load under way or one that ended Ttl before the slot expires    *)
(* (SlotOk), so whoever joins it began before that (Joined), and what a    *)
(* load holds was listed after the load began (LoadOk).                    *)
(***************************************************************************)
EXTENDS Listing, DirectoryRead, SequenceTheorems, WellFoundedInduction, TLAPS

Verification == {"pending", "verified", "degraded", "rejected"}
Runtime == {"live", "unavailable", "paused"}
ListingStatus == {"draft", "published", "paused", "suspended", "delisted"}
Axes == [verification : Verification, runtime : Runtime, listing : ListingStatus]

ProbeRow == [at : Nat, status : Answers \cup {"unhealthy", "healthy"}]
Probes == [Services -> ProbeRow \cup {None}]
View == [pc : {"idle", "probes", "project", "evaluate", "shown"}, axes : Axes \cup {None},
         probe : Probes \cup {None}, status : {"healthy", "unhealthy", "unknown"},
         observedAt : Nat \cup {None}, at : Nat, eligible : BOOLEAN]

\* None is no time, no service and no probe, and a moderator moves an axis to one of its statuses.
Parameters ==
  /\ MaxAge \in Nat /\ None \notin Nat \cup Services /\ None \notin ProbeRow
  /\ Takedowns \subseteq ({"verification"} \X Verification) \cup ({"runtime"} \X Runtime)
                           \cup ({"listing"} \X ListingStatus)

\* The versions are a sequence, of whatever.
IsSequence(s) == \E V : s \in Seq(V)

TypeInv ==
  /\ now \in Nat /\ answered \in Nat \cup {None}
  /\ up \in [Services -> Answers] /\ probe \in Probes
  /\ axes \in Axes
  /\ IsSequence(versions) /\ current \in 0..Len(versions)
  /\ view \in View

\* No observation of a healthy endpoint is later than the last answer of one.
Sound(P) == \A s \in Services : P[s] # None =>
              P[s].at <= now /\ (P[s].status = "healthy" => answered # None /\ P[s].at <= answered)

\* A review in progress was made of a listing that was not taken down.
ReviewInv == review.pc = "promote" =>
               /\ review.axes.listing \notin {"delisted", "suspended"} /\ review.axes.verification # "rejected"
               /\ review.at \in Nat /\ answered # None /\ review.at <= answered

ProbeInv == (answered # None => answered <= now) /\ Sound(probe)

ViewInv ==
  /\ view.pc = "project" => view.probe \in Probes /\ Sound(view.probe)
  /\ view.pc = "evaluate" /\ view.status = "healthy" =>
       view.observedAt # None /\ answered # None /\ view.observedAt <= answered
  /\ view.pc = "shown" /\ view.eligible => answered # None /\ view.at <= answered + MaxAge

Inv == TypeInv /\ ReviewInv /\ ProbeInv /\ ViewInv

-----------------------------------------------------------------------------
LEMMA AppendSequence ==
  ASSUME NEW s, NEW c, IsSequence(s)
  PROVE  IsSequence(Append(s, c)) /\ Len(s) \in Nat /\ Len(Append(s, c)) = Len(s) + 1
  <1>1. PICK V : s \in Seq(V) BY DEF IsSequence
  <1>2. PICK W : W = V \cup {c} OBVIOUS
  <1>3. Len(s) \in Nat /\ s \in [1..Len(s) -> V] BY <1>1
  <1>4. s \in [1..Len(s) -> W] BY <1>2, <1>3
  <1>5. s \in Seq(W) BY <1>3, <1>4
  <1>. QED BY <1>2, <1>3, <1>5, AppendProperties DEF IsSequence

LEMMA MinNat ==
  ASSUME NEW T, T \subseteq Nat, T # {} PROVE \E m \in T : \A n \in T : m <= n
  <1>1. PICK m \in T : \A n \in T : ~(<<n, m>> \in OpToRel(<, Nat)) BY NatLessThanWellFounded, WFMin
  <1>2. \A n \in T : ~(n < m) BY <1>1 DEF OpToRel
  <1>. QED BY <1>2

\* Among the probes of a non-empty set of services one is the newest.
LEMMA Newest ==
  ASSUME NEW P \in Probes, NEW S, S \subseteq Services, S # {}, now \in Nat,
         \A s \in S : P[s] # None /\ P[s].at <= now
  PROVE  \E s \in S : \A t \in S : P[t].at <= P[s].at
  <1> DEFINE T == {now - P[s].at : s \in S}
  <1>1. \A s \in S : P[s].at \in Nat BY DEF Probes, ProbeRow
  <1>2. T \subseteq Nat /\ T # {} BY <1>1
  <1> HIDE DEF T
  <1>3. PICK m \in T : \A n \in T : m <= n BY <1>2, MinNat
  <1>4. PICK s \in S : m = now - P[s].at BY <1>3 DEF T
  <1>5. \A t \in S : now - P[t].at \in T BY DEF T
  <1>6. \A t \in S : now - P[s].at <= now - P[t].at BY <1>3, <1>4, <1>5
  <1>. QED BY <1>1, <1>6

-----------------------------------------------------------------------------
LEMMA InitInv == ASSUME Parameters, Init PROVE Inv
  <1>1. probe \in Probes /\ Sound(probe) BY DEF Init, Probes, Sound
  <1>2. axes \in Axes BY DEF Init, Axes, Verification, Runtime, ListingStatus
  <1>3. IsSequence(versions) /\ current \in 0..Len(versions) BY DEF Init, IsSequence
  <1>4. view \in View /\ view.pc = "idle" BY DEF Init, NoView, View
  <1>5. review.pc = "idle" BY DEF Init, NoReview
  <1>. QED BY <1>1, <1>2, <1>3, <1>4, <1>5 DEF Init, Inv, TypeInv, ReviewInv, ProbeInv, ViewInv

\* Time passes and an endpoint answers: what was observed stays sound.
Later == /\ now' \in Nat /\ now <= now' /\ answered' \in Nat \cup {None}
         /\ answered' # None => answered' <= now'
         /\ answered # None => answered' # None /\ answered <= answered'

LEMMA LaterSound ==
  ASSUME Parameters, Inv, Later, NEW P \in Probes, Sound(P)
  PROVE  \A s \in Services : P[s] # None =>
           P[s].at <= now' /\ (P[s].status = "healthy" => answered' # None /\ P[s].at <= answered')
  <1>1. \A s \in Services : P[s] # None => P[s].at \in Nat BY DEF Probes, ProbeRow
  <1>2. now \in Nat /\ answered \in Nat \cup {None} BY DEF Inv, TypeInv
  <1>. QED BY <1>1, <1>2 DEF Later, Sound, Parameters

\* The reader rests while time passes.
LEMMA LaterView ==
  ASSUME Parameters, Inv, Later, UNCHANGED view PROVE ViewInv'
  <1>0. now \in Nat /\ answered \in Nat \cup {None} /\ view \in View BY DEF Inv, TypeInv
  <1>2. PICK v : v = view OBVIOUS
  <1>3. v.pc = "project" => v.probe \in Probes /\ Sound(v.probe)' BY <1>2, LaterSound DEF Inv, ViewInv, Sound
  <1>4. v.at \in Nat /\ v.observedAt \in Nat \cup {None} BY <1>0, <1>2 DEF View
  <1>5. /\ v.pc = "evaluate" /\ v.status = "healthy" =>
             v.observedAt # None /\ answered' # None /\ v.observedAt <= answered'
        /\ v.pc = "shown" /\ v.eligible => answered' # None /\ v.at <= answered' + MaxAge
    BY <1>0, <1>2, <1>4 DEF Inv, ViewInv, Later, Parameters
  <1>6. view' = v BY <1>2
  <1>. QED BY <1>3, <1>5, <1>6 DEF ViewInv, Sound

\* A step after which the review and the reader are where they were.
LEMMA RestInv ==
  ASSUME Parameters, Inv, Later, UNCHANGED <<review, view>> PROVE ReviewInv' /\ ViewInv'
  <1>0. now \in Nat /\ answered \in Nat \cup {None} BY DEF Inv, TypeInv
  <1>1. ReviewInv' BY <1>0 DEF Inv, ReviewInv, Later, Parameters
  <1>. QED BY <1>1, LaterView

LEMMA NowLater == ASSUME Inv, UNCHANGED <<now, answered>> PROVE Later
  BY DEF Inv, TypeInv, ProbeInv, Later

\* A step of a run or of the world that leaves the agent's rows alone.
LEMMA QuietInv ==
  ASSUME Parameters, Inv, UNCHANGED <<now, answered, probe, review, view>>,
         up' \in [Services -> Answers], axes' \in Axes, IsSequence(versions'), current' \in 0..Len(versions')
  PROVE  Inv'
  <1>1. ReviewInv' /\ ViewInv' BY NowLater, RestInv
  <1>2. ProbeInv' BY DEF Inv, ProbeInv, Sound
  <1>3. TypeInv' BY DEF Inv, TypeInv
  <1>. QED BY <1>1, <1>2, <1>3 DEF Inv

LEMMA TickInv == ASSUME Parameters, Inv, Tick PROVE Inv'
  <1>0. /\ now \in Nat /\ now' = now + 1
        /\ UNCHANGED <<up, probe, axes, versions, current, review, view, answered>>
    BY DEF Inv, TypeInv, Tick, rowVars, agentVars
  <1>1. Later BY <1>0 DEF Inv, TypeInv, ProbeInv, Later
  <1>2. ReviewInv' /\ ViewInv' BY <1>0, <1>1, RestInv
  <1>3. ProbeInv'
    <2>1. Sound(probe)' BY <1>0, <1>1, LaterSound DEF Inv, TypeInv, ProbeInv, Sound
    <2>. QED BY <1>1, <2>1 DEF ProbeInv, Later
  <1>4. TypeInv' BY <1>0 DEF Inv, TypeInv, IsSequence
  <1>. QED BY <1>2, <1>3, <1>4 DEF Inv

LEMMA ModerateType ==
  ASSUME Parameters, Inv, Moderate PROVE axes' \in Axes /\ StaysDown
  <1>1. PICK ch \in Takedowns : CanTransition(ch[1], ch[2]) /\ axes' = [axes EXCEPT ![ch[1]] = ch[2]]
    BY DEF Moderate
  <1>2. axes \in Axes BY DEF Inv, TypeInv
  <1>3. CASE ch[1] = "verification" /\ ch[2] \in Verification
    <2>1. axes' = [axes EXCEPT !.verification = ch[2]] BY <1>1, <1>3
    <2>2. axes' \in Axes /\ axes'.listing = axes.listing /\ axes'.verification = ch[2] BY <1>2, <1>3, <2>1 DEF Axes
    <2>3. axes.verification = "rejected" => ch[2] = "rejected"
      BY <1>1, <1>3 DEF CanTransition, Transitions
    <2>. QED BY <2>2, <2>3 DEF StaysDown
  <1>4. CASE ch[1] = "runtime" /\ ch[2] \in Runtime
    <2>1. axes' = [axes EXCEPT !.runtime = ch[2]] BY <1>1, <1>4
    <2>. QED BY <1>2, <1>4, <2>1 DEF Axes, StaysDown
  <1>5. CASE ch[1] = "listing" /\ ch[2] \in ListingStatus
    <2>1. axes' = [axes EXCEPT !.listing = ch[2]] BY <1>1, <1>5
    <2>2. axes' \in Axes /\ axes'.listing = ch[2] /\ axes'.verification = axes.verification BY <1>2, <1>5, <2>1 DEF Axes
    <2>3. axes.listing = "delisted" => ch[2] = "delisted"
      BY <1>1, <1>5 DEF CanTransition, Transitions
    <2>. QED BY <2>2, <2>3 DEF StaysDown
  <1>. QED BY <1>3, <1>4, <1>5 DEF Parameters

LEMMA ModerateInv == ASSUME Parameters, Inv, Moderate PROVE Inv'
  <1>1. axes' \in Axes BY ModerateType
  <1>2. UNCHANGED <<now, up, probe, versions, current, review, view, answered>>
    BY DEF Moderate, chainVars, rowVars
  <1>. QED BY <1>1, <1>2, QuietInv DEF Inv, TypeInv

\* A step that stores observations of now, or of the last answer of an endpoint.
LEMMA StoreInv ==
  ASSUME Parameters, Inv, Later, now' = now, UNCHANGED <<up, axes, versions, current, view, review>>,
         probe' \in Probes, Sound(probe)'
  PROVE  Inv'
  <1>1. ReviewInv' /\ ViewInv' BY RestInv
  <1>2. ProbeInv' BY DEF ProbeInv, Later
  <1>3. TypeInv' BY DEF Inv, TypeInv, IsSequence, Later
  <1>. QED BY <1>1, <1>2, <1>3 DEF Inv

LEMMA ProbeManyLater ==
  ASSUME Parameters, Inv, NEW S, ProbeMany(S), now' = now
  PROVE  Later /\ probe' \in Probes /\ Sound(probe)'
  <1>1. /\ probe' = [s \in Services |-> IF s \in S THEN [at |-> now, status |-> up[s]] ELSE probe[s]]
        /\ answered' = IF \E s \in S : up[s] = "healthy" THEN now ELSE answered
    BY DEF ProbeMany
  <1>2. now \in Nat /\ up \in [Services -> Answers] /\ probe \in Probes /\ answered \in Nat \cup {None}
    BY DEF Inv, TypeInv
  <1>3. Later BY <1>1, <1>2 DEF Inv, ProbeInv, Later, Parameters
  <1>4. \A s \in Services : [at |-> now, status |-> up[s]] \in ProbeRow BY <1>2 DEF ProbeRow
  <1>5. probe' \in Probes BY <1>1, <1>2, <1>4 DEF Probes
  <1>6. ASSUME NEW s \in Services, probe'[s] # None
        PROVE  probe'[s].at <= now' /\ (probe'[s].status = "healthy" => answered' # None /\ probe'[s].at <= answered')
    <2>1. CASE s \in S
      <3>1. probe'[s] = [at |-> now, status |-> up[s]] BY <1>1, <2>1
      <3>2. up[s] = "healthy" => answered' = now BY <1>1, <2>1
      <3>. QED BY <1>2, <3>1, <3>2 DEF Parameters
    <2>2. CASE s \notin S
      <3>1. probe'[s] = probe[s] BY <1>1, <2>2
      <3>. QED BY <1>3, <1>2, <1>6, <3>1, LaterSound DEF Inv, ProbeInv
    <2>. QED BY <2>1, <2>2
  <1>7. Sound(probe)' BY <1>6 DEF Sound
  <1>. QED BY <1>3, <1>5, <1>7

LEMMA ProbeStepInv == ASSUME Parameters, Inv, NEW r \in Runs, Probe(r) PROVE Inv'
  <1>1. /\ ProbeMany(run[r].services) /\ now' = now /\ UNCHANGED <<up, axes, versions, current, view, review>>
    BY DEF Probe, chainVars, agentVars
  <1>. QED BY <1>1, ProbeManyLater, StoreInv

\* The version publication selects is never before the current one.
LEMMA SelectedFacts ==
  ASSUME Inv, NEW c
  PROVE  /\ IsSequence(WithVersion(c))
         /\ Selected(c) \in Nat /\ current <= Selected(c) /\ Selected(c) <= Len(WithVersion(c))
         /\ current <= Len(WithVersion(c))
  <1>1. IsSequence(versions) /\ current \in 0..Len(versions) BY DEF Inv, TypeInv
  <1>2. PICK n : n = Len(versions) OBVIOUS
  <1>3. n \in Nat /\ IsSequence(Append(versions, c)) /\ Len(Append(versions, c)) = n + 1
    BY <1>1, <1>2, AppendSequence
  <1>4. DOMAIN versions = 1..n BY <1>1, <1>2 DEF IsSequence
  <1>5. PICK R : R = Reusable(c) OBVIOUS
  <1>6. \A v \in R : v \in 1..n /\ (v = current \/ v > current) BY <1>2, <1>4, <1>5 DEF Reusable
  <1>7. CASE R = {}
    <2>1. WithVersion(c) = Append(versions, c) /\ Selected(c) = n + 1
      BY <1>2, <1>5, <1>7 DEF WithVersion, Selected
    <2>. QED BY <1>1, <1>2, <1>3, <2>1
  <1>8. CASE R # {}
    <2>1. WithVersion(c) = versions BY <1>5, <1>8 DEF WithVersion
    <2>2. R \subseteq Nat BY <1>3, <1>6
    <2>3. PICK m \in R : \A v \in R : m <= v BY <1>8, <2>2, MinNat
    <2>4. Oldest(R) \in R BY <2>3 DEF Oldest
    <2>5. Selected(c) \in R BY <1>5, <1>8, <2>4 DEF Selected
    <2>. QED BY <1>1, <1>2, <1>3, <1>6, <2>1, <2>5
  <1>. QED BY <1>7, <1>8

LEMMA PublishFacts ==
  ASSUME Inv, NEW r \in Runs, Publish(r)
  PROVE  /\ UNCHANGED <<now, answered, up, probe, view, review>>
         /\ axes' \in Axes /\ IsSequence(versions') /\ current' \in 0..Len(versions')
         /\ MovesForward /\ StaysDown
  <1>0. axes \in Axes /\ IsSequence(versions) /\ current \in 0..Len(versions) BY DEF Inv, TypeInv
  <1>1. UNCHANGED <<now, answered, up, probe, view, review>> BY DEF Publish, chainVars, rowVars
  <1>2. CASE UNCHANGED agentVars BY <1>0, <1>1, <1>2 DEF agentVars, MovesForward, StaysDown, IsSequence
  <1>3. CASE PublishInTransaction(r)
    <2>1. PICK c : c = Content(run[r].doc, FALSE) OBVIOUS
    <2>2. /\ versions' = WithVersion(c)
          /\ current' = Selected(c) \/ current' = current
          /\ axes' = axes \/ (axes' = Live /\ Publishable)
      BY <1>3, <2>1 DEF PublishInTransaction
    <2>3. IsSequence(versions') /\ current' \in 0..Len(versions') /\ MovesForward
      <3>1. PICK w : w = WithVersion(c) OBVIOUS
      <3>2. /\ IsSequence(w) /\ Selected(c) \in Nat /\ current <= Selected(c) /\ Selected(c) <= Len(w)
            /\ current <= Len(w)
        BY <3>1, SelectedFacts
      <3>3. Len(w) \in Nat /\ Len(versions) \in Nat BY <1>0, <3>2, AppendSequence
      <3>. QED BY <1>0, <2>2, <3>1, <3>2, <3>3 DEF MovesForward
    <2>4. axes' \in Axes /\ StaysDown
      BY <1>0, <2>2 DEF Live, Axes, Verification, Runtime, ListingStatus, StaysDown, Publishable
    <2>. QED BY <1>1, <2>3, <2>4
  <1>. QED BY <1>2, <1>3 DEF Publish

LEMMA PublishInv == ASSUME Parameters, Inv, NEW r \in Runs, Publish(r) PROVE Inv'
  BY PublishFacts, QuietInv DEF Inv, TypeInv

-----------------------------------------------------------------------------
LEMMA ReviewSellerInv ==
  ASSUME Parameters, Inv, NEW b \in Reviews, ReviewSeller(b) PROVE Inv'
  <1>0. PICK s : s = CHOOSE x \in Stored : TRUE OBVIOUS
  <1>1. s \in Services BY <1>0 DEF ReviewSeller, Stored
  <1>2. UNCHANGED <<now, up, axes, versions, current, view>> BY DEF ReviewSeller, chainVars, agentVars
  <1>3. now \in Nat /\ up \in [Services -> Answers] /\ probe \in Probes /\ answered \in Nat \cup {None}
    BY DEF Inv, TypeInv
  <1>4. CASE up[s] = "healthy"
    <2>1. /\ review' = [pc |-> "promote", refresh |-> b, axes |-> axes, current |-> current,
                        latest |-> Len(versions), at |-> now]
          /\ answered' = now /\ UNCHANGED probe
      BY <1>0, <1>4 DEF ReviewSeller
    <2>2. axes.listing \notin {"delisted", "suspended"} /\ axes.verification # "rejected" BY DEF ReviewSeller
    <2>3. Later BY <1>2, <1>3, <2>1 DEF Inv, ProbeInv, Later, Parameters
    <2>4. ReviewInv' BY <1>2, <1>3, <2>1, <2>2 DEF ReviewInv, Parameters
    <2>5. ProbeInv'
      <3>1. Sound(probe)' BY <2>1, <2>3, <1>3, LaterSound DEF Inv, ProbeInv, Sound
      <3>. QED BY <2>3, <3>1 DEF ProbeInv, Later
    <2>6. ViewInv' BY <1>2, <2>3, LaterView
    <2>7. TypeInv' BY <1>2, <1>3, <2>1 DEF Inv, TypeInv, IsSequence
    <2>. QED BY <2>4, <2>5, <2>6, <2>7 DEF Inv
  <1>5. CASE up[s] # "healthy"
    <2>1. probe' = [probe EXCEPT ![s] = [at |-> now, status |-> "unhealthy"]] /\ UNCHANGED <<review, answered>>
      BY <1>0, <1>5 DEF ReviewSeller
    <2>2. [at |-> now, status |-> "unhealthy"] \in ProbeRow BY <1>3 DEF ProbeRow
    <2>3. probe' \in Probes /\ Sound(probe)'
      BY <1>1, <1>2, <1>3, <2>1, <2>2 DEF Probes, Sound, Inv, ProbeInv
    <2>. QED BY <1>2, <2>1, <2>3, NowLater, StoreInv
  <1>. QED BY <1>4, <1>5

LEMMA PromoteFacts ==
  ASSUME Inv, Promote
  PROVE  /\ UNCHANGED <<now, answered, up, view>> /\ review' = NoReview
         /\ axes' \in Axes /\ IsSequence(versions') /\ current' \in 0..Len(versions')
         /\ MovesForward /\ StaysDown
  <1>0. axes \in Axes /\ IsSequence(versions) /\ current \in 0..Len(versions) BY DEF Inv, TypeInv
  <1>1. UNCHANGED <<now, answered, up, view>> /\ review' = NoReview BY DEF Promote, chainVars
  <1>2. PICK n : n = Len(versions) OBVIOUS
  <1>3. n \in Nat BY <1>0, <1>2, AppendSequence
  <1>4. CASE UNCHANGED agentVars BY <1>0, <1>1, <1>4 DEF agentVars, MovesForward, StaysDown, IsSequence
  <1>5. CASE ~UNCHANGED agentVars
    <2> DEFINE fresh == ~review.refresh /\ ~versions[review.latest].reviewed
               c == [versions[review.latest] EXCEPT !.reviewed = TRUE]
               base == IF review.current # 0 THEN review.current ELSE review.latest
    <2>1. /\ axes = review.axes /\ current = review.current /\ n = review.latest
          /\ versions' = IF fresh THEN Append(versions, c) ELSE versions
          /\ IF review.refresh
             THEN axes' = [axes EXCEPT !.runtime = IF @ = "unavailable" THEN "live" ELSE @] /\ UNCHANGED current
             ELSE axes' = Live /\ current' = IF fresh THEN n + 1 ELSE base
      BY <1>2, <1>5 DEF Promote, UnchangedSince
    <2>2. review.axes.listing \notin {"delisted", "suspended"} /\ review.axes.verification # "rejected"
      BY DEF Promote, Inv, ReviewInv
    <2>3. axes' \in Axes
      BY <1>0, <2>1 DEF Live, Axes, Verification, Runtime, ListingStatus
    <2>4. StaysDown BY <2>1, <2>2 DEF StaysDown
    <2> HIDE DEF c
    <2>5. IsSequence(versions') /\ Len(versions') = IF fresh THEN n + 1 ELSE n
      BY <1>0, <1>2, <2>1, AppendSequence
    <2>6. current' \in 0..Len(versions') /\ MovesForward
      BY <1>0, <1>2, <1>3, <2>1, <2>5 DEF MovesForward
    <2>. QED BY <1>1, <2>3, <2>4, <2>5, <2>6
  <1>. QED BY <1>4, <1>5

LEMMA PromoteInv == ASSUME Parameters, Inv, Promote PROVE Inv'
  <1>0. PICK s : s = CHOOSE x \in Stored : TRUE OBVIOUS
  <1>1. now \in Nat /\ up \in [Services -> Answers] /\ probe \in Probes /\ answered \in Nat \cup {None}
    BY DEF Inv, TypeInv
  <1>2. review.at \in Nat /\ answered # None /\ review.at <= answered /\ answered <= now
    BY DEF Promote, Inv, ReviewInv, ProbeInv
  <1>3. PICK row : row = [at |-> review.at, status |-> "healthy"] OBVIOUS
  <1>4. probe' = probe \/ probe' = [probe EXCEPT ![s] = row] BY <1>0, <1>3 DEF Promote
  <1>5. row \in ProbeRow /\ row.at <= now /\ row.at <= answered BY <1>1, <1>2, <1>3 DEF ProbeRow, Parameters
  <1>6. probe' \in Probes /\ Sound(probe)'
    <2>1. UNCHANGED <<now, answered>> BY PromoteFacts
    <2>2. probe' \in Probes BY <1>1, <1>4, <1>5 DEF Probes
    <2>3. \A x \in Services : probe'[x] = probe[x] \/ probe'[x] = row BY <1>1, <1>4 DEF Probes
    <2>. QED BY <1>2, <1>5, <2>1, <2>2, <2>3 DEF Sound, Inv, ProbeInv
  <1>7. /\ UNCHANGED <<now, answered, up, view>> /\ review' = NoReview
        /\ axes' \in Axes /\ IsSequence(versions') /\ current' \in 0..Len(versions')
    BY PromoteFacts
  <1>8. ReviewInv' BY <1>7 DEF ReviewInv, NoReview
  <1>9. ViewInv' BY <1>7, NowLater, LaterView
  <1>10. ProbeInv' BY <1>6, <1>7 DEF Inv, ProbeInv
  <1>11. TypeInv' BY <1>6, <1>7 DEF Inv, TypeInv
  <1>. QED BY <1>8, <1>9, <1>10, <1>11 DEF Inv

-----------------------------------------------------------------------------
(* The reader. *)

LEMMA ReaderInv ==
  ASSUME Inv, UNCHANGED <<now, answered, up, probe, axes, versions, current, review>>, view' \in View, ViewInv'
  PROVE  Inv'
  BY DEF Inv, TypeInv, ReviewInv, ProbeInv, Sound, IsSequence

LEMMA ReadAgentInv == ASSUME Parameters, Inv, ReadAgent PROVE Inv'
  <1>1. UNCHANGED <<now, answered, up, probe, axes, versions, current, review>>
    BY DEF ReadAgent, chainVars, rowVars, agentVars
  <1>2. view' = [NoView EXCEPT !.pc = "probes", !.axes = axes] BY DEF ReadAgent
  <1>3. view' \in View /\ view'.pc = "probes" BY <1>2 DEF NoView, View, Inv, TypeInv
  <1>4. ViewInv' BY <1>3 DEF ViewInv
  <1>. QED BY <1>1, <1>3, <1>4, ReaderInv

LEMMA ReadProbesInv == ASSUME Parameters, Inv, ReadProbes PROVE Inv'
  <1>1. UNCHANGED <<now, answered, up, probe, axes, versions, current, review>>
    BY DEF ReadProbes, chainVars, rowVars, agentVars
  <1>2. view' = [view EXCEPT !.pc = "project", !.probe = probe] BY DEF ReadProbes
  <1>3. view' \in View /\ view'.pc = "project" /\ view'.probe = probe BY <1>2 DEF View, Inv, TypeInv
  <1>6. PICK P : P = probe OBVIOUS
  <1>4. P \in Probes /\ Sound(P)' BY <1>1, <1>6 DEF Sound, Inv, TypeInv, ProbeInv
  <1>5. ViewInv' BY <1>6, <1>3, <1>4 DEF ViewInv, Sound
  <1>. QED BY <1>1, <1>3, <1>5, ReaderInv

LEMMA ProjectInv == ASSUME Parameters, Inv, Project PROVE Inv'
  <1>1. UNCHANGED <<now, answered, up, probe, axes, versions, current, review>>
    BY DEF Project, chainVars, rowVars, agentVars
  <1>2. PICK v : v = view OBVIOUS
  <1>3. PICK P : P = v.probe OBVIOUS
  <1>4. v \in View /\ v.pc = "project" /\ P \in Probes /\ Sound(P) /\ now \in Nat /\ answered \in Nat \cup {None}
    BY <1>2, <1>3 DEF Project, Inv, TypeInv, ViewInv
  <1> DEFINE known == {s \in Services : P[s] # None}
             fresh == {s \in known : Fresh(P[s])}
             healthy == {s \in fresh : P[s].status = "healthy"}
             pool == IF healthy # {} THEN healthy ELSE IF fresh # {} THEN fresh ELSE known
             best == NewestAt(pool)
             status == IF healthy # {} THEN "healthy" ELSE IF fresh # {} THEN "unhealthy" ELSE "unknown"
             seen == IF best = None THEN None ELSE P[best].at
  <1>5. view' = [v EXCEPT !.pc = "evaluate", !.status = status, !.observedAt = seen]
    BY <1>2, <1>3 DEF Project
  <1>6. \A s \in known : P[s] \in ProbeRow /\ P[s].at \in Nat /\ P[s].at <= now BY <1>4 DEF Probes, ProbeRow, Sound
  <1>7. pool \subseteq known OBVIOUS
  <1>8. best = None \/ best \in pool
    <2>1. CASE pool = {} BY <2>1 DEF NewestAt
    <2>2. CASE pool # {}
      <3>1. \E s \in pool : \A t \in pool : P[t].at <= P[s].at BY <1>4, <1>6, <1>7, <2>2, Newest
      <3>2. best = CHOOSE s \in pool : \A t \in pool : P[t].at <= P[s].at BY <1>2, <1>3, <2>2 DEF NewestAt
      <3> HIDE DEF pool, best
      <3>. QED BY <3>1, <3>2
    <2>. QED BY <2>1, <2>2
  <1>9. seen \in Nat \cup {None} BY <1>6, <1>7, <1>8
  <1>10. status = "healthy" => seen # None /\ answered # None /\ seen <= answered
    <2> SUFFICES ASSUME healthy # {} PROVE seen # None /\ answered # None /\ seen <= answered OBVIOUS
    <2>1. best \in healthy
      <3>1. pool = healthy OBVIOUS
      <3>2. \E s \in healthy : \A t \in healthy : P[t].at <= P[s].at BY <1>4, <1>6, Newest
      <3>3. best = CHOOSE s \in healthy : \A t \in healthy : P[t].at <= P[s].at BY <1>2, <1>3, <3>1 DEF NewestAt
      <3> HIDE DEF healthy, best
      <3>. QED BY <3>2, <3>3
    <2>2. P[best].at \in Nat /\ answered # None /\ P[best].at <= answered BY <1>4, <1>6, <2>1 DEF Sound
    <2>3. best # None
      BY <2>1 DEF Parameters
    <2>. QED BY <2>2, <2>3 DEF Parameters
  <1>11. status \in {"healthy", "unhealthy", "unknown"} OBVIOUS
  <1> HIDE DEF status, seen
  <1>12. view' \in View /\ view'.pc = "evaluate" /\ view'.status = status /\ view'.observedAt = seen
    BY <1>4, <1>5, <1>9, <1>11 DEF View
  <1>13. ViewInv' BY <1>1, <1>10, <1>12 DEF ViewInv
  <1>. QED BY <1>1, <1>12, <1>13, ReaderInv

LEMMA EvaluateInv == ASSUME Parameters, Inv, Evaluate PROVE Inv'
  <1>1. UNCHANGED <<now, answered, up, probe, axes, versions, current, review>>
    BY DEF Evaluate, chainVars, rowVars, agentVars
  <1>2. PICK v : v = view OBVIOUS
  <1>3. /\ v \in View /\ now \in Nat /\ answered \in Nat \cup {None}
        /\ v.status = "healthy" => v.observedAt # None /\ answered # None /\ v.observedAt <= answered
    BY <1>2 DEF Evaluate, Inv, TypeInv, ViewInv
  <1> DEFINE yes == Listable /\ ~Stale
  <1>4. yes \in BOOLEAN /\ view' = [v EXCEPT !.pc = "shown", !.at = now, !.eligible = yes]
    BY <1>2 DEF Evaluate
  <1>5. yes => v.status = "healthy" /\ ~(v.observedAt # None /\ now - v.observedAt > MaxAge)
    BY <1>2 DEF Listable, Stale
  <1> HIDE DEF yes
  <1>6. view' \in View /\ view'.pc = "shown" /\ view'.at = now /\ view'.eligible = yes BY <1>3, <1>4 DEF View
  <1>7. yes => answered # None /\ now <= answered + MaxAge
    <2> SUFFICES ASSUME yes PROVE answered # None /\ now <= answered + MaxAge OBVIOUS
    <2>1. PICK o : o = v.observedAt OBVIOUS
    <2>2. o \in Nat \cup {None} BY <1>3, <2>1 DEF View
    <2>3. o # None /\ answered # None /\ o <= answered /\ ~(now - o > MaxAge) BY <1>3, <1>5, <2>1
    <2>. QED BY <1>3, <2>2, <2>3 DEF Parameters
  <1>8. ViewInv' BY <1>1, <1>6, <1>7 DEF ViewInv
  <1>. QED BY <1>1, <1>6, <1>8, ReaderInv

-----------------------------------------------------------------------------
\* A step of a run that neither publishes nor probes.
LEMMA RunInv == ASSUME Parameters, Inv, NEW r \in Runs, RunStep(r) PROVE Inv' /\ MovesForward /\ StaysDown
  <1>1. CASE ReadRegistry(r) \/ Resolve(r) \/ PublicationFails(r) \/ FindVersion(r) \/ SavePrediction(r) \/ Embed(r)
    <2>1. UNCHANGED <<now, answered, up, probe, view, review, axes, versions, current>>
      BY <1>1 DEF ReadRegistry, Resolve, PublicationFails, FindVersion, SavePrediction, Embed,
                  chainVars, rowVars, agentVars, indexVars
    <2>. QED BY <2>1, QuietInv DEF Inv, TypeInv, MovesForward, StaysDown
  <1>2. CASE Probe(r)
    <2>1. UNCHANGED <<axes, current>> BY <1>2 DEF Probe, agentVars
    <2>. QED BY <1>2, <2>1, ProbeStepInv DEF Inv, TypeInv, MovesForward, StaysDown
  <1>3. CASE Publish(r) BY <1>3, PublishInv, PublishFacts
  <1>. QED BY <1>1, <1>2, <1>3 DEF RunStep

LEMMA NextInv == ASSUME Parameters, Inv, [Next]_vars PROVE Inv' /\ MovesForward /\ StaysDown
  <1>0. current \in Nat BY DEF Inv, TypeInv
  <1>1. CASE UNCHANGED <<now, answered, up, probe, view, review, axes, versions, current>>
    BY <1>0, <1>1, QuietInv DEF Inv, TypeInv, MovesForward, StaysDown
  <1>2. CASE UNCHANGED vars BY <1>1, <1>2 DEF vars, chainVars, rowVars, agentVars
  <1>3. CASE \E d \in Docs : Rewrite(d) BY <1>1, <1>3 DEF Rewrite, rowVars, agentVars
  <1>4. ASSUME NEW s \in Services, Switch(s) PROVE Inv' /\ MovesForward /\ StaysDown
    <2>1. UNCHANGED <<now, answered, probe, view, review, axes, versions, current>>
      BY <1>4 DEF Switch, rowVars, agentVars
    <2>2. up' \in [Services -> Answers] BY <1>4 DEF Switch, Inv, TypeInv
    <2>. QED BY <1>0, <2>1, <2>2, QuietInv DEF Inv, TypeInv, MovesForward, StaysDown
  <1>5. CASE Tick
    <2>1. UNCHANGED <<axes, current>> BY <1>5 DEF Tick, agentVars
    <2>. QED BY <1>0, <1>5, <2>1, TickInv DEF MovesForward, StaysDown
  <1>6. CASE Moderate
    <2>1. UNCHANGED current BY <1>6 DEF Moderate
    <2>. QED BY <1>0, <1>6, <2>1, ModerateInv, ModerateType DEF MovesForward
  <1>7. ASSUME NEW b \in Reviews, ReviewSeller(b) PROVE Inv' /\ MovesForward /\ StaysDown
    <2>1. UNCHANGED <<axes, current>> BY <1>7 DEF ReviewSeller, agentVars
    <2>. QED BY <1>0, <1>7, <2>1, ReviewSellerInv DEF MovesForward, StaysDown
  <1>8. CASE Promote BY <1>8, PromoteInv, PromoteFacts
  <1>9. CASE ReadAgent \/ ReadProbes \/ Project \/ Evaluate
    <2>1. UNCHANGED <<axes, current>> BY <1>9 DEF ReadAgent, ReadProbes, Project, Evaluate, agentVars
    <2>. QED BY <1>0, <1>9, <2>1, ReadAgentInv, ReadProbesInv, ProjectInv, EvaluateInv DEF MovesForward, StaysDown
  <1>. QED BY <1>2, <1>3, <1>4, <1>5, <1>6, <1>7, <1>8, <1>9, RunInv DEF Next

\* Whatever document returns, however many runs and reviews publish in between, the
\* published version only moves to a later one (selectOrCreateVersion).
THEOREM PublicationMovesForward == ASSUME Parameters PROVE Spec => CurrentMovesForward
  <1>1. Inv /\ [Next]_vars => Inv' /\ [MovesForward]_current BY NextInv
  <1>. QED BY <1>1, InitInv, PTL DEF Spec, CurrentMovesForward

\* No run that began earlier and no review made earlier publishes a listing that was
\* delisted or whose verification was rejected (nextPublishableState, release-sync).
THEOREM TakenDownStaysDown == ASSUME Parameters PROVE Spec => TakenDownStays
  <1>1. Inv /\ [Next]_vars => Inv' /\ [StaysDown]_axes BY NextInv
  <1>. QED BY <1>1, InitInv, PTL DEF Spec, TakenDownStays

\* A card shown as available is backed by an answer at most MaxAge older than its
\* judgement, for reads of any length and any stored probes between them
\* (projectionFromProbes, evaluateListing).
THEOREM ShownCardsAreFresh == ASSUME Parameters PROVE Spec => []ShownIsFresh
  <1>1. Inv /\ [Next]_vars => Inv' BY NextInv
  <1>2. Inv => ShownIsFresh BY DEF Inv, ViewInv, ShownIsFresh
  <1>. QED BY <1>1, <1>2, InitInv, PTL DEF Spec

-----------------------------------------------------------------------------
(* The reads of the directory.                                               *)

\* Nothing is no time, a load lives for a while, and a request names what it asks for.
ReadParameters ==
  /\ Nothing \notin Nat /\ Ttl \in Nat \ {0}
  /\ \A ask \in Asks : ask.kind \in {"search", "agent", "home"} /\ (ask.kind = "agent" => ask.agent \in Agents)

\* Whether something that ended at t, if ever, had not ended before b.
Lasted(t, b) == t = Nothing \/ t >= b

\* An agent is listed exactly while it has not been taken down.
Kept(rs, g) ==
  /\ DOMAIN rs = Agents /\ DOMAIN g = Agents
  /\ \A a \in Agents : /\ "listing" \in DOMAIN rs[a]
                       /\ \/ rs[a].listing = "published" /\ g[a] = Nothing
                          \/ rs[a].listing \in {"suspended", "delisted"} /\ g[a] \in Nat

\* Who is in a load, other than by the reference's own read, was listed after it began.
LoadOk(ld, c, g) ==
  /\ DOMAIN ld = {"ids", "commerce", "pc", "found", "cards", "began", "ended"}
  /\ ld.began \in Nat /\ ld.began <= c /\ ld.ids \subseteq Agents
  /\ \/ ld.pc \in {"query", "project", "reference"} /\ ld.ended = Nothing
     \/ ld.pc \in {"done", "failed"} /\ ld.ended \in Nat /\ ld.ended <= c
  /\ \A a \in DOMAIN ld.found \cup (DOMAIN ld.cards \ {Reference}) : a \in Agents /\ Lasted(g[a], ld.began)

\* The slot is that of a load under way, or of one that succeeded Ttl before it expires.
SlotOk(k, lds) ==
  k # Nothing =>
    /\ DOMAIN k = {"key", "expiresAt", "load"} /\ k.load \in Nat \ {0} /\ k.load \in DOMAIN lds
    /\ k.key = [ids |-> lds[k.load].ids, commerce |-> lds[k.load].commerce]
    /\ lds[k.load].pc # "failed"
    /\ lds[k.load].ended = Nothing \/ k.expiresAt = lds[k.load].ended + Ttl

\* A reader joined a load for its own selection before the load was too old for it.
Joined(r, lds) ==
  /\ r.load \in DOMAIN lds
  /\ lds[r.load].ids = r.ids /\ lds[r.load].commerce = Commerce(r.ask)
  /\ lds[r.load].ended # Nothing => r.start < lds[r.load].ended + Ttl
  /\ lds[r.load].pc = "failed" => lds[r.load].ended >= r.start

\* What the directory answered is in the load, the reference only with a slot left since.
FromLoad(r, lds, u) ==
  /\ r.load # 0 /\ lds[r.load].ended # Nothing
  /\ r.answer.shown \subseteq DOMAIN lds[r.load].cards
  /\ Reference \in r.answer.hireable => Lasted(u, r.start)

\* Fixtures are labelled, and the answer of neither a production nor a live process.
Labelled(r, s) ==
  /\ ~s.production /\ r.answer.mode \in {"fixture", "degraded"}
  /\ DataMode = "live" => r.ask.preview # Nothing

ReaderOk(r, lds, c, u) ==
  /\ DOMAIN r = {"pc", "ask", "start", "ids", "load", "cards", "answer"}
  /\ r.start \in Nat /\ r.start <= c /\ r.load \in Nat
  /\ r.pc # "idle" => r.ask \in Asks
  /\ r.pc = "await" => r.load # 0
  /\ r.load # 0 => Joined(r, lds)
  /\ r.pc = "answered" /\ r.answer.source = "directory" => FromLoad(r, lds, u)
  /\ r.pc = "answered" /\ r.answer.source = "fixture" => Labelled(r, site)

ReadInv ==
  /\ clock \in Nat /\ unready \in Nat \cup {Nothing} /\ (Ready => unready = Nothing)
  /\ Kept(rows, gone)
  /\ IsSequence(loads) /\ \A l \in DOMAIN loads : LoadOk(loads[l], clock, gone)
  /\ SlotOk(cache, loads)
  /\ DOMAIN reader = Readers /\ \A p \in Readers : ReaderOk(reader[p], loads, clock, unready)

LEMMA ReadInitInv == ASSUME ReadParameters, ReadInit PROVE ReadInv
  <1>1. clock = 0 /\ unready = Nothing /\ IsSequence(loads) /\ DOMAIN loads = {} BY DEF ReadInit, IsSequence
  <1>2. Kept(rows, gone) BY DEF ReadInit, Kept, FirstRow
  <1>3. SlotOk(cache, loads) BY DEF ReadInit, SlotOk
  <1>4. DOMAIN reader = Readers /\ \A p \in Readers : reader[p] = Idle BY DEF ReadInit
  <1>5. ReaderOk(Idle, loads, 0, unready) BY <1>1 DEF ReaderOk, Idle
  <1>. QED BY <1>1, <1>2, <1>3, <1>4, <1>5 DEF ReadInv

\* The database changes, or time passes.
WorldStep ==
  /\ clock' \in Nat /\ clock <= clock' /\ Kept(rows', gone')
  /\ \A a \in Agents : gone'[a] \in {gone[a], Nothing, clock}
  /\ unready' \in {unready, Nothing, clock} /\ (Ready' => unready' = Nothing)
  /\ UNCHANGED <<site, cache, loads, reader>>

LEMMA WorldInv == ASSUME ReadParameters, ReadInv, WorldStep PROVE ReadInv'
  <1>1. clock' \in Nat /\ unready' \in Nat \cup {Nothing} BY DEF ReadInv, WorldStep
  <1>2. ASSUME NEW l \in DOMAIN loads PROVE LoadOk(loads[l], clock', gone')
    <2>1. LoadOk(loads[l], clock, gone) BY DEF ReadInv
    <2>2. \A a \in Agents : Lasted(gone[a], loads[l].began) => Lasted(gone'[a], loads[l].began)
      BY <2>1 DEF WorldStep, ReadInv, LoadOk, Lasted
    <2>. QED BY <2>1, <2>2 DEF WorldStep, ReadInv, LoadOk
  <1>3. ASSUME NEW p \in Readers PROVE ReaderOk(reader[p], loads, clock, unready)'
    <2>1. ReaderOk(reader[p], loads, clock, unready) BY DEF ReadInv
    <2>2. Lasted(unready, reader[p].start) => Lasted(unready', reader[p].start)
      BY <2>1 DEF WorldStep, ReadInv, ReaderOk, Lasted
    <2>3. Labelled(reader[p], site) => Labelled(reader[p], site)' BY DEF WorldStep, Labelled, DataMode
    <2>4. reader[p]' = reader[p] /\ loads' = loads /\ clock <= clock' /\ clock \in Nat /\ clock' \in Nat
      BY DEF WorldStep, ReadInv
    <2>5. FromLoad(reader[p], loads, unready) => FromLoad(reader[p], loads, unready)' BY <2>2, <2>4 DEF FromLoad
    <2>6. Joined(reader[p], loads) => Joined(reader[p], loads)' BY <2>4 DEF Joined, Commerce
    <2>. QED BY <2>1, <2>3, <2>4, <2>5, <2>6 DEF ReaderOk
  <1>4. /\ IsSequence(loads)' /\ SlotOk(cache, loads)' /\ DOMAIN reader' = Readers
        /\ \A l \in DOMAIN loads' : LoadOk(loads[l], clock, gone)'
    BY <1>2 DEF WorldStep, ReadInv, IsSequence, SlotOk, LoadOk, Lasted
  <1>. QED BY <1>1, <1>3, <1>4 DEF WorldStep, ReadInv

-----------------------------------------------------------------------------
\* A load that has not ended makes a step, and gives up or settles its slot when it ends.
LoadStep(l, new) ==
  /\ l \in DOMAIN loads /\ loads' = [loads EXCEPT ![l] = new]
  /\ loads[l].ended = Nothing /\ LoadOk(new, clock, gone)
  /\ new.ids = loads[l].ids /\ new.commerce = loads[l].commerce
  /\ \/ new.ended = Nothing /\ cache' = cache
     \/ new.ended = clock /\ new.pc = "done" /\ cache' = Settle(l)
     \/ new.ended = clock /\ new.pc = "failed"
        /\ cache' = IF cache # Nothing /\ cache.load = l THEN Nothing ELSE cache
  /\ UNCHANGED <<clock, site, dbVars, reader>>

LEMMA LoadInv ==
  ASSUME ReadParameters, ReadInv, NEW l, NEW new, LoadStep(l, new) PROVE ReadInv'
  <1>0. clock \in Nat /\ Nothing \notin Nat /\ Ttl \in Nat \ {0} BY DEF ReadInv, ReadParameters
  <1>1. DOMAIN loads' = DOMAIN loads /\ loads'[l] = new /\ \A m \in DOMAIN loads \ {l} : loads'[m] = loads[m]
    BY DEF LoadStep
  <1>2. IsSequence(loads')
    <2>1. PICK V : loads \in Seq(V) BY DEF ReadInv, IsSequence
    <2>2. PICK W : W = V \cup {new} OBVIOUS
    <2>3. loads \in Seq(W) BY <2>1, <2>2
    <2>4. loads' \in Seq(W) BY <2>2, <2>3 DEF LoadStep
    <2>. QED BY <2>4 DEF IsSequence
  <1>3. \A m \in DOMAIN loads' : LoadOk(loads'[m], clock, gone) BY <1>1 DEF LoadStep, ReadInv
  <1>4. SlotOk(cache', loads')
    <2>1. SlotOk(cache, loads) BY DEF ReadInv
    <2>2. CASE cache = Nothing BY <2>2 DEF LoadStep, Settle, SlotOk
    <2>3. CASE cache # Nothing /\ cache.load # l BY <1>1, <2>1, <2>3 DEF LoadStep, Settle, SlotOk
    <2>4. CASE cache # Nothing /\ cache.load = l
      <3>1. CASE new.ended = Nothing /\ cache' = cache
        <4>1. new.pc # "failed" BY <1>0, <3>1 DEF LoadStep, LoadOk
        <4>. QED BY <1>1, <2>1, <2>4, <3>1, <4>1 DEF LoadStep, SlotOk
      <3>2. CASE new.ended = clock /\ new.pc = "done" /\ cache' = Settle(l)
        <4>1. cache' = [cache EXCEPT !.expiresAt = clock + Ttl] BY <2>4, <3>2 DEF Settle
        <4>. QED BY <1>1, <2>1, <2>4, <3>2, <4>1 DEF LoadStep, SlotOk
      <3>3. CASE cache' = Nothing BY <3>3 DEF SlotOk
      <3>. QED BY <2>4, <3>1, <3>2, <3>3 DEF LoadStep
    <2>. QED BY <2>2, <2>3, <2>4
  <1>5. ASSUME NEW p \in Readers PROVE ReaderOk(reader[p], loads, clock, unready)'
    <2>1. ReaderOk(reader[p], loads, clock, unready) BY DEF ReadInv
    <2>2. reader' = reader /\ UNCHANGED <<clock, site, unready>> BY DEF LoadStep, dbVars
    <2>3. Joined(reader[p], loads) => Joined(reader[p], loads)'
      <3>1. CASE reader[p].load # l BY <1>1, <2>2, <3>1 DEF Joined, Commerce
      <3>2. CASE reader[p].load = l
        <4>1. reader[p].start \in Nat /\ reader[p].start <= clock BY <2>1 DEF ReaderOk
        <4>2. new.ended # Nothing => new.ended = clock BY DEF LoadStep
        <4>3. new.pc = "failed" => new.ended # Nothing BY <1>0 DEF LoadStep, LoadOk
        <4>4. new.ended # Nothing => reader[p].start < new.ended + Ttl /\ new.ended >= reader[p].start
          BY <1>0, <4>1, <4>2
        <4>5. new.ids = loads[l].ids /\ new.commerce = loads[l].commerce BY DEF LoadStep
        <4>. QED BY <1>1, <2>2, <3>2, <4>3, <4>4, <4>5 DEF Joined, Commerce
      <3>. QED BY <3>1, <3>2
    <2>4. FromLoad(reader[p], loads, unready) => FromLoad(reader[p], loads, unready)'
      BY <1>1, <2>2 DEF FromLoad, LoadStep
    <2>5. Labelled(reader[p], site) => Labelled(reader[p], site)' BY <2>2 DEF Labelled, DataMode
    <2>. QED BY <2>1, <2>2, <2>3, <2>4, <2>5 DEF ReaderOk
  <1>6. (Ready => unready = Nothing)' /\ Kept(rows, gone)' /\ clock' \in Nat /\ unready' \in Nat \cup {Nothing}
        /\ DOMAIN reader' = Readers
    BY DEF LoadStep, ReadInv, dbVars, Ready, Kept
  <1>7. UNCHANGED <<clock, gone>> BY DEF LoadStep, dbVars
  <1>. QED BY <1>2, <1>3, <1>4, <1>5, <1>6, <1>7 DEF ReadInv

-----------------------------------------------------------------------------
\* A request makes a step that leaves the loads alone.
ReadStep(p, new) ==
  /\ p \in Readers /\ reader' = [reader EXCEPT ![p] = new] /\ ReaderOk(new, loads, clock, unready)
  /\ UNCHANGED <<clock, site, dbVars, cache, loads>>

LEMMA RequestInv == ASSUME ReadInv, NEW p, NEW new, ReadStep(p, new) PROVE ReadInv'
  <1>1. DOMAIN reader' = Readers /\ reader'[p] = new /\ \A q \in Readers \ {p} : reader'[q] = reader[q]
    BY DEF ReadStep, ReadInv
  <1>2. UNCHANGED <<clock, site, rows, allowance, gone, unready, cache, loads>> BY DEF ReadStep, dbVars
  <1>3. \A q \in Readers : ReaderOk(reader'[q], loads, clock, unready) BY <1>1 DEF ReadStep, ReadInv
  <1>4. ASSUME NEW q \in Readers PROVE ReaderOk(reader[q], loads, clock, unready)'
    BY <1>2, <1>3 DEF ReaderOk, Joined, FromLoad, Labelled, DataMode, Commerce
  <1>5. (Ready => unready = Nothing)' /\ Kept(rows, gone)' BY <1>2 DEF ReadInv, Ready, Kept
  <1>6. IsSequence(loads)' /\ SlotOk(cache, loads)' /\ \A l \in DOMAIN loads' : LoadOk(loads[l], clock, gone)'
    BY <1>2 DEF ReadInv, IsSequence, SlotOk, LoadOk, Lasted
  <1>. QED BY <1>1, <1>2, <1>4, <1>5, <1>6 DEF ReadInv

-----------------------------------------------------------------------------
IsAnswer(an) == DOMAIN an = {"mode", "source", "shown", "hireable", "evidence"}

LEMMA ShelfFacts ==
  ASSUME NEW ask, NEW an, IsAnswer(an)
  PROVE  /\ Shelf(ask, an).source = an.source /\ Shelf(ask, an).mode = an.mode
         /\ Shelf(ask, an).hireable = an.hireable
         /\ Shelf(ask, an).shown \in {an.shown, an.hireable, {}}
  BY DEF Shelf, IsAnswer

\* An answer of no directory and no fixture, or one made of the load awaited.
MadeOf(p, an) ==
  /\ IsAnswer(an) /\ an.source # "fixture"
  /\ an.source = "directory" =>
       /\ reader[p].load # 0 /\ loads[reader[p].load].ended # Nothing
       /\ an.hireable \subseteq an.shown /\ an.shown \subseteq DOMAIN loads[reader[p].load].cards
       /\ Reference \in an.hireable => Lasted(unready, reader[p].start)

\* A request is answered.
ReplyStep(p, an) == /\ p \in Readers /\ reader[p].pc # "idle" /\ MadeOf(p, an) /\ Reply(p, an)
                    /\ UNCHANGED <<clock, site, dbVars, cache, loads>>

LEMMA ReplyInv == ASSUME ReadInv, NEW p, NEW an, ReplyStep(p, an) PROVE ReadInv'
  <1>1. PICK new : new = [reader[p] EXCEPT !.pc = "answered", !.answer = Shelf(reader[p].ask, an), !.cards = <<>>]
    OBVIOUS
  <1>2. DOMAIN reader = Readers /\ ReaderOk(reader[p], loads, clock, unready) BY DEF ReplyStep, ReadInv
  <1>3. reader' = [reader EXCEPT ![p] = new] BY <1>1 DEF ReplyStep, Reply
  <1>4. /\ DOMAIN new = {"pc", "ask", "start", "ids", "load", "cards", "answer"}
        /\ new.pc = "answered" /\ new.answer = Shelf(reader[p].ask, an) /\ new.ask = reader[p].ask
        /\ new.start = reader[p].start /\ new.ids = reader[p].ids /\ new.load = reader[p].load
    BY <1>1, <1>2 DEF ReaderOk
  <1>5. /\ new.answer.source = an.source /\ new.answer.hireable = an.hireable
        /\ new.answer.shown \in {an.shown, an.hireable, {}}
    BY <1>4, ShelfFacts DEF ReplyStep, MadeOf
  <1>6. Joined(reader[p], loads) => Joined(new, loads) BY <1>4 DEF Joined
  <1>7. an.source = "directory" => FromLoad(new, loads, unready) BY <1>4, <1>5 DEF ReplyStep, MadeOf, FromLoad
  <1>8. new.answer.source # "fixture" /\ reader[p].pc # "idle" BY <1>5 DEF ReplyStep, MadeOf
  <1>9. ReaderOk(new, loads, clock, unready) BY <1>2, <1>4, <1>5, <1>6, <1>7, <1>8 DEF ReaderOk
  <1>10. ReadStep(p, new) BY <1>3, <1>9 DEF ReplyStep, ReadStep
  <1>. QED BY <1>10, RequestInv

\* A request goes on to the read model, or keeps what that returned.
LEMMA ServeInv ==
  ASSUME ReadInv, NEW p \in Readers, NEW new, reader[p].pc # "idle",
         DOMAIN new = {"pc", "ask", "start", "ids", "load", "cards", "answer"}, new.pc \in {"service", "evaluate"},
         new.ask = reader[p].ask, new.start = reader[p].start, new.ids = reader[p].ids, new.load = reader[p].load,
         reader' = [reader EXCEPT ![p] = new], UNCHANGED <<clock, site, dbVars, cache, loads>>
  PROVE  ReadInv'
  <1>1. ReaderOk(reader[p], loads, clock, unready) BY DEF ReadInv
  <1>2. Joined(reader[p], loads) => Joined(new, loads) BY DEF Joined
  <1>3. ReaderOk(new, loads, clock, unready) BY <1>1, <1>2 DEF ReaderOk
  <1>4. ReadStep(p, new) BY <1>3 DEF ReadStep
  <1>. QED BY <1>4, RequestInv

\* A fixture is labelled, outside production and without a live source.
LEMMA FixtureAnswers ==
  ASSUME NEW ask
  PROVE  /\ IsAnswer(AdapterAnswer(ask)) /\ AdapterAnswer(ask).source \in {"none", "fixture"}
         /\ AdapterAnswer(ask).source = "fixture" =>
              /\ ~site.production /\ AdapterAnswer(ask).mode \in {"fixture", "degraded"}
              /\ DataMode = "live" => ask.preview # Nothing
  <1>1. IsAnswer(ErrorAnswer) /\ ErrorAnswer.source = "none" BY DEF ErrorAnswer, Answer, IsAnswer
  <1>2. CASE Previewed(ask)
    <2>1. AdapterAnswer(ask) = PreviewAnswer(ask.preview) /\ ~site.production /\ ask.preview # Nothing
      BY <1>2 DEF AdapterAnswer, Previewed
    <2>2. PreviewAnswer(ask.preview) \in {Answer("fixture", "none", {}, {}), Answer("empty", "none", {}, {}),
                                          Answer("degraded", "fixture", Agents, {}), ErrorAnswer}
      BY DEF PreviewAnswer
    <2>. QED BY <1>1, <2>1, <2>2 DEF Answer, IsAnswer
  <1>3. CASE ~Previewed(ask) /\ DataMode = "live" BY <1>1, <1>3 DEF AdapterAnswer
  <1>4. CASE ~Previewed(ask) /\ DataMode # "live"
    <2>1. AdapterAnswer(ask) = LocalAnswer BY <1>4 DEF AdapterAnswer
    <2>2. CASE DataMode \in {"error", "empty"}
      <3>1. LocalAnswer \in {ErrorAnswer, Answer("empty", "none", {}, {})} BY <2>2 DEF LocalAnswer
      <3>. QED BY <1>1, <2>1, <3>1 DEF Answer, IsAnswer
    <2>3. CASE DataMode \notin {"error", "empty"}
      <3>1. LocalAnswer = Answer(DataMode, "fixture", Agents, {}) BY <2>3 DEF LocalAnswer
      <3>2. DataMode \in {"fixture", "degraded"} /\ ~site.production BY <1>4, <2>3 DEF DataMode
      <3>. QED BY <1>4, <2>1, <3>1, <3>2 DEF Answer, IsAnswer
    <2>. QED BY <2>2, <2>3
  <1>. QED BY <1>2, <1>3, <1>4

LEMMA AskInv == ASSUME ReadParameters, ReadInv, NEW p \in Readers, NEW ask \in Asks, Ask(p, ask) PROVE ReadInv'
  <1>0. DOMAIN reader = Readers /\ clock \in Nat BY DEF ReadInv
  <1>1. /\ DOMAIN Asked(ask) = {"pc", "ask", "start", "ids", "load", "cards", "answer"}
        /\ Asked(ask).ask = ask /\ Asked(ask).start = clock /\ Asked(ask).load = 0
    BY DEF Asked, Idle
  <1>2. PICK new : /\ reader' = [reader EXCEPT ![p] = new]
                   /\ DOMAIN new = {"pc", "ask", "start", "ids", "load", "cards", "answer"}
                   /\ new.ask = ask /\ new.start = clock /\ new.load = 0
                   /\ \/ new.pc \in {"remote", "select", "service"}
                      \/ new.pc = "answered" /\ new.answer = Shelf(ask, AdapterAnswer(ask))
    <2>1. ASSUME NEW pc \in {"remote", "select", "service"}, reader' = [reader EXCEPT ![p] = [Asked(ask) EXCEPT !.pc = pc]]
          PROVE  \E new : /\ reader' = [reader EXCEPT ![p] = new]
                          /\ DOMAIN new = {"pc", "ask", "start", "ids", "load", "cards", "answer"}
                          /\ new.ask = ask /\ new.start = clock /\ new.load = 0
                          /\ new.pc \in {"remote", "select", "service"}
      <3>1. PICK new : new = [Asked(ask) EXCEPT !.pc = pc] OBVIOUS
      <3>2. reader' = [reader EXCEPT ![p] = new] BY <2>1, <3>1
      <3>3. /\ DOMAIN new = {"pc", "ask", "start", "ids", "load", "cards", "answer"}
            /\ new.ask = ask /\ new.start = clock /\ new.load = 0 /\ new.pc = pc
        BY <1>1, <3>1
      <3>. QED BY <3>2, <3>3
    <2>2. ASSUME reader' = [reader EXCEPT ![p] = [Asked(ask) EXCEPT !.pc = "answered", !.answer = Shelf(ask, AdapterAnswer(ask))]]
          PROVE  \E new : /\ reader' = [reader EXCEPT ![p] = new]
                          /\ DOMAIN new = {"pc", "ask", "start", "ids", "load", "cards", "answer"}
                          /\ new.ask = ask /\ new.start = clock /\ new.load = 0
                          /\ new.pc = "answered" /\ new.answer = Shelf(ask, AdapterAnswer(ask))
      <3>1. PICK new : new = [Asked(ask) EXCEPT !.pc = "answered", !.answer = Shelf(ask, AdapterAnswer(ask))] OBVIOUS
      <3>2. reader' = [reader EXCEPT ![p] = new] BY <2>2, <3>1
      <3>3. /\ DOMAIN new = {"pc", "ask", "start", "ids", "load", "cards", "answer"}
            /\ new.ask = ask /\ new.start = clock /\ new.load = 0
            /\ new.pc = "answered" /\ new.answer = Shelf(ask, AdapterAnswer(ask))
        BY <1>1, <3>1
      <3>. QED BY <3>2, <3>3
    <2>3. \/ \E pc \in {"remote", "select", "service"} : reader' = [reader EXCEPT ![p] = [Asked(ask) EXCEPT !.pc = pc]]
          \/ reader' = [reader EXCEPT ![p] = [Asked(ask) EXCEPT !.pc = "answered", !.answer = Shelf(ask, AdapterAnswer(ask))]]
      BY DEF Ask
    <2>. QED BY <2>1, <2>2, <2>3
  <1>3. new.pc = "answered" => /\ new.answer.source \in {"none", "fixture"}
                               /\ new.answer.source = "fixture" => Labelled(new, site)
    BY <1>2, FixtureAnswers, ShelfFacts DEF Labelled
  <1>4. ReaderOk(new, loads, clock, unready) BY <1>0, <1>2, <1>3 DEF ReaderOk
  <1>5. ReadStep(p, new) BY <1>2, <1>4 DEF ReadStep, Ask
  <1>. QED BY <1>5, RequestInv

LEMMA ErrorInv ==
  ASSUME ReadInv, NEW p \in Readers, reader[p].pc # "idle", Reply(p, ErrorAnswer),
         UNCHANGED <<clock, site, dbVars, cache, loads>>
  PROVE  ReadInv'
  <1>1. MadeOf(p, ErrorAnswer) BY DEF MadeOf, IsAnswer, ErrorAnswer, Answer
  <1>2. ReplyStep(p, ErrorAnswer) BY <1>1 DEF ReplyStep
  <1>. QED BY <1>2, ReplyInv

LEMMA RemoteInv == ASSUME ReadInv, NEW p \in Readers, RemoteAnswer(p) PROVE ReadInv'
  <1>1. CASE Reply(p, ErrorAnswer) BY <1>1, ErrorInv DEF RemoteAnswer
  <1>2. CASE \E m \in {"live", "degraded", "empty"} : Reply(p, Answer(m, "remote", {}, {}))
    <2>1. PICK m \in {"live", "degraded", "empty"} : Reply(p, Answer(m, "remote", {}, {})) BY <1>2
    <2>2. PICK an : an = Answer(m, "remote", {}, {}) OBVIOUS
    <2>3. MadeOf(p, an) BY <2>2 DEF MadeOf, IsAnswer, Answer
    <2>4. ReplyStep(p, an) BY <2>1, <2>2, <2>3 DEF ReplyStep, RemoteAnswer
    <2>. QED BY <2>4, ReplyInv
  <1>. QED BY <1>1, <1>2 DEF RemoteAnswer

\* What is offered is in the answer, and the reference only while it has a slot.
LEMMA HireableFacts ==
  ASSUME ReadInv, NEW cards
  PROVE  Hireable(cards) \subseteq DOMAIN cards /\ (Reference \in Hireable(cards) => unready = Nothing)
  BY DEF Hireable, ReadInv

LEMMA ServiceInv ==
  ASSUME ReadInv, NEW p \in Readers, ServiceRead(p) \/ ServiceEvaluate(p) PROVE ReadInv'
  <1>1. ReaderOk(reader[p], loads, clock, unready) /\ DOMAIN reader = Readers BY DEF ReadInv
  <1>2. CASE ServiceRead(p) /\ Reply(p, ErrorAnswer) BY <1>2, ErrorInv DEF ServiceRead
  <1>3. CASE ServiceRead(p) /\ ~Reply(p, ErrorAnswer)
    <2>1. PICK cs : reader' = [reader EXCEPT ![p].pc = "evaluate", ![p].cards = cs] BY <1>3 DEF ServiceRead
    <2>2. PICK new : new = [reader[p] EXCEPT !.pc = "evaluate", !.cards = cs] OBVIOUS
    <2>3. /\ DOMAIN new = {"pc", "ask", "start", "ids", "load", "cards", "answer"} /\ new.pc = "evaluate"
          /\ new.ask = reader[p].ask /\ new.start = reader[p].start /\ new.ids = reader[p].ids
          /\ new.load = reader[p].load
      BY <1>1, <2>2 DEF ReaderOk
    <2>4. reader' = [reader EXCEPT ![p] = new] BY <2>1, <2>2
    <2>5. reader[p].pc # "idle" /\ UNCHANGED <<clock, site, dbVars, cache, loads>> BY <1>3 DEF ServiceRead
    <2>. QED BY <2>3, <2>4, <2>5, ServeInv
  <1>4. CASE ServiceEvaluate(p)
    <2>1. PICK m, shown, hireable, e : Reply(p, [Answer(m, "service", shown, hireable) EXCEPT !.evidence = e])
      BY <1>4, ZenonT(60) DEF ServiceEvaluate
    <2>2. PICK an : an = [Answer(m, "service", shown, hireable) EXCEPT !.evidence = e] OBVIOUS
    <2>3. MadeOf(p, an) BY <2>2 DEF MadeOf, IsAnswer, Answer
    <2>4. reader[p].pc # "idle" /\ UNCHANGED <<clock, site, dbVars, cache, loads>> BY <1>4 DEF ServiceEvaluate
    <2>5. ReplyStep(p, an) BY <2>1, <2>2, <2>3, <2>4 DEF ReplyStep
    <2>. QED BY <2>5, ReplyInv
  <1>. QED BY <1>2, <1>3, <1>4

LEMMA FinishInv == ASSUME ReadInv, NEW p \in Readers, Finish(p) PROVE ReadInv'
  <1>1. ReaderOk(reader[p], loads, clock, unready) /\ DOMAIN reader = Readers BY DEF ReadInv
  <1>2. /\ reader[p].pc = "await" /\ loads[reader[p].load].ended # Nothing
        /\ UNCHANGED <<clock, site, dbVars, cache, loads>>
    BY DEF Finish
  <1>3. CASE Reply(p, ErrorAnswer) BY <1>2, <1>3, ErrorInv
  <1>4. CASE reader' = [reader EXCEPT ![p].pc = "service"]
    <2>1. PICK new : new = [reader[p] EXCEPT !.pc = "service"] OBVIOUS
    <2>2. /\ DOMAIN new = {"pc", "ask", "start", "ids", "load", "cards", "answer"} /\ new.pc = "service"
          /\ new.ask = reader[p].ask /\ new.start = reader[p].start /\ new.ids = reader[p].ids
          /\ new.load = reader[p].load
      BY <1>1, <2>1 DEF ReaderOk
    <2>3. reader' = [reader EXCEPT ![p] = new] BY <1>4, <2>1
    <2>. QED BY <1>2, <2>2, <2>3, ServeInv
  <1>5. PICK cards : cards = loads[reader[p].load].cards OBVIOUS
  <1>6. ASSUME NEW e, Reply(p, [Answer("live", "directory", DOMAIN cards, Hireable(cards)) EXCEPT !.evidence = e])
        PROVE  ReadInv'
    <2>1. PICK h : h = Hireable(cards) OBVIOUS
    <2>2. h \subseteq DOMAIN cards /\ (Reference \in h => unready = Nothing) BY <2>1, HireableFacts
    <2>3. PICK an : an = [Answer("live", "directory", DOMAIN cards, h) EXCEPT !.evidence = e] OBVIOUS
    <2>4. IsAnswer(an) /\ an.source = "directory" /\ an.shown = DOMAIN cards /\ an.hireable = h
      BY <2>3 DEF IsAnswer, Answer
    <2>5. reader[p].load # 0 BY <1>1, <1>2 DEF ReaderOk
    <2>6. MadeOf(p, an) BY <1>2, <1>5, <2>2, <2>4, <2>5 DEF MadeOf, Lasted
    <2>7. ReplyStep(p, an) BY <1>2, <1>6, <2>1, <2>3, <2>6 DEF ReplyStep
    <2>. QED BY <2>7, ReplyInv
  <1>7. \/ Reply(p, ErrorAnswer) \/ reader' = [reader EXCEPT ![p].pc = "service"]
        \/ \E e : Reply(p, [Answer("live", "directory", DOMAIN cards, Hireable(cards)) EXCEPT !.evidence = e])
    BY <1>5, ZenonT(60) DEF Finish
  <1>. QED BY <1>3, <1>4, <1>6, <1>7

-----------------------------------------------------------------------------
LEMMA SelectedAreAgents ==
  ASSUME ReadParameters, NEW ask \in Asks PROVE SelectedIds(ask) \subseteq Agents
  <1>1. ask.kind \in {"search", "agent", "home"} /\ (ask.kind = "agent" => ask.agent \in Agents) BY DEF ReadParameters
  <1>. QED BY <1>1 DEF SelectedIds, Agents

\* A request waits for a load.
Waits(p, ids, l, new) ==
  /\ new = [reader[p] EXCEPT !.pc = "await", !.ids = ids, !.load = l]
  /\ reader' = [reader EXCEPT ![p] = new]

LEMMA WaitingReader ==
  ASSUME ReadInv, NEW p \in Readers, reader[p].pc = "select", NEW ids, NEW l \in Nat \ {0}, NEW new, Waits(p, ids, l, new),
         NEW lds, l \in DOMAIN lds, lds[l].ids = ids, lds[l].commerce = Commerce(reader[p].ask),
         lds[l].pc # "failed", lds[l].ended # Nothing => clock < lds[l].ended + Ttl, lds[l].ended \in Nat \cup {Nothing},
         ReadParameters
  PROVE  ReaderOk(new, lds, clock, unready)
  <1>1. ReaderOk(reader[p], loads, clock, unready) /\ clock \in Nat /\ Ttl \in Nat BY DEF ReadInv, ReadParameters
  <1>2. /\ DOMAIN new = {"pc", "ask", "start", "ids", "load", "cards", "answer"} /\ new.pc = "await"
        /\ new.ask = reader[p].ask /\ new.start = reader[p].start /\ new.ids = ids /\ new.load = l
    BY <1>1 DEF ReaderOk, Waits
  <1>3. new.start \in Nat /\ new.start <= clock /\ new.ask \in Asks BY <1>1, <1>2 DEF ReaderOk
  <1>4. lds[l].ended # Nothing => new.start < lds[l].ended + Ttl BY <1>1, <1>3
  <1>5. Joined(new, lds) BY <1>2, <1>4 DEF Joined
  <1>. QED BY <1>2, <1>3, <1>5 DEF ReaderOk

LEMMA SelectInv == ASSUME ReadParameters, ReadInv, NEW p \in Readers, Select(p) PROVE ReadInv'
  <1>0. /\ reader[p].pc = "select" /\ UNCHANGED <<clock, site, dbVars>> /\ clock \in Nat /\ DOMAIN reader = Readers
        /\ ReaderOk(reader[p], loads, clock, unready) /\ Nothing \notin Nat /\ Ttl \in Nat
    BY DEF Select, ReadInv, ReadParameters
  <1>1. PICK ask, ids : ask = reader[p].ask /\ ids = SelectedIds(ask) OBVIOUS
  <1>2. ask \in Asks /\ ids \subseteq Agents BY <1>0, <1>1, SelectedAreAgents DEF ReaderOk
  <1>3. CASE Reply(p, ErrorAnswer) /\ UNCHANGED <<cache, loads>> BY <1>0, <1>3, ErrorInv
  <1>4. CASE /\ cache # Nothing /\ cache.key = Key(ids, ask) /\ cache.expiresAt > clock
             /\ reader' = [reader EXCEPT ![p].pc = "await", ![p].ids = ids, ![p].load = cache.load]
             /\ UNCHANGED <<cache, loads>>
    <2>1. PICK l : l = cache.load OBVIOUS
    <2>2. /\ l \in Nat \ {0} /\ l \in DOMAIN loads /\ loads[l].ids = ids /\ loads[l].commerce = Commerce(ask)
          /\ loads[l].pc # "failed" /\ (loads[l].ended = Nothing \/ cache.expiresAt = loads[l].ended + Ttl)
      BY <1>4, <2>1 DEF ReadInv, SlotOk, Key
    <2>3. loads[l].ended \in Nat \cup {Nothing} BY <2>2 DEF ReadInv, LoadOk
    <2>4. loads[l].ended # Nothing => clock < loads[l].ended + Ttl BY <1>0, <1>4, <2>2, <2>3
    <2>5. PICK new : new = [reader[p] EXCEPT !.pc = "await", !.ids = ids, !.load = l] OBVIOUS
    <2>6. Waits(p, ids, l, new) BY <1>4, <2>1, <2>5 DEF Waits
    <2>7. ReaderOk(new, loads, clock, unready) BY <1>0, <1>1, <2>2, <2>3, <2>4, <2>6, WaitingReader
    <2>8. ReadStep(p, new) BY <1>0, <1>4, <2>6, <2>7 DEF ReadStep, Waits
    <2>. QED BY <2>8, RequestInv
  <1>5. CASE /\ loads' = Append(loads, NewLoad(ids, ask))
             /\ cache' = [key |-> Key(ids, ask), expiresAt |-> Forever, load |-> Len(loads) + 1]
             /\ reader' = [reader EXCEPT ![p].pc = "await", ![p].ids = ids, ![p].load = Len(loads) + 1]
    <2>1. PICK ld, n : ld = NewLoad(ids, ask) /\ n = Len(loads) OBVIOUS
    <2>2. /\ LoadOk(ld, clock, gone) /\ ld.ids = ids /\ ld.commerce = Commerce(ask)
          /\ ld.pc = "query" /\ ld.ended = Nothing
      BY <1>0, <1>2, <2>1 DEF LoadOk, NewLoad
    <2>3. /\ IsSequence(loads') /\ n \in Nat /\ DOMAIN loads = 1..n /\ DOMAIN loads' = 1..(n + 1)
          /\ loads'[n + 1] = ld /\ \A m \in DOMAIN loads : loads'[m] = loads[m]
      <3>1. PICK V : loads \in Seq(V) BY DEF ReadInv, IsSequence
      <3>2. PICK W : W = V \cup {ld} OBVIOUS
      <3>3. loads \in Seq(W) /\ ld \in W BY <3>1, <3>2
      <3>4. loads' = Append(loads, ld) BY <1>5, <2>1
      <3>. QED BY <2>1, <3>3, <3>4, AppendProperties DEF IsSequence
    <2>4. n + 1 \in Nat \ {0} /\ n + 1 \in DOMAIN loads' BY <2>3
    <2>5. PICK new : new = [reader[p] EXCEPT !.pc = "await", !.ids = ids, !.load = n + 1] OBVIOUS
    <2>6. Waits(p, ids, n + 1, new) BY <1>5, <2>1, <2>5 DEF Waits
    <2>7. PICK lds : lds = loads' OBVIOUS
    <2>8. ReaderOk(new, lds, clock, unready)
      BY <1>0, <1>1, <2>2, <2>3, <2>4, <2>6, <2>7, WaitingReader
    <2>9. ASSUME NEW q \in Readers PROVE ReaderOk(reader'[q], lds, clock, unready)
      <3>1. CASE q = p BY <1>0, <2>6, <2>8, <3>1 DEF Waits
      <3>2. CASE q # p
        <4>1. reader'[q] = reader[q] /\ ReaderOk(reader[q], loads, clock, unready) BY <1>0, <2>6, <3>2 DEF Waits, ReadInv
        <4>2. Joined(reader[q], loads) => Joined(reader[q], lds) BY <2>3, <2>7 DEF Joined
        <4>3. Joined(reader[q], loads) /\ FromLoad(reader[q], loads, unready) => FromLoad(reader[q], lds, unready)
          BY <2>3, <2>7 DEF Joined, FromLoad
        <4>4. ReaderOk(reader[q], lds, clock, unready) BY <4>1, <4>2, <4>3 DEF ReaderOk, FromLoad
        <4>. QED BY <4>1, <4>4
      <3>. QED BY <3>1, <3>2
    <2>10. ASSUME NEW q \in Readers PROVE ReaderOk(reader[q], loads, clock, unready)'
      <3>1. UNCHANGED <<clock, unready, site>> BY <1>0 DEF dbVars
      <3>. QED BY <2>7, <2>9, <3>1 DEF ReaderOk, Joined, FromLoad, Labelled, DataMode, Commerce
    <2>11. SlotOk(cache, loads)'
      BY <1>5, <2>1, <2>2, <2>3, <2>4 DEF SlotOk, Key
    <2>12. ASSUME NEW m \in DOMAIN loads' PROVE LoadOk(loads'[m], clock, gone)
      BY <2>2, <2>3 DEF ReadInv
    <2>13. UNCHANGED <<clock, site, rows, allowance, gone, unready>> BY <1>0 DEF dbVars
    <2>14. (Ready => unready = Nothing)' /\ Kept(rows, gone)' BY <2>13 DEF ReadInv, Ready, Kept
    <2>15. DOMAIN reader' = Readers BY <1>0, <1>5
    <2>. QED BY <1>0, <2>3, <2>10, <2>11, <2>12, <2>13, <2>14, <2>15 DEF ReadInv
  <1>. QED BY <1>1, <1>3, <1>4, <1>5 DEF Select

-----------------------------------------------------------------------------
\* Each step of a load changes where it is, what it found or when it ended, and nothing else.
LEMMA LoadStepInv ==
  ASSUME ReadParameters, ReadInv, NEW l \in DOMAIN loads,
         LoadQuery(l) \/ LoadProject(l) \/ LoadReference(l) \/ LoadFails(l)
  PROVE  ReadInv'
  <1>0. LoadOk(loads[l], clock, gone) /\ clock \in Nat /\ Nothing \notin Nat BY DEF ReadInv, ReadParameters
  <1>1. CASE LoadQuery(l)
    <2>1. PICK found : found = [a \in {b \in loads[l].ids : Listed(rows[b])} |-> rows[a]] OBVIOUS
    <2>2. PICK new : new = [loads[l] EXCEPT !.pc = "project", !.found = found] OBVIOUS
    <2>3. \A a \in DOMAIN found : a \in Agents /\ gone[a] = Nothing
      BY <1>0, <2>1 DEF LoadOk, Listed, ReadInv, Kept
    <2>4. loads[l].pc = "query" /\ loads[l].ended = Nothing BY <1>0, <1>1 DEF LoadQuery, LoadOk
    <2>5. /\ DOMAIN new = {"ids", "commerce", "pc", "found", "cards", "began", "ended"}
          /\ new.pc = "project" /\ new.found = found /\ new.ids = loads[l].ids /\ new.commerce = loads[l].commerce
          /\ new.cards = loads[l].cards /\ new.began = loads[l].began /\ new.ended = loads[l].ended
      BY <1>0, <2>2 DEF LoadOk
    <2>6. LoadOk(new, clock, gone) BY <1>0, <2>3, <2>4, <2>5 DEF LoadOk, Lasted
    <2>7. loads' = [loads EXCEPT ![l] = new] /\ UNCHANGED <<clock, site, dbVars, cache, reader>>
      BY <1>1, <2>1, <2>2 DEF LoadQuery
    <2>8. LoadStep(l, new) BY <2>4, <2>5, <2>6, <2>7 DEF LoadStep
    <2>. QED BY <2>8, LoadInv
  <1>2. CASE LoadProject(l)
    <2>1. PICK cards : cards = [a \in DOMAIN loads[l].found |-> SellerReady(a, loads[l].found[a])] OBVIOUS
    <2>2. PICK new : new = [loads[l] EXCEPT !.pc = "reference", !.found = <<>>, !.cards = cards] OBVIOUS
    <2>3. DOMAIN cards = DOMAIN loads[l].found BY <2>1
    <2>4. loads[l].pc = "project" /\ loads[l].ended = Nothing BY <1>0, <1>2 DEF LoadProject, LoadOk
    <2>5. /\ DOMAIN new = {"ids", "commerce", "pc", "found", "cards", "began", "ended"}
          /\ new.pc = "reference" /\ new.found = <<>> /\ new.ids = loads[l].ids /\ new.commerce = loads[l].commerce
          /\ new.cards = cards /\ new.began = loads[l].began /\ new.ended = loads[l].ended
      BY <1>0, <2>2 DEF LoadOk
    <2>6. LoadOk(new, clock, gone) BY <1>0, <2>3, <2>4, <2>5 DEF LoadOk
    <2>7. loads' = [loads EXCEPT ![l] = new] /\ UNCHANGED <<clock, site, dbVars, cache, reader>>
      BY <1>2, <2>1, <2>2 DEF LoadProject
    <2>8. LoadStep(l, new) BY <2>4, <2>5, <2>6, <2>7 DEF LoadStep
    <2>. QED BY <2>8, LoadInv
  <1>3. CASE LoadReference(l)
    <2>1. PICK cards : /\ loads' = [loads EXCEPT ![l] = [loads[l] EXCEPT !.pc = "done", !.ended = clock, !.cards = cards]]
                       /\ DOMAIN cards \subseteq DOMAIN loads[l].cards \cup {Reference}
      <3>1. ASSUME NEW cards, DOMAIN cards \subseteq DOMAIN loads[l].cards \cup {Reference},
                   loads' = [loads EXCEPT ![l].pc = "done", ![l].ended = clock, ![l].cards = cards]
            PROVE  \E c : /\ loads' = [loads EXCEPT ![l] = [loads[l] EXCEPT !.pc = "done", !.ended = clock, !.cards = c]]
                          /\ DOMAIN c \subseteq DOMAIN loads[l].cards \cup {Reference}
        BY <3>1
      <3>2. ASSUME loads' = [loads EXCEPT ![l].pc = "done", ![l].ended = clock]
            PROVE  loads' = [loads EXCEPT ![l].pc = "done", ![l].ended = clock, ![l].cards = loads[l].cards]
        BY <1>0, <3>2 DEF LoadOk
      <3>3. CASE loads' = [loads EXCEPT ![l].pc = "done", ![l].ended = clock] BY <3>1, <3>2, <3>3
      <3>4. ASSUME NEW cards, cards = [a \in DOMAIN loads[l].cards \cup {Reference} |->
                                         IF a = Reference THEN Activated(a, rows[a]) ELSE loads[l].cards[a]],
                   loads' = [loads EXCEPT ![l].pc = "done", ![l].ended = clock, ![l].cards = cards]
            PROVE  DOMAIN cards \subseteq DOMAIN loads[l].cards \cup {Reference}
        BY <3>4
      <3>. QED BY <1>3, <3>1, <3>3, <3>4 DEF LoadReference
    <2>2. PICK new : new = [loads[l] EXCEPT !.pc = "done", !.ended = clock, !.cards = cards] OBVIOUS
    <2>3. loads[l].pc = "reference" /\ loads[l].ended = Nothing BY <1>0, <1>3 DEF LoadReference, LoadOk
    <2>4. /\ DOMAIN new = {"ids", "commerce", "pc", "found", "cards", "began", "ended"}
          /\ new.pc = "done" /\ new.found = loads[l].found /\ new.ids = loads[l].ids /\ new.commerce = loads[l].commerce
          /\ new.cards = cards /\ new.began = loads[l].began /\ new.ended = clock
      BY <1>0, <2>2 DEF LoadOk
    <2>5. LoadOk(new, clock, gone) BY <1>0, <2>1, <2>4 DEF LoadOk
    <2>6. loads' = [loads EXCEPT ![l] = new] /\ cache' = Settle(l) /\ UNCHANGED <<clock, site, dbVars, reader>>
      BY <1>3, <2>1, <2>2 DEF LoadReference
    <2>7. LoadStep(l, new) BY <2>3, <2>4, <2>5, <2>6 DEF LoadStep
    <2>. QED BY <2>7, LoadInv
  <1>4. CASE LoadFails(l)
    <2>1. PICK new : new = [loads[l] EXCEPT !.pc = "failed", !.ended = clock] OBVIOUS
    <2>2. loads[l].ended = Nothing BY <1>0, <1>4 DEF LoadFails, LoadOk
    <2>3. /\ DOMAIN new = {"ids", "commerce", "pc", "found", "cards", "began", "ended"}
          /\ new.pc = "failed" /\ new.found = loads[l].found /\ new.ids = loads[l].ids /\ new.commerce = loads[l].commerce
          /\ new.cards = loads[l].cards /\ new.began = loads[l].began /\ new.ended = clock
      BY <1>0, <2>1 DEF LoadOk
    <2>4. LoadOk(new, clock, gone) BY <1>0, <2>3 DEF LoadOk
    <2>5. /\ loads' = [loads EXCEPT ![l] = new] /\ UNCHANGED <<clock, site, dbVars, reader>>
          /\ cache' = IF cache # Nothing /\ cache.load = l THEN Nothing ELSE cache
      BY <1>4, <2>1 DEF LoadFails
    <2>6. LoadStep(l, new) BY <2>2, <2>3, <2>4, <2>5 DEF LoadStep
    <2>. QED BY <2>6, LoadInv
  <1>. QED BY <1>1, <1>2, <1>3, <1>4

-----------------------------------------------------------------------------
\* Rows that change without being listed or taken down.
LEMMA RowsKept ==
  ASSUME ReadInv, NEW a \in Agents, NEW row, rows' = [rows EXCEPT ![a] = row],
         "listing" \in DOMAIN row, row.listing = rows[a].listing
  PROVE  Kept(rows', gone)
  BY DEF ReadInv, Kept

LEMMA ModerateRowInv == ASSUME ReadParameters, ReadInv, NEW a \in Agents, ModerateRow(a) PROVE ReadInv'
  <1>0. Kept(rows, gone) /\ clock \in Nat /\ unready \in Nat \cup {Nothing} /\ Nothing \notin Nat
    BY DEF ReadInv, ReadParameters
  <1>1. PICK s : /\ rows' = [rows EXCEPT ![a].listing = s]
                 /\ \/ rows[a].listing = "published" /\ s \in {"suspended", "delisted"}
                    \/ rows[a].listing = "suspended" /\ s = "published"
    BY DEF ModerateRow
  <1>2. PICK row : row = [rows[a] EXCEPT !.listing = s] OBVIOUS
  <1>3. "listing" \in DOMAIN row /\ row.listing = s BY <1>0, <1>2 DEF Kept
  <1>4. rows' = [rows EXCEPT ![a] = row] BY <1>1, <1>2
  <1>5. /\ DOMAIN gone' = Agents /\ gone'[a] = IF gone[a] = Nothing THEN clock ELSE Nothing
        /\ \A b \in Agents \ {a} : gone'[b] = gone[b]
    BY <1>0 DEF ModerateRow, Kept
  <1>6. DOMAIN rows' = Agents /\ rows'[a] = row /\ \A b \in Agents \ {a} : rows'[b] = rows[b]
    BY <1>0, <1>4 DEF Kept
  <1>7. Kept(rows', gone') BY <1>0, <1>1, <1>3, <1>5, <1>6 DEF Kept
  <1>8. UNCHANGED <<clock, site, allowance, unready, cache, loads, reader>> BY DEF ModerateRow
  <1>9. (Ready => unready = Nothing)' BY <1>8 DEF ReadInv, Ready
  <1>10. WorldStep BY <1>0, <1>5, <1>7, <1>8, <1>9 DEF WorldStep
  <1>. QED BY <1>10, WorldInv

LEMMA OtherRowInv == ASSUME ReadParameters, ReadInv, NEW a \in Agents, StoreProbe(a) \/ Republish(a) PROVE ReadInv'
  <1>0. Kept(rows, gone) /\ clock \in Nat /\ unready \in Nat \cup {Nothing} /\ Nothing \notin Nat
    BY DEF ReadInv, ReadParameters
  <1>1. "listing" \in DOMAIN rows[a] BY <1>0 DEF Kept
  <1>2. PICK row : rows' = [rows EXCEPT ![a] = row] /\ "listing" \in DOMAIN row /\ row.listing = rows[a].listing
    <2>1. CASE StoreProbe(a)
      <3>1. PICK new : rows' = [rows EXCEPT ![a].probe = new] BY <2>1 DEF StoreProbe
      <3>2. PICK row : row = [rows[a] EXCEPT !.probe = new] OBVIOUS
      <3>3. "listing" \in DOMAIN row /\ row.listing = rows[a].listing BY <1>1, <3>2
      <3>4. rows' = [rows EXCEPT ![a] = row] BY <3>1, <3>2
      <3>. QED BY <3>3, <3>4
    <2>2. CASE \E o : rows' = [rows EXCEPT ![a].offer = o]
      <3>1. PICK o : rows' = [rows EXCEPT ![a].offer = o] BY <2>2
      <3>2. PICK row : row = [rows[a] EXCEPT !.offer = o] OBVIOUS
      <3>3. "listing" \in DOMAIN row /\ row.listing = rows[a].listing BY <1>1, <3>2
      <3>4. rows' = [rows EXCEPT ![a] = row] BY <3>1, <3>2
      <3>. QED BY <3>3, <3>4
    <2>3. CASE rows' = [rows EXCEPT ![a].metadata = FALSE]
      <3>1. PICK row : row = [rows[a] EXCEPT !.metadata = FALSE] OBVIOUS
      <3>2. "listing" \in DOMAIN row /\ row.listing = rows[a].listing BY <1>1, <3>1
      <3>3. rows' = [rows EXCEPT ![a] = row] BY <2>3, <3>1
      <3>. QED BY <3>2, <3>3
    <2>4. StoreProbe(a) \/ (\E o : rows' = [rows EXCEPT ![a].offer = o]) \/ rows' = [rows EXCEPT ![a].metadata = FALSE]
      BY DEF Republish
    <2>. QED BY <2>1, <2>2, <2>3, <2>4
  <1>3. Kept(rows', gone) BY <1>2, RowsKept
  <1>4. UNCHANGED <<clock, site, allowance, gone, unready, cache, loads, reader>> BY DEF StoreProbe, Republish
  <1>5. (Ready => unready = Nothing)' BY <1>4 DEF ReadInv, Ready
  <1>6. Kept(rows', gone') BY <1>3, <1>4
  <1>7. WorldStep BY <1>0, <1>4, <1>5, <1>6 DEF WorldStep
  <1>. QED BY <1>7, WorldInv

LEMMA TimeInv == ASSUME ReadParameters, ReadInv, PassTime \/ TakeSlot PROVE ReadInv'
  <1>0. Kept(rows, gone) /\ clock \in Nat /\ unready \in Nat \cup {Nothing} /\ Nothing \notin Nat
    BY DEF ReadInv, ReadParameters
  <1>1. UNCHANGED <<site, rows, gone, cache, loads, reader>> /\ clock' \in {clock, clock + 1}
    BY DEF PassTime, TakeSlot, dbVars
  <1>2. unready' \in {unready, Nothing, clock} /\ (Ready' => unready' = Nothing)
    <2>1. CASE PassTime BY <2>1 DEF PassTime, dbVars, ReadInv, Ready
    <2>2. CASE TakeSlot
      <3>1. unready' = IF Ready' THEN Nothing ELSE IF unready = Nothing THEN clock ELSE unready BY <2>2 DEF TakeSlot
      <3>. QED BY <3>1
    <2>. QED BY <2>1, <2>2
  <1>3. Kept(rows', gone') BY <1>0, <1>1
  <1>4. clock' \in Nat /\ clock <= clock' BY <1>0, <1>1
  <1>5. WorldStep BY <1>1, <1>2, <1>3, <1>4 DEF WorldStep
  <1>. QED BY <1>5, WorldInv

LEMMA ReadNextInv == ASSUME ReadParameters, ReadInv, [ReadNext]_readVars PROVE ReadInv'
  <1>1. CASE UNCHANGED readVars
    <2>1. UNCHANGED <<clock, site, rows, allowance, gone, unready, cache, loads, reader>> BY <1>1 DEF readVars, dbVars
    <2>2. \A l \in DOMAIN loads' : LoadOk(loads[l], clock, gone)' BY <2>1 DEF ReadInv, LoadOk, Lasted
    <2>3. \A p \in Readers : ReaderOk(reader[p], loads, clock, unready)'
      BY <2>1 DEF ReadInv, ReaderOk, Joined, FromLoad, Labelled, DataMode, Commerce
    <2>4. (Ready => unready = Nothing)' /\ Kept(rows, gone)' /\ SlotOk(cache, loads)'
      BY <2>1 DEF ReadInv, Ready, Kept, SlotOk
    <2>. QED BY <2>1, <2>2, <2>3, <2>4 DEF ReadInv, IsSequence
  <1>2. CASE PassTime \/ TakeSlot BY <1>2, TimeInv
  <1>3. ASSUME NEW a \in Agents, ModerateRow(a) \/ StoreProbe(a) \/ Republish(a) PROVE ReadInv'
    BY <1>3, ModerateRowInv, OtherRowInv
  <1>4. ASSUME NEW p \in Readers, NEW ask \in Asks, Ask(p, ask) PROVE ReadInv' BY <1>4, AskInv
  <1>5. ASSUME NEW p \in Readers,
               RemoteAnswer(p) \/ Select(p) \/ Finish(p) \/ ServiceRead(p) \/ ServiceEvaluate(p)
        PROVE  ReadInv'
    BY <1>5, RemoteInv, SelectInv, FinishInv, ServiceInv
  <1>6. ASSUME NEW l \in DOMAIN loads, LoadQuery(l) \/ LoadProject(l) \/ LoadReference(l) \/ LoadFails(l) PROVE ReadInv'
    BY <1>6, LoadStepInv
  <1>. QED BY <1>1, <1>2, <1>3, <1>4, <1>5, <1>6 DEF ReadNext

LEMMA ReadInvIsCurrent == ASSUME ReadParameters, ReadInv PROVE AnswerIsCurrent
  <1>1. SUFFICES ASSUME NEW p \in Readers
                 PROVE  LET r == reader[p]
                            load == loads[r.load]
                        IN /\ Answered(p, "directory") =>
                                /\ load.ids = r.ids /\ load.commerce = Commerce(r.ask)
                                /\ r.start < load.ended + Ttl
                                /\ \A a \in r.answer.shown \ {Reference} : gone[a] = Nothing \/ gone[a] >= load.began
                                /\ Reference \in r.answer.hireable => unready = Nothing \/ unready >= r.start
                           /\ r.pc = "answered" /\ r.load # 0 /\ load.pc = "failed" => load.ended >= r.start
                           /\ Answered(p, "fixture") => /\ ~site.production /\ r.answer.mode \in {"fixture", "degraded"}
                                                        /\ DataMode = "live" => r.ask.preview # Nothing
    BY DEF ReadInv, AnswerIsCurrent
  <1>2. ReaderOk(reader[p], loads, clock, unready) BY DEF ReadInv
  <1>3. reader[p].load # 0 => Joined(reader[p], loads) /\ LoadOk(loads[reader[p].load], clock, gone)
    BY <1>2 DEF ReaderOk, Joined, ReadInv
  <1>4. Answered(p, "directory") => FromLoad(reader[p], loads, unready) BY <1>2 DEF ReaderOk, Answered
  <1>5. Answered(p, "fixture") => Labelled(reader[p], site) BY <1>2 DEF ReaderOk, Answered
  <1>. QED BY <1>3, <1>4, <1>5 DEF Joined, LoadOk, FromLoad, Lasted, Labelled

\* However many requests share the slot, whatever loads end, fail or are replaced meanwhile and
\* whoever is taken down, an answer is of the request's own selection and of a load recent enough,
\* and fixtures answer no live or production process (readRegisteredDirectory, withReferenceCapacity).
THEOREM AnswersAreCurrent == ASSUME ReadParameters PROVE ReadSpec => []AnswerIsCurrent
  <1>1. ReadInv /\ [ReadNext]_readVars => ReadInv' BY ReadNextInv
  <1>2. ReadInv => AnswerIsCurrent BY ReadInvIsCurrent
  <1>. QED BY <1>1, <1>2, ReadInitInv, PTL DEF ReadSpec
=============================================================================
