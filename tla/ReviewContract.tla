--------------------------- MODULE ReviewContract ---------------------------
(***************************************************************************)
(* What the verified-purchase reviews promise, as the process-local        *)
(* projection states it (InMemoryErc8183MarketplaceProjection): each       *)
(* operation is one step on the review history of a job and on the map     *)
(* from idempotency keys to the review they produced.                      *)
(***************************************************************************)
EXTENDS Naturals, Sequences, FiniteSets

CONSTANTS Jobs, Keys, None

VARIABLES settled,  \* the jobs completed and settled
          reviews,  \* reviews[j]: the history of job j, oldest first
          idem      \* the review each key produced: <<job, index>>, or None

contractVars == <<settled, reviews, idem>>

Review(rev, sup) == [state |-> "active", rev |-> rev, sup |-> sup]

activeReview(rs) == {i \in DOMAIN rs : rs[i].state = "active"}

MaxRevision(rs) == IF rs = <<>> THEN 0
                   ELSE CHOOSE n \in {rs[i].rev : i \in DOMAIN rs} : \A i \in DOMAIN rs : rs[i].rev <= n

Superseded(rs, i) == [rs EXCEPT ![i].state = "superseded"]

createReview(j, k) ==
  /\ j \in settled
  /\ idem[k] = None
  /\ activeReview(reviews[j]) = {}
  /\ reviews' = [reviews EXCEPT ![j] = Append(reviews[j], Review(MaxRevision(reviews[j]) + 1, None))]
  /\ idem' = [idem EXCEPT ![k] = <<j, Len(reviews[j]) + 1>>]
  /\ UNCHANGED settled

updateReview(j, i, k) ==
  /\ j \in settled
  /\ idem[k] = None
  /\ i \in activeReview(reviews[j])
  /\ reviews' = [reviews EXCEPT ![j] = Append(Superseded(reviews[j], i), Review(reviews[j][i].rev + 1, i))]
  /\ idem' = [idem EXCEPT ![k] = <<j, Len(reviews[j]) + 1>>]
  /\ UNCHANGED settled

revokeReview(j, i) ==
  /\ j \in settled
  /\ i \in activeReview(reviews[j])
  /\ reviews' = [reviews EXCEPT ![j][i].state = "revoked"]
  /\ UNCHANGED <<settled, idem>>

SettleJob(j) == /\ j \notin settled
                /\ settled' = settled \cup {j}
                /\ UNCHANGED <<reviews, idem>>

ContractInit == /\ settled = {}
                /\ reviews = [j \in Jobs |-> <<>>]
                /\ idem = [k \in Keys |-> None]

ContractNext == \E j \in Jobs : \/ SettleJob(j)
                                \/ \E k \in Keys : createReview(j, k)
                                \/ \E i \in DOMAIN reviews[j] : revokeReview(j, i) \/ \E k \in Keys : updateReview(j, i, k)

ContractSpec == ContractInit /\ [][ContractNext]_contractVars
=============================================================================
