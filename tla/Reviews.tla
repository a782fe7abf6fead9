------------------------------- MODULE Reviews -------------------------------
(***************************************************************************)
(* Verified-purchase reviews in PostgreSQL                                 *)
(* (PostgresErc8183MarketplaceProjection): concurrent requests of the      *)
(* buyer, each a READ COMMITTED transaction whose reads, row lock and      *)
(* commit interleave with the others'.  A commit is refused by the unique  *)
(* indexes on the active review of a result, the revision of a job and the *)
(* idempotency key of a buyer.                                             *)
(***************************************************************************)
EXTENDS Naturals, Sequences, FiniteSets

CONSTANTS Jobs, Keys,
          None,         \* undefined, or a missing row
          Requests,     \* the requests in flight
          Ops,          \* operations used: a subset of {"create", "update", "revoke"}
          MaxRequests   \* bound on the requests made

VARIABLES settled,   \* the jobs whose result row is settled
          rows,      \* rows[j]: commerce_job_reviews of job j in order of insertion
          req,       \* the requests
          made,      \* requests made
          produced   \* the row each key was first inserted with (history)

vars == <<settled, rows, req, made, produced>>

Idle == [pc |-> "idle", op |-> None, j |-> None, i |-> 0, k |-> None, rev |-> 0]

Active(j) == {i \in DOMAIN rows[j] : rows[j][i].state = "active"}

(* The row a key is found with now. *)
ByKey(k) == UNION {{<<j, i>> : i \in {n \in DOMAIN rows[j] : rows[j][n].key = k}} : j \in Jobs}

(* A row locked by an open update transaction. *)
Locked(j, i) == \E p \in Requests : req[p].op = "update" /\ req[p].pc = "insert" /\ req[p].j = j /\ req[p].i = i

Done(p) == req' = [req EXCEPT ![p] = Idle]
Goto(p, pc) == req' = [req EXCEPT ![p].pc = pc]

(* getCompletedJob: only the authenticated buyer of a settled job goes on. *)
getCompletedJob(j) == j \in settled

(* A request arrives and passes the checks made before its transaction. *)
Request(p, op, j, i, k) ==
  /\ req[p].pc = "idle"
  /\ made < MaxRequests
  /\ made' = made + 1
  /\ getCompletedJob(j)
  /\ op = "create" => i = 0
  /\ op # "create" => i \in DOMAIN rows[j]
  /\ req' = [req EXCEPT ![p] = [pc |-> IF op = "revoke" THEN "revoke" ELSE "prior",
                                op |-> op, j |-> j, i |-> i, k |-> k, rev |-> 0]]
  /\ UNCHANGED <<settled, rows, produced>>

(* A row with the key is answered as a replay. *)
Prior(p) ==
  /\ req[p].pc = "prior"
  /\ IF ByKey(req[p].k) # {} THEN Done(p) ELSE Goto(p, "lock")
  /\ UNCHANGED <<settled, rows, made, produced>>

(* SELECT ... FOR UPDATE of the active row; it waits for a lock held. *)
LockForCreate(p) ==
  /\ req[p].pc = "lock" /\ req[p].op = "create"
  /\ LET j == req[p].j
         revs == {rows[j][i].rev : i \in DOMAIN rows[j]}
     IN /\ \A i \in Active(j) : ~Locked(j, i)
        /\ IF Active(j) # {} THEN Done(p)
           ELSE req' = [req EXCEPT ![p].pc = "insert",
                                   ![p].rev = IF revs = {} THEN 1
                                              ELSE 1 + CHOOSE n \in revs : \A m \in revs : m <= n]
  /\ UNCHANGED <<settled, rows, made, produced>>

LockForUpdate(p) ==
  /\ req[p].pc = "lock" /\ req[p].op = "update"
  /\ LET j == req[p].j
         i == req[p].i
     IN /\ ~Locked(j, i)
        /\ IF i \notin Active(j) THEN Done(p)
           ELSE req' = [req EXCEPT ![p].pc = "insert", ![p].rev = rows[j][i].rev + 1]
  /\ UNCHANGED <<settled, rows, made, produced>>

(* Mutation: the indexes on the active review and the revision are gone. *)
UniqueKeyOnly(p) == ByKey(req[p].k) = {}

(* Mutation: the index on the idempotency key is gone. *)
UniqueButKey(p) == /\ Active(req[p].j) \subseteq {req[p].i}
                   /\ \A i \in DOMAIN rows[req[p].j] : rows[req[p].j][i].rev # req[p].rev

(* The unique indexes, with the row being superseded already inactive. *)
Unique(p) ==
  LET q == req[p] IN
  /\ Active(q.j) \subseteq {q.i}
  /\ \A i \in DOMAIN rows[q.j] : rows[q.j][i].rev # q.rev
  /\ ByKey(q.k) = {}

(* The rows of the job after the UPDATE and the INSERT. *)
Written(q) ==
  LET new == [state |-> "active", rev |-> q.rev, sup |-> IF q.op = "update" THEN q.i ELSE None, key |-> q.k]
  IN Append(IF q.op = "update" THEN [rows[q.j] EXCEPT ![q.i].state = "superseded"] ELSE rows[q.j], new)

(* UPDATE, INSERT and COMMIT; a unique violation rolls both back. *)
Insert(p) ==
  /\ req[p].pc = "insert"
  /\ IF Unique(p)
     THEN /\ rows' = [rows EXCEPT ![req[p].j] = Written(req[p])]
          /\ produced' = [produced EXCEPT ![req[p].k] =
                            IF @ = None THEN <<req[p].j, Len(rows[req[p].j]) + 1>> ELSE @]
          /\ Done(p)
     ELSE Goto(p, "recover") /\ UNCHANGED <<rows, produced>>
  /\ UNCHANGED <<settled, made>>

(* After a unique violation: a row with the key is a replay, otherwise the
   request fails. *)
Recover(p) ==
  /\ req[p].pc = "recover"
  /\ Done(p)
  /\ UNCHANGED <<settled, rows, made, produced>>

(* One UPDATE statement, which also replaces the row's idempotency key; a
   key in use makes it fail. *)
Revoke(p) ==
  /\ req[p].pc = "revoke"
  /\ LET q == req[p] IN
     /\ ~Locked(q.j, q.i)
     /\ rows' = IF q.i \in Active(q.j) /\ ByKey(q.k) \subseteq {<<q.j, q.i>>}
                THEN [rows EXCEPT ![q.j][q.i].state = "revoked", ![q.j][q.i].key = q.k]
                ELSE rows
  /\ Done(p)
  /\ UNCHANGED <<settled, made, produced>>

(* persistMarketplaceSettlementProjection settles a result. *)
Settle(j) == /\ j \notin settled
             /\ settled' = settled \cup {j}
             /\ UNCHANGED <<rows, req, made, produced>>

Init == /\ settled = {}
        /\ rows = [j \in Jobs |-> <<>>]
        /\ req = [p \in Requests |-> Idle]
        /\ made = 0
        /\ produced = [k \in Keys |-> None]

Step(p) == Prior(p) \/ LockForCreate(p) \/ LockForUpdate(p) \/ Insert(p) \/ Recover(p) \/ Revoke(p)

Next == \/ \E j \in Jobs : Settle(j)
        \/ \E p \in Requests, op \in Ops, j \in Jobs, k \in Keys, i \in 0..MaxRequests : Request(p, op, j, i, k)
        \/ \E p \in Requests : Step(p)

Spec == Init /\ [][Next]_vars

-----------------------------------------------------------------------------
(* The contract the in-memory projection states. *)
Contract == INSTANCE ReviewContract WITH
  reviews <- [j \in Jobs |-> [i \in DOMAIN rows[j] |->
                [state |-> rows[j][i].state, rev |-> rows[j][i].rev, sup |-> rows[j][i].sup]]],
  idem <- produced

(* A revocation gives its row another key, and a request with the earlier
   key is no longer answered as a replay. *)
Revoked == \E j \in Jobs : \E i \in DOMAIN rows[j] : rows[j][i].state = "revoked"

(* The Postgres projection implements the contract of the in-memory one
   that the tests use: up to the first revocation each transaction, however
   it interleaves with others, has the effect of one call or none, and a
   repeated key has none. *)
ImplementsContract == /\ Contract!ContractInit
                      /\ [][~Revoked => Contract!ContractNext]_<<settled, rows, produced>>

(* The reviews shown: the active one of each settled result. *)
readForIdentity == UNION {{<<j, i>> : i \in Active(j)} : j \in settled}

(* readForIdentity shows at most one review of a settled job, and none of
   a job that is not settled: concurrent creates and updates never leave
   two active rows. *)
OneVerifiedReview == \A j \in Jobs : /\ Cardinality({x \in readForIdentity : x[1] = j}) <= 1
                                     /\ rows[j] # <<>> => j \in settled
=============================================================================
