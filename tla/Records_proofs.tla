---------------------------- MODULE Records_proofs ----------------------------
(***************************************************************************)
(* The records kept beside the escrow.                                     *)
(*                                                                         *)
(* Reviews: what the unique indexes and the row lock buy, for any number   *)
(* of jobs, keys and concurrent requests (Reviews satisfies                *)
(* OneVerifiedReview, and until a review is revoked every step of it is    *)
(* one of ReviewContract or leaves the reviews alone).                     *)
(*                                                                         *)
(* Payments: PaymentGateway satisfies PaidOnce for any number of attempts, *)
(* callers, keys and receipts.                                             *)
(*                                                                         *)
(* Publication: Greenfield satisfies VerifiedEvidence, GreenfieldBucket    *)
(* satisfies ReceiptIsOurs, whatever fails and however many calls run.     *)
(*                                                                         *)
(* Evidence: PhaseZero satisfies PassedIsTrue, FrozenEvidence satisfies    *)
(* EvidenceIsSettled.                                                      *)
(***************************************************************************)
EXTENDS Reviews, RecordsPromise, FiniteSetTheorems, TLAPS

CONSTANTS Challenges, ReceiptIds, Statuses, Observed, Outside, MaxCalls

VARIABLES replay, call, late, calls,  \* PaymentGateway
          canaryBucketUnknown, pc      \* GreenfieldBucket

Payment == INSTANCE PaymentGateway
Bucket == INSTANCE GreenfieldBucket WITH Instances <- Callers

-----------------------------------------------------------------------------
(***************************************************************************)
(* Reviews.                                                                *)
(*                                                                         *)
(* The revisions of a job are 1, 2, 3, ... in the order of their rows.  A  *)
(* request may hold an outdated revision when it inserts; the row with     *)
(* that revision then exists and the index on it refuses the insert.  The  *)
(* row a request is about to supersede stays active, because it holds its  *)
(* lock.                                                                   *)
(***************************************************************************)

Row == [state : {"active", "superseded", "revoked"}, rev : Nat, sup : Nat \cup {None}, key : Keys]
Writing == {"prior", "lock", "insert", "recover"}
RequestState == [pc : {"idle", "revoke"} \cup Writing, op : {"create", "update", "revoke", None},
                 j : Jobs \cup {None}, i : Nat, k : Keys \cup {None}, rev : Nat]

\* The operations the runs use, and None is none of them.
Parameters == Ops \subseteq {"create", "update", "revoke"} /\ MaxRequests \in Nat

TypeInv ==
  /\ settled \subseteq Jobs
  /\ rows \in [Jobs -> Seq(Row)]
  /\ req \in [Requests -> RequestState]
  /\ produced \in [Keys -> (Jobs \X Nat) \cup {None}]

RowsInv ==
  \A j \in Jobs :
    /\ rows[j] # <<>> => j \in settled
    /\ \A i \in DOMAIN rows[j] : rows[j][i].rev = i
    /\ \A i, m \in Active(j) : i = m

\* What a request in progress knows of the rows.
Sound(q) ==
  /\ q.pc # "idle" => /\ q.j \in settled /\ q.k \in Keys /\ q.op \in Ops
                      /\ q.op = "create" => q.i = 0
                      /\ q.op # "create" => q.i \in DOMAIN rows[q.j]
                      /\ q.pc \in Writing => q.op \in {"create", "update"}
                      /\ q.pc = "revoke" => q.op = "revoke"
  /\ q.pc = "insert" => q.rev \in 1..(Len(rows[q.j]) + 1)
  /\ q.pc = "insert" /\ q.op = "update" => q.i \in Active(q.j) /\ q.rev = q.i + 1

Holds(q) == q.pc = "insert" /\ q.op = "update"

RequestInv ==
  /\ \A p \in Requests : Sound(req[p])
  /\ \A p, q \in Requests :
       p # q /\ Holds(req[p]) /\ Holds(req[q]) => req[p].j # req[q].j \/ req[p].i # req[q].i

Inv == TypeInv /\ RowsInv /\ RequestInv

-----------------------------------------------------------------------------
LEMMA InitInv == Init => Inv
  BY DEF Init, Inv, TypeInv, RowsInv, RequestInv, Sound, Holds, Idle, RequestState, Active

LEMMA IdleState == Idle \in RequestState /\ Idle.pc = "idle"
  BY DEF Idle, RequestState

\* A step that changes one request and no row.
LEMMA RequestStepInv ==
  ASSUME Inv, NEW p \in Requests, NEW new \in RequestState, req' = [req EXCEPT ![p] = new],
         UNCHANGED <<settled, rows, produced>>, Sound(new),
         Holds(new) => \A q \in Requests \ {p} : Holds(req[q]) => req[q].j # new.j \/ req[q].i # new.i
  PROVE  Inv'
  <1>1. req'[p] = new /\ \A q \in Requests \ {p} : req'[q] = req[q] BY DEF Inv, TypeInv
  <1>2. TypeInv' BY DEF Inv, TypeInv
  <1>3. RowsInv' BY DEF Inv, RowsInv, Active
  <1>4. RequestInv' BY <1>1 DEF Inv, RequestInv, Sound, Active, Holds
  <1>. QED BY <1>2, <1>3, <1>4 DEF Inv

LEMMA DoneInv ==
  ASSUME Inv, NEW p \in Requests, Done(p), UNCHANGED <<settled, rows, produced>> PROVE Inv'
  BY IdleState, RequestStepInv DEF Done, Sound, Holds

LEMMA SettleInv ==
  ASSUME Inv, NEW j \in Jobs, Settle(j) PROVE Inv'
  BY DEF Settle, Inv, TypeInv, RowsInv, RequestInv, Sound, Holds, Active

LEMMA RequestInvStep ==
  ASSUME Parameters, Inv, NEW p \in Requests, NEW op \in Ops, NEW j \in Jobs, NEW k \in Keys,
         NEW i \in 0..MaxRequests, Request(p, op, j, i, k)
  PROVE  Inv'
  <1> DEFINE new == [pc |-> IF op = "revoke" THEN "revoke" ELSE "prior",
                     op |-> op, j |-> j, i |-> i, k |-> k, rev |-> 0]
  <1>1. /\ new.pc \in {"revoke", "prior"} /\ (new.pc = "prior" <=> op # "revoke")
        /\ new.op = op /\ new.j = j /\ new.i = i /\ new.k = k
    OBVIOUS
  <1>2. new \in RequestState BY DEF RequestState, Parameters, Writing
  <1>3. req' = [req EXCEPT ![p] = new] /\ UNCHANGED <<settled, rows, produced>> BY DEF Request
  <1>4. j \in settled /\ (op = "create" => i = 0) /\ (op # "create" => i \in DOMAIN rows[j])
    BY DEF Request, getCompletedJob
  <1> HIDE DEF new
  <1>5. Sound(new) /\ ~Holds(new) BY <1>1, <1>4 DEF Sound, Holds, Writing, Parameters
  <1>. QED BY <1>2, <1>3, <1>5, RequestStepInv

LEMMA PriorInv ==
  ASSUME Inv, NEW p \in Requests, Prior(p) PROVE Inv'
  <1>1. UNCHANGED <<settled, rows, produced>> BY DEF Prior
  <1>2. CASE Done(p) BY <1>1, <1>2, DoneInv
  <1>3. CASE Goto(p, "lock")
    <2> DEFINE new == [req[p] EXCEPT !.pc = "lock"]
    <2>1. req[p] \in RequestState /\ req[p].pc = "prior" /\ Sound(req[p])
      BY DEF Prior, Inv, TypeInv, RequestInv
    <2>2. new \in RequestState /\ Sound(new) /\ ~Holds(new)
      BY <2>1 DEF RequestState, Sound, Holds, Writing
    <2>3. req' = [req EXCEPT ![p] = new] BY <1>3 DEF Goto
    <2>. QED BY <1>1, <2>2, <2>3, RequestStepInv
  <1>. QED BY <1>2, <1>3 DEF Prior

\* The next revision of a job, as the insert of a create computes it.
LEMMA NextRevision ==
  ASSUME Inv, NEW j \in Jobs, rows[j] # <<>>
  PROVE  LET revs == {rows[j][i].rev : i \in DOMAIN rows[j]}
         IN  (CHOOSE n \in revs : \A m \in revs : m <= n) = Len(rows[j])
  <1> DEFINE revs == {rows[j][i].rev : i \in DOMAIN rows[j]}
  <1>1. rows[j] \in Seq(Row) /\ Len(rows[j]) \in Nat /\ Len(rows[j]) > 0
    BY DEF Inv, TypeInv
  <1>2. revs = 1..Len(rows[j]) BY <1>1 DEF Inv, RowsInv
  <1> HIDE DEF revs
  <1>3. \A n \in revs : (\A m \in revs : m <= n) <=> n = Len(rows[j]) BY <1>1, <1>2
  <1>4. Len(rows[j]) \in revs BY <1>1, <1>2
  <1>5. (CHOOSE n \in revs : \A m \in revs : m <= n) = Len(rows[j]) BY <1>3, <1>4
  <1>. QED BY <1>5 DEF revs

LEMMA LockForCreateInv ==
  ASSUME Inv, NEW p \in Requests, LockForCreate(p) PROVE Inv'
  <1> DEFINE j == req[p].j
             revs == {rows[j][i].rev : i \in DOMAIN rows[j]}
             top == CHOOSE n \in revs : \A m \in revs : m <= n
             next == IF revs = {} THEN 1 ELSE 1 + top
             new == [req[p] EXCEPT !.pc = "insert", !.rev = next]
  <1>1. /\ req[p] \in RequestState /\ req[p].pc = "lock" /\ req[p].op = "create" /\ Sound(req[p])
        /\ j \in Jobs /\ rows[j] \in Seq(Row)
    BY DEF LockForCreate, Inv, TypeInv, RequestInv, Sound
  <1>2. UNCHANGED <<settled, rows, produced>> BY DEF LockForCreate
  <1>3. CASE Done(p) BY <1>2, <1>3, DoneInv
  <1>4. CASE req' = [req EXCEPT ![p] = new]
    <2>1. next = Len(rows[j]) + 1
      <3>1. CASE rows[j] = <<>> BY <1>1, <3>1
      <3>2. CASE rows[j] # <<>>
        <4>1. 1 \in DOMAIN rows[j] /\ rows[j][1].rev \in revs BY <1>1, <3>2
        <4>2. top = Len(rows[j]) BY <1>1, <3>2, NextRevision
        <4> HIDE DEF revs, top
        <4>. QED BY <1>1, <4>1, <4>2
      <3>. QED BY <3>1, <3>2
    <2> HIDE DEF next
    <2>2. /\ new \in RequestState /\ new.pc = "insert" /\ new.rev = Len(rows[j]) + 1
          /\ new.op = "create" /\ new.j = j /\ new.i = req[p].i /\ new.k = req[p].k
      <3>1. next \in Nat BY <1>1, <2>1
      <3>. QED BY <1>1, <2>1, <3>1 DEF RequestState, Writing
    <2> HIDE DEF new
    <2>3. Sound(new) /\ ~Holds(new) BY <1>1, <2>2 DEF Sound, Holds, Writing
    <2>. QED BY <1>2, <1>4, <2>2, <2>3, RequestStepInv
  <1>. QED BY <1>3, <1>4 DEF LockForCreate

LEMMA LockForUpdateInv ==
  ASSUME Inv, NEW p \in Requests, LockForUpdate(p) PROVE Inv'
  <1> DEFINE j == req[p].j
             i == req[p].i
             new == [req[p] EXCEPT !.pc = "insert", !.rev = rows[j][i].rev + 1]
  <1>1. /\ req[p] \in RequestState /\ req[p].pc = "lock" /\ req[p].op = "update" /\ Sound(req[p])
        /\ j \in Jobs /\ rows[j] \in Seq(Row)
    BY DEF LockForUpdate, Inv, TypeInv, RequestInv, Sound
  <1>2. UNCHANGED <<settled, rows, produced>> BY DEF LockForUpdate
  <1>3. CASE Done(p) BY <1>2, <1>3, DoneInv
  <1>4. CASE i \in Active(j) /\ req' = [req EXCEPT ![p] = new]
    <2>1. i \in 1..Len(rows[j]) /\ rows[j][i].rev = i BY <1>1, <1>4 DEF Active, Inv, RowsInv
    <2>2. /\ new \in RequestState /\ new.pc = "insert" /\ new.rev = i + 1
          /\ new.op = "update" /\ new.j = j /\ new.i = i /\ new.k = req[p].k
      <3>1. rows[j][i].rev + 1 = i + 1 /\ i + 1 \in Nat BY <1>1, <2>1
      <3>2. new = [req[p] EXCEPT !.pc = "insert", !.rev = i + 1] BY <3>1
      <3>. QED BY <1>1, <3>1, <3>2 DEF RequestState, Writing
    <2>3. \A q \in Requests : Holds(req[q]) => req[q].j # j \/ req[q].i # i
      BY DEF LockForUpdate, Locked, Holds
    <2> HIDE DEF new
    <2>4. Sound(new) BY <1>1, <1>4, <2>1, <2>2 DEF Sound, Writing
    <2>. QED BY <1>2, <1>4, <2>2, <2>3, <2>4, RequestStepInv
  <1>. QED BY <1>3, <1>4 DEF LockForUpdate

LEMMA RecoverInv ==
  ASSUME Inv, NEW p \in Requests, Recover(p) PROVE Inv'
  BY DoneInv DEF Recover

\* The one revision and the one row an insert that is not refused can have.
LEMMA InsertFacts ==
  ASSUME Inv, NEW p \in Requests, req[p].pc = "insert", Unique(p)
  PROVE  LET q == req[p]
         IN /\ q \in RequestState /\ q.j \in settled /\ q.j \in Jobs /\ q.k \in Keys
            /\ rows[q.j] \in Seq(Row) /\ q.rev = Len(rows[q.j]) + 1
            /\ q.op \in {"create", "update"}
            /\ q.op = "create" => Active(q.j) = {}
            /\ q.op = "update" => /\ Active(q.j) = {q.i} /\ q.i \in DOMAIN rows[q.j]
                                 /\ q.rev = q.i + 1
            /\ ByKey(q.k) = {}
  <1> DEFINE q == req[p]
  <1>1. q \in RequestState /\ Sound(q) /\ settled \subseteq Jobs BY DEF Inv, TypeInv, RequestInv
  <1>2. /\ q.j \in settled /\ q.j \in Jobs /\ q.k \in Keys /\ q.op \in {"create", "update"}
        /\ q.rev \in 1..(Len(rows[q.j]) + 1) /\ q.rev \in Nat
        /\ q.op = "create" => q.i = 0
        /\ q.op = "update" => q.i \in Active(q.j) /\ q.rev = q.i + 1
    BY <1>1 DEF Sound, Writing, RequestState
  <1>3. rows[q.j] \in Seq(Row) /\ DOMAIN rows[q.j] = 1..Len(rows[q.j]) /\ Len(rows[q.j]) \in Nat
    BY <1>2 DEF Inv, TypeInv
  <1>4. \A i \in DOMAIN rows[q.j] : rows[q.j][i].rev = i BY <1>2 DEF Inv, RowsInv
  <1>5. Active(q.j) \subseteq DOMAIN rows[q.j] BY DEF Active
  <1>6. Active(q.j) \subseteq {q.i} /\ ByKey(q.k) = {} /\ \A i \in DOMAIN rows[q.j] : rows[q.j][i].rev # q.rev
    BY DEF Unique
  <1>7. q.rev \notin 1..Len(rows[q.j]) BY <1>3, <1>4, <1>6
  <1>8. q.rev = Len(rows[q.j]) + 1 BY <1>2, <1>3, <1>7
  <1>9. q.op = "create" => Active(q.j) = {} BY <1>2, <1>3, <1>5, <1>6
  <1>10. q.op = "update" => Active(q.j) = {q.i} /\ q.i \in DOMAIN rows[q.j] BY <1>2, <1>5, <1>6
  <1>. QED BY <1>1, <1>2, <1>3, <1>6, <1>8, <1>9, <1>10


\* The rows of a job after an insert.
LEMMA WrittenFacts ==
  ASSUME Inv, NEW p \in Requests, req[p].pc = "insert", Unique(p)
  PROVE  LET q == req[p]
             rs == rows[q.j]
             w == Written(q)
             new == [state |-> "active", rev |-> q.rev, sup |-> IF q.op = "update" THEN q.i ELSE None, key |-> q.k]
         IN /\ w \in Seq(Row) /\ Len(w) = Len(rs) + 1 /\ w[Len(rs) + 1] = new
            /\ \A i \in 1..Len(rs) : w[i] = IF q.op = "update" /\ i = q.i
                                            THEN [rs[i] EXCEPT !.state = "superseded"] ELSE rs[i]
  <1> DEFINE q == req[p]
             rs == rows[q.j]
             new == [state |-> "active", rev |-> q.rev, sup |-> IF q.op = "update" THEN q.i ELSE None, key |-> q.k]
             old == IF q.op = "update" THEN [rs EXCEPT ![q.i].state = "superseded"] ELSE rs
  <1>1. /\ q \in RequestState /\ q.k \in Keys /\ rs \in Seq(Row)
        /\ q.op = "update" => q.i \in DOMAIN rs
    BY InsertFacts
  <1>2. new \in Row BY <1>1 DEF Row, RequestState
  <1>3. /\ old \in Seq(Row) /\ Len(old) = Len(rs)
        /\ \A i \in 1..Len(rs) : old[i] = IF q.op = "update" /\ i = q.i
                                          THEN [rs[i] EXCEPT !.state = "superseded"] ELSE rs[i]
    <2>1. CASE q.op # "update" BY <1>1, <2>1
    <2>2. CASE q.op = "update"
      <3> DEFINE x == [rs[q.i] EXCEPT !.state = "superseded"]
      <3>1. rs[q.i] \in Row /\ q.i \in 1..Len(rs) BY <1>1, <2>2
      <3>2. x \in Row BY <3>1 DEF Row
      <3>3. old = [rs EXCEPT ![q.i] = x] BY <1>1, <2>2
      <3> HIDE DEF x
      <3>4. old \in Seq(Row) /\ Len(old) = Len(rs) /\ old[q.i] = x
        <4> DEFINE n == q.i
        <4> HIDE DEF n, rs, old
        <4>1. n \in 1..Len(rs) /\ rs \in Seq(Row) BY <1>1, <3>1 DEF n
        <4>2. old = [rs EXCEPT ![n] = x] BY <3>3 DEF n
        <4>. QED BY <3>2, <4>1, <4>2 DEF n
      <3>5. \A i \in 1..Len(rs) : i # q.i => old[i] = rs[i] BY <1>1, <3>3
      <3>. QED BY <2>2, <3>4, <3>5 DEF x
    <2>. QED BY <2>1, <2>2
  <1>4. Written(q) = Append(old, new) BY DEF Written
  <1> HIDE DEF old, new
  <1>5. /\ Append(old, new) \in Seq(Row) /\ Len(Append(old, new)) = Len(rs) + 1
        /\ Append(old, new)[Len(rs) + 1] = new
        /\ \A i \in 1..Len(rs) : Append(old, new)[i] = old[i]
    BY <1>1, <1>2, <1>3
  <1>6. \A i \in 1..Len(rs) : Written(q)[i] = IF q.op = "update" /\ i = q.i
                                            THEN [rs[i] EXCEPT !.state = "superseded"] ELSE rs[i]
    BY <1>3, <1>4, <1>5
  <1>. QED BY <1>4, <1>5, <1>6 DEF new

\* An insert that no index refuses leaves one active row in the job, and takes no row
\* away from a request that holds its lock.
LEMMA InsertInv ==
  ASSUME Inv, NEW p \in Requests, Insert(p) PROVE Inv'
  <1>0. PICK q : q = req[p] OBVIOUS
  <1>1. q \in RequestState /\ q.pc = "insert" /\ Sound(q) BY <1>0 DEF Insert, Inv, TypeInv, RequestInv
  <1>2. CASE ~Unique(p)
    <2> DEFINE new == [q EXCEPT !.pc = "recover"]
    <2>1. req' = [req EXCEPT ![p] = new] /\ UNCHANGED <<settled, rows, produced>>
      BY <1>0, <1>2 DEF Insert, Goto
    <2>2. new \in RequestState /\ Sound(new) /\ ~Holds(new)
      BY <1>1 DEF RequestState, Sound, Holds, Writing
    <2>. QED BY <2>1, <2>2, RequestStepInv
  <1>3. CASE Unique(p)
    <2>1. PICK j : j = q.j OBVIOUS
    <2>2. PICK n : n = Len(rows[j]) OBVIOUS
    <2>3. PICK w : w = Written(q) OBVIOUS
    <2>4. /\ j \in settled /\ j \in Jobs /\ q.k \in Keys /\ rows[j] \in Seq(Row)
          /\ q.rev = n + 1 /\ q.op \in {"create", "update"}
          /\ q.op = "create" => Active(j) = {}
          /\ q.op = "update" => Active(j) = {q.i} /\ q.i \in DOMAIN rows[j]
      BY <1>0, <1>1, <1>3, <2>1, <2>2, InsertFacts
    <2>5. n \in Nat /\ DOMAIN rows[j] = 1..n BY <2>2, <2>4
    <2>6. /\ w \in Seq(Row) /\ Len(w) = n + 1 /\ DOMAIN w = 1..(n + 1)
          /\ w[n + 1].state = "active" /\ w[n + 1].rev = n + 1
          /\ \A i \in 1..n : /\ w[i].rev = rows[j][i].rev
                              /\ w[i].state = IF q.op = "update" /\ i = q.i THEN "superseded" ELSE rows[j][i].state
      <3>1. /\ w \in Seq(Row) /\ Len(w) = n + 1
            /\ w[n + 1] = [state |-> "active", rev |-> q.rev, sup |-> IF q.op = "update" THEN q.i ELSE None, key |-> q.k]
            /\ \A i \in 1..n : w[i] = IF q.op = "update" /\ i = q.i
                                        THEN [rows[j][i] EXCEPT !.state = "superseded"] ELSE rows[j][i]
        BY <1>0, <1>1, <1>3, <2>1, <2>2, <2>3, WrittenFacts
      <3>2. \A i \in 1..n : rows[j][i] \in Row BY <2>4, <2>5
      <3>3. DOMAIN w = 1..(n + 1) /\ w[n + 1].state = "active" /\ w[n + 1].rev = n + 1
        BY <2>4, <2>5, <3>1
      <3>4. ASSUME NEW i \in 1..n
            PROVE  /\ w[i].rev = rows[j][i].rev
                   /\ w[i].state = IF q.op = "update" /\ i = q.i THEN "superseded" ELSE rows[j][i].state
        BY <3>1, <3>2 DEF Row
      <3>. QED BY <3>1, <3>3, <3>4
    <2>7. /\ rows' = [rows EXCEPT ![j] = w] /\ req' = [req EXCEPT ![p] = Idle] /\ UNCHANGED settled
          /\ produced' = [produced EXCEPT ![q.k] = IF @ = None THEN <<j, n + 1>> ELSE @]
      BY <1>0, <1>3, <2>1, <2>2, <2>3 DEF Insert, Done
    <2>8. rows'[j] = w /\ \A m \in Jobs \ {j} : rows'[m] = rows[m]
      BY <2>4, <2>7 DEF Inv, TypeInv
    <2>9. TypeInv'
      <3>1. <<j, n + 1>> \in Jobs \X Nat BY <2>4, <2>5
      <3>. QED BY <2>4, <2>6, <2>7, <3>1, IdleState DEF Inv, TypeInv
    <2>10. \A i \in DOMAIN w : w[i].state = "active" <=> i = n + 1
      <3>1. \A i \in 1..n : rows[j][i].state = "active" => i \in Active(j) BY <2>5 DEF Active
      <3>2. ASSUME NEW i \in 1..n PROVE w[i].state # "active"
        <4>1. w[i].state = "active" => i \in Active(j) /\ ~(q.op = "update" /\ i = q.i) BY <2>6, <3>1
        <4>. QED BY <2>4, <4>1
      <3>. QED BY <2>5, <2>6, <3>2
    <2>11. RowsInv'
      <3> SUFFICES ASSUME NEW m \in Jobs
                   PROVE  (/\ rows[m] # <<>> => m \in settled
                           /\ \A i \in DOMAIN rows[m] : rows[m][i].rev = i
                           /\ \A i, k \in Active(m) : i = k)'
        BY DEF RowsInv
      <3>1. CASE m # j BY <2>7, <2>8, <3>1 DEF Inv, RowsInv, Active
      <3>2. CASE m = j
        <4>1. \A i \in 1..n : rows[j][i].rev = i BY <2>4, <2>5 DEF Inv, RowsInv
        <4>2. ASSUME NEW i \in 1..(n + 1) PROVE w[i].rev = i
          <5>1. i \in 1..n \/ i = n + 1 BY <2>5
          <5>2. \A k \in 1..n : w[k].rev = rows[j][k].rev BY <2>6
          <5>3. w[n + 1].rev = n + 1 BY <2>6
          <5>. QED BY <4>1, <5>1, <5>2, <5>3
        <4>3. \A i \in Active(j)' : i = n + 1 BY <2>8, <2>10 DEF Active
        <4>. QED BY <2>4, <2>6, <2>7, <2>8, <3>2, <4>2, <4>3 DEF Active
      <3>. QED BY <3>1, <3>2
    <2>12. req'[p] = Idle /\ \A r \in Requests \ {p} : req'[r] = req[r]
      BY <2>7 DEF Inv, TypeInv
    <2>13. \A r \in Requests \ {p} : Holds(req[r]) => req[r].j # j
      <3> SUFFICES ASSUME NEW r \in Requests \ {p}, Holds(req[r]), req[r].j = j PROVE FALSE OBVIOUS
      <3>1. req[r].i \in Active(j) BY DEF Inv, RequestInv, Sound, Holds
      <3>2. q.op = "update" /\ req[r].i = q.i BY <2>4, <3>1
      <3>. QED BY <1>0, <1>1, <2>1, <3>2 DEF Inv, RequestInv, Holds
    <2>14. RequestInv'
      <3>1. \A r \in Requests : Sound(req[r])'
        <4> SUFFICES ASSUME NEW r \in Requests PROVE Sound(req[r])' OBVIOUS
        <4>1. CASE r = p BY <2>12, <4>1, IdleState DEF Sound
        <4>2. CASE r # p
          <5>1. req'[r] = req[r] /\ Sound(req[r]) /\ req[r] \in RequestState
            BY <2>12, <4>2 DEF Inv, TypeInv, RequestInv
          <5>2. CASE req[r].j # j
            <6>1. req[r].j \in settled => rows'[req[r].j] = rows[req[r].j] BY <2>8, <5>2 DEF Inv, TypeInv
            <6>. QED BY <2>7, <5>1, <6>1 DEF Sound, Active
          <5>3. CASE req[r].j = j
            BY <2>5, <2>6, <2>7, <2>8, <2>13, <4>2, <5>1, <5>3 DEF Sound, Holds, RequestState
          <5>. QED BY <5>2, <5>3
        <4>. QED BY <4>1, <4>2
      <3>. QED BY <2>12, <3>1, IdleState DEF Inv, RequestInv, Holds
    <2>. QED BY <2>9, <2>11, <2>14 DEF Inv
  <1>. QED BY <1>2, <1>3

LEMMA RevokeInv ==
  ASSUME Inv, NEW p \in Requests, Revoke(p) PROVE Inv'
  <1>0. PICK q : q = req[p] OBVIOUS
  <1>1. /\ q \in RequestState /\ q.pc = "revoke" /\ Sound(q) /\ Done(p)
        /\ UNCHANGED <<settled, produced>>
    BY <1>0 DEF Revoke, Inv, TypeInv, RequestInv
  <1>2. CASE UNCHANGED rows BY <1>1, <1>2, DoneInv
  <1>3. CASE q.i \in Active(q.j) /\ rows' = [rows EXCEPT ![q.j][q.i].state = "revoked", ![q.j][q.i].key = q.k]
    <2>1. PICK j : j = q.j OBVIOUS
    <2>2. /\ j \in settled /\ j \in Jobs /\ q.k \in Keys /\ rows[j] \in Seq(Row)
          /\ q.i \in DOMAIN rows[j] /\ rows[j][q.i] \in Row
      BY <1>1, <1>3, <2>1 DEF Sound, Active, Inv, TypeInv
    <2> DEFINE x == [rows[j][q.i] EXCEPT !.state = "revoked", !.key = q.k]
               w == [rows[j] EXCEPT ![q.i] = x]
    <2>3. x \in Row /\ x.state = "revoked" /\ x.rev = rows[j][q.i].rev BY <2>2 DEF Row
    <2>4. rows' = [rows EXCEPT ![j] = w] BY <1>3, <2>1, <2>2 DEF Inv, TypeInv
    <2> HIDE DEF x
    <2>5. /\ w \in Seq(Row) /\ DOMAIN w = DOMAIN rows[j] /\ Len(w) = Len(rows[j]) /\ w[q.i] = x
          /\ \A i \in DOMAIN rows[j] : i # q.i => w[i] = rows[j][i]
      BY <2>2, <2>3
    <2> HIDE DEF w
    <2>6. rows'[j] = w /\ \A m \in Jobs \ {j} : rows'[m] = rows[m] BY <2>2, <2>4 DEF Inv, TypeInv
    <2>7. req'[p] = Idle /\ \A r \in Requests \ {p} : req'[r] = req[r] BY <1>1 DEF Done, Inv, TypeInv
    <2>8. TypeInv' BY <1>1, <2>4, <2>5, IdleState DEF Done, Inv, TypeInv
    <2>9. RowsInv' BY <1>1, <2>2, <2>3, <2>5, <2>6 DEF Inv, RowsInv, Active
    <2>10. \A r \in Requests \ {p} : Holds(req[r]) => req[r].j # j \/ req[r].i # q.i
      BY <1>0, <2>1 DEF Revoke, Locked, Holds
    <2>11. \A r \in Requests : Sound(req[r])'
      <3> SUFFICES ASSUME NEW r \in Requests PROVE Sound(req[r])' OBVIOUS
      <3>1. CASE r = p BY <2>7, <3>1, IdleState DEF Sound
      <3>2. CASE r # p
        <4>1. req'[r] = req[r] /\ Sound(req[r]) /\ req[r] \in RequestState
          BY <2>7, <3>2 DEF Inv, TypeInv, RequestInv
        <4>2. CASE req[r].j # j
          <5>1. req[r].j \in settled => rows'[req[r].j] = rows[req[r].j] BY <2>6, <4>2 DEF Inv, TypeInv
          <5>. QED BY <1>1, <4>1, <5>1 DEF Sound, Active
        <4>3. CASE req[r].j = j
          BY <1>1, <2>5, <2>6, <2>10, <3>2, <4>1, <4>3 DEF Sound, Holds, Active
        <4>. QED BY <4>2, <4>3
      <3>. QED BY <3>1, <3>2
    <2>12. RequestInv' BY <2>7, <2>11, IdleState DEF Inv, RequestInv, Holds
    <2>. QED BY <2>8, <2>9, <2>12 DEF Inv
  <1>. QED BY <1>0, <1>2, <1>3 DEF Revoke

LEMMA NextInv == ASSUME Parameters, Inv, [Next]_vars PROVE Inv'
  <1>1. CASE UNCHANGED vars
    BY <1>1 DEF vars, Inv, TypeInv, RowsInv, RequestInv, Sound, Holds, Active
  <1>2. CASE \E j \in Jobs : Settle(j) BY <1>2, SettleInv
  <1>3. CASE \E p \in Requests, op \in Ops, j \in Jobs, k \in Keys, i \in 0..MaxRequests : Request(p, op, j, i, k)
    BY <1>3, RequestInvStep
  <1>4. CASE \E p \in Requests : Step(p)
    BY <1>4, PriorInv, LockForCreateInv, LockForUpdateInv, InsertInv, RecoverInv, RevokeInv DEF Step
  <1>. QED BY <1>1, <1>2, <1>3, <1>4 DEF Next

LEMMA OneReviewEach == Inv => OneVerifiedReview
  <1> SUFFICES ASSUME Inv, NEW j \in Jobs
               PROVE  /\ Cardinality({x \in readForIdentity : x[1] = j}) <= 1
                      /\ rows[j] # <<>> => j \in settled
    BY DEF OneVerifiedReview
  <1> DEFINE S == {x \in readForIdentity : x[1] = j}
  <1>1. \A x \in S : \E i \in Active(j) : x = <<j, i>> BY DEF readForIdentity
  <1>2. \A x, y \in S : x = y BY <1>1 DEF Inv, RowsInv
  <1>3. S = {} \/ \E x : S = {x} BY <1>2
  <1> HIDE DEF S
  <1>4. Cardinality(S) \in {0, 1}
    <2>1. CASE S = {} BY <2>1, FS_EmptySet
    <2>2. CASE \E x : S = {x}
      <3>1. PICK x : S = {x} BY <2>2
      <3>2. Cardinality({x}) = 1 BY FS_Singleton, Zenon
      <3>. QED BY <3>1, <3>2
    <2>. QED BY <1>3, <2>1, <2>2
  <1>5. Cardinality(S) <= 1 BY <1>4
  <1>. QED BY <1>5 DEF S, Inv, RowsInv

\* Concurrent creates, updates and revocations never leave two active reviews of one
\* job, nor one of a job that is not settled (readForIdentity): the checks made before
\* the transaction may all be outdated, the unique indexes and the row lock are not.
THEOREM OneReview == ASSUME Parameters PROVE Spec => []OneVerifiedReview
  <1>1. Inv /\ [Next]_vars => Inv' BY NextInv
  <1>. QED BY <1>1, InitInv, OneReviewEach, PTL DEF Spec

-----------------------------------------------------------------------------
(* The refinement, up to the first revocation: it gives its row another    *)
(* key, so that a repeated key no longer finds what it produced.           *)

\* A key that produced a row is still found with one.
KeysInv == ~Revoked => \A k \in Keys : produced[k] # None => ByKey(k) # {}

RefinementInv == Inv /\ KeysInv

\* The history of a job as the contract has it.
Shown(rs) == [i \in DOMAIN rs |-> [state |-> rs[i].state, rev |-> rs[i].rev, sup |-> rs[i].sup]]
Bar == [j \in Jobs |-> Shown(rows[j])]

LEMMA InitKeys == Init => KeysInv
  BY DEF Init, KeysInv, Revoked

LEMMA SteadyKeys == KeysInv /\ UNCHANGED <<rows, produced>> => KeysInv'
  BY DEF KeysInv, ByKey, Revoked

\* The same with the steps that leave the reviews alone told apart.
LEMMA StepKinds ==
  ASSUME [Next]_vars
  PROVE  \/ UNCHANGED <<settled, rows, produced>>
         \/ \E j \in Jobs : Settle(j)
         \/ \E p \in Requests : Insert(p) /\ Unique(p)
         \/ \E p \in Requests : Revoke(p) /\ rows' # rows
  <1>1. CASE UNCHANGED vars BY <1>1 DEF vars
  <1>2. CASE \E j \in Jobs : Settle(j) BY <1>2
  <1>3. CASE \E p \in Requests, op \in Ops, j \in Jobs, k \in Keys, i \in 0..MaxRequests : Request(p, op, j, i, k)
    BY <1>3 DEF Request
  <1>4. ASSUME NEW p \in Requests, Step(p)
        PROVE  UNCHANGED <<settled, rows, produced>> \/ (Insert(p) /\ Unique(p)) \/ (Revoke(p) /\ rows' # rows)
    <2>1. CASE Revoke(p) BY <2>1 DEF Revoke
    <2>2. CASE Prior(p) \/ LockForCreate(p) \/ LockForUpdate(p) \/ Recover(p)
      BY <2>2 DEF Prior, LockForCreate, LockForUpdate, Recover
    <2>3. CASE Insert(p) BY <2>3 DEF Insert
    <2>. QED BY <1>4, <2>1, <2>2, <2>3 DEF Step
  <1>. QED BY <1>1, <1>2, <1>3, <1>4 DEF Next

\* An insert with a key that is not in use has one step of the contract's effect: a
\* review more, the superseded one marked, and the key bound to the new review.
LEMMA InsertEffect ==
  ASSUME RefinementInv, ~Revoked, NEW p \in Requests, Insert(p), Unique(p)
  PROVE  LET q == req[p]
             rs == rows[q.j]
             old == IF q.op = "update" THEN [Shown(rs) EXCEPT ![q.i].state = "superseded"] ELSE Shown(rs)
             new == [state |-> "active", rev |-> Len(rs) + 1, sup |-> IF q.op = "update" THEN q.i ELSE None]
         IN /\ Bar' = [Bar EXCEPT ![q.j] = Append(old, new)]
            /\ produced[q.k] = None /\ produced' = [produced EXCEPT ![q.k] = <<q.j, Len(rs) + 1>>]
            /\ UNCHANGED settled
  <1>0. PICK q : q = req[p] OBVIOUS
  <1>1. PICK j : j = q.j OBVIOUS
  <1>2. PICK rs : rs = rows[j] OBVIOUS
  <1>3. PICK n : n = Len(rs) OBVIOUS
  <1>4. Inv /\ KeysInv /\ q.pc = "insert" BY <1>0 DEF RefinementInv, Insert
  <1>5. /\ q \in RequestState /\ j \in Jobs /\ q.k \in Keys /\ rs \in Seq(Row) /\ q.rev = n + 1
        /\ q.op = "update" => q.i \in DOMAIN rs
        /\ ByKey(q.k) = {}
    BY <1>0, <1>1, <1>2, <1>3, <1>4, InsertFacts
  <1>6. PICK w : w = Written(q) OBVIOUS
  <1>7. /\ w \in Seq(Row) /\ Len(w) = n + 1
        /\ w[n + 1] = [state |-> "active", rev |-> q.rev, sup |-> IF q.op = "update" THEN q.i ELSE None, key |-> q.k]
        /\ \A i \in 1..n : w[i] = IF q.op = "update" /\ i = q.i
                                    THEN [rs[i] EXCEPT !.state = "superseded"] ELSE rs[i]
    BY <1>0, <1>1, <1>2, <1>3, <1>4, <1>6, WrittenFacts
  <1>8. /\ rows' = [rows EXCEPT ![j] = w] /\ UNCHANGED settled
        /\ produced' = [produced EXCEPT ![q.k] = IF @ = None THEN <<j, n + 1>> ELSE @]
    BY <1>0, <1>1, <1>2, <1>3, <1>6 DEF Insert
  <1>9. produced[q.k] = None BY <1>4, <1>5 DEF KeysInv
  <1>10. produced' = [produced EXCEPT ![q.k] = <<j, n + 1>>] BY <1>8, <1>9
  <1> DEFINE old == IF q.op = "update" THEN [Shown(rs) EXCEPT ![q.i].state = "superseded"] ELSE Shown(rs)
             new == [state |-> "active", rev |-> n + 1, sup |-> IF q.op = "update" THEN q.i ELSE None]
             Entry == [state : {"active", "superseded", "revoked"}, rev : Nat, sup : Nat \cup {None}]
  <1> HIDE DEF Entry
  <1>11. n \in Nat /\ DOMAIN rs = 1..n /\ \A i \in 1..n : rs[i] \in Row BY <1>3, <1>5
  <1>12. DOMAIN Shown(rs) = 1..n /\ \A i \in 1..n :
           Shown(rs)[i] = [state |-> rs[i].state, rev |-> rs[i].rev, sup |-> rs[i].sup]
    BY <1>11 DEF Shown
  <1>13. Shown(rs) \in Seq(Entry) /\ Len(Shown(rs)) = n
    <2>1. \A i \in 1..n : Shown(rs)[i] \in Entry BY <1>11, <1>12 DEF Row, Entry
    <2>2. Shown(rs) = [i \in 1..n |-> [state |-> rs[i].state, rev |-> rs[i].rev, sup |-> rs[i].sup]]
      BY <1>11 DEF Shown
    <2>3. Shown(rs) \in [1..n -> Entry] BY <2>1, <2>2
    <2>. QED BY <1>11, <2>3
  <1>14. old \in Seq(Entry) /\ Len(old) = n /\ \A i \in 1..n :
           old[i] = [state |-> IF q.op = "update" /\ i = q.i THEN "superseded" ELSE rs[i].state,
                     rev |-> rs[i].rev, sup |-> rs[i].sup]
    <2>1. CASE q.op # "update" BY <1>12, <1>13, <2>1
    <2>2. CASE q.op = "update"
      <3> DEFINE x == [Shown(rs)[q.i] EXCEPT !.state = "superseded"]
      <3>1. q.i \in 1..n /\ rs[q.i] \in Row BY <1>5, <1>11, <2>2
      <3>2. x = [state |-> "superseded", rev |-> rs[q.i].rev, sup |-> rs[q.i].sup] BY <1>12, <3>1
      <3>3. x \in Entry BY <3>1, <3>2 DEF Row, Entry
      <3>4. old = [Shown(rs) EXCEPT ![q.i] = x] BY <1>12, <2>2
      <3> HIDE DEF x
      <3> HIDE DEF old
      <3>5. old \in Seq(Entry) /\ Len(old) = n /\ old[q.i] = x BY <1>11, <1>13, <3>1, <3>3, <3>4
      <3>6. \A i \in 1..n : i # q.i => old[i] = Shown(rs)[i] BY <1>12, <1>13, <3>4
      <3>. QED BY <1>12, <2>2, <3>2, <3>5, <3>6
    <2>. QED BY <2>1, <2>2
  <1>15. new \in Entry BY <1>5, <1>11 DEF RequestState, Entry
  <1> HIDE DEF old, new
  <1>16. /\ Append(old, new) \in Seq(Entry) /\ DOMAIN Append(old, new) = 1..(n + 1)
         /\ Append(old, new)[n + 1] = new /\ \A i \in 1..n : Append(old, new)[i] = old[i]
    BY <1>11, <1>14, <1>15
  <1>17. DOMAIN Shown(w) = 1..(n + 1) /\ \A i \in 1..(n + 1) :
           Shown(w)[i] = [state |-> w[i].state, rev |-> w[i].rev, sup |-> w[i].sup]
    BY <1>7, <1>11 DEF Shown
  <1>18. ASSUME NEW i \in 1..(n + 1) PROVE Shown(w)[i] = Append(old, new)[i]
    <2>1. CASE i = n + 1
      BY <1>5, <1>7, <1>16, <1>17, <2>1 DEF new
    <2>2. CASE i # n + 1
      <3>1. i \in 1..n /\ rs[i] \in Row BY <1>11, <2>2
      <3>2. w[i].state = (IF q.op = "update" /\ i = q.i THEN "superseded" ELSE rs[i].state)
            /\ w[i].rev = rs[i].rev /\ w[i].sup = rs[i].sup
        BY <1>7, <3>1 DEF Row
      <3>. QED BY <1>14, <1>16, <1>17, <3>1, <3>2
    <2>. QED BY <2>1, <2>2
  <1>19. Shown(w) = Append(old, new)
    <2>1. Shown(w) = [i \in 1..(n + 1) |-> Shown(w)[i]] BY <1>7, <1>11 DEF Shown
    <2>2. PICK a : a = Append(old, new) OBVIOUS
    <2>3. a \in Seq(Entry) /\ DOMAIN a = 1..(n + 1) BY <1>16, <2>2
    <2>4. a = [i \in 1..(n + 1) |-> a[i]] BY <2>3
    <2>. QED BY <1>18, <2>1, <2>2, <2>4
  <1>20. Bar' = [Bar EXCEPT ![j] = Append(old, new)]
    <2>1. \A m \in Jobs : rows'[m] = IF m = j THEN w ELSE rows[m]
      BY <1>4, <1>8 DEF Inv, TypeInv
    <2>2. Bar' = [m \in Jobs |-> Shown(rows'[m])] BY DEF Bar, Shown
    <2>3. Bar = [m \in Jobs |-> Shown(rows[m])] BY DEF Bar
    <2>. QED BY <1>19, <2>1, <2>2, <2>3
  <1>. QED BY <1>0, <1>1, <1>2, <1>3, <1>8, <1>9, <1>10, <1>20 DEF old, new

LEMMA InsertKeys ==
  ASSUME RefinementInv, NEW p \in Requests, Insert(p), Unique(p) PROVE KeysInv'
  <1>0. PICK q : q = req[p] OBVIOUS
  <1>1. PICK j : j = q.j OBVIOUS
  <1>2. PICK rs : rs = rows[j] OBVIOUS
  <1>3. PICK n : n = Len(rs) OBVIOUS
  <1>4. Inv /\ KeysInv /\ q.pc = "insert" BY <1>0 DEF RefinementInv, Insert
  <1>5. /\ j \in Jobs /\ q.k \in Keys /\ rs \in Seq(Row)
        /\ q.op = "update" => q.i \in Active(j)
    BY <1>0, <1>1, <1>2, <1>3, <1>4, InsertFacts
  <1>6. PICK w : w = Written(q) OBVIOUS
  <1>7. /\ w \in Seq(Row) /\ Len(w) = n + 1
        /\ w[n + 1] = [state |-> "active", rev |-> q.rev, sup |-> IF q.op = "update" THEN q.i ELSE None, key |-> q.k]
        /\ \A i \in 1..n : w[i] = IF q.op = "update" /\ i = q.i
                                    THEN [rs[i] EXCEPT !.state = "superseded"] ELSE rs[i]
    BY <1>0, <1>1, <1>2, <1>3, <1>4, <1>6, WrittenFacts
  <1>8. /\ rows' = [rows EXCEPT ![j] = w]
        /\ produced' = [produced EXCEPT ![q.k] = IF @ = None THEN <<j, n + 1>> ELSE @]
    BY <1>0, <1>1, <1>2, <1>3, <1>6 DEF Insert
  <1>9. n \in Nat /\ DOMAIN rs = 1..n /\ DOMAIN w = 1..(n + 1) /\ \A i \in 1..n : rs[i] \in Row BY <1>3, <1>5, <1>7
  <1>10. w[n + 1].key = q.k /\ \A i \in 1..n : w[i].key = rs[i].key
    <2>1. w[n + 1].key = q.k BY <1>7
    <2>2. ASSUME NEW i \in 1..n PROVE w[i].key = rs[i].key
      <3>1. rs[i] \in Row /\ (w[i] = rs[i] \/ w[i] = [rs[i] EXCEPT !.state = "superseded"]) BY <1>7, <1>9
      <3>. QED BY <3>1 DEF Row
    <2>. QED BY <2>1, <2>2
  <1>11. \A m \in Jobs : rows'[m] = IF m = j THEN w ELSE rows[m]
    BY <1>4, <1>8 DEF Inv, TypeInv
  <1>12. \A k \in Keys : \A m \in Jobs : \A i \in DOMAIN rows[m] :
           rows[m][i].key = k => i \in DOMAIN rows'[m] /\ rows'[m][i].key = k
    BY <1>2, <1>9, <1>10, <1>11
  <1>16. Revoked => Revoked'
    <2> SUFFICES ASSUME NEW m \in Jobs, NEW i \in DOMAIN rows[m], rows[m][i].state = "revoked" PROVE Revoked'
      BY DEF Revoked
    <2>1. ~(m = j /\ q.op = "update" /\ i = q.i) BY <1>5 DEF Active
    <2>2. CASE m # j
      <3>1. rows'[m] = rows[m] BY <1>11, <2>2
      <3>. QED BY <3>1 DEF Revoked
    <2>3. CASE m = j
      <3>1. rows'[m] = w /\ i \in 1..n BY <1>2, <1>9, <1>11, <2>3
      <3>2. i \in 1..(n + 1) BY <1>9, <3>1
      <3>3. w[i] = rs[i] BY <1>7, <2>1, <2>3, <3>1
      <3>4. i \in DOMAIN rows'[m] /\ rows'[m][i].state = "revoked" BY <1>2, <1>9, <2>3, <3>1, <3>2, <3>3
      <3>. QED BY <3>4 DEF Revoked
    <2>. QED BY <2>2, <2>3
  <1> SUFFICES ASSUME ~Revoked', NEW k \in Keys, produced'[k] # None PROVE ByKey(k)' # {}
    BY DEF KeysInv
  <1>15. ASSUME NEW m \in Jobs, NEW i \in DOMAIN rows'[m], rows'[m][i].key = k PROVE ByKey(k)' # {}
    <2> DEFINE T == {<<m, x>> : x \in {y \in DOMAIN rows'[m] : rows'[m][y].key = k}}
    <2>1. <<m, i>> \in T BY <1>15
    <2>2. T \subseteq ByKey(k)' BY <1>15, Zenon DEF ByKey
    <2> HIDE DEF T
    <2>. QED BY <2>1, <2>2
  <1>13. CASE k = q.k
    <2>1. n + 1 \in DOMAIN rows'[j] /\ rows'[j][n + 1].key = k BY <1>5, <1>9, <1>10, <1>11, <1>13
    <2>. QED BY <1>5, <1>15, <2>1
  <1>14. CASE k # q.k
    <2>1. produced[k] # None BY <1>4, <1>8, <1>14 DEF Inv, TypeInv
    <2>2. ByKey(k) # {} BY <1>4, <1>16, <2>1 DEF KeysInv
    <2>3. PICK m \in Jobs : \E i \in DOMAIN rows[m] : rows[m][i].key = k BY <2>2 DEF ByKey
    <2>4. PICK i \in DOMAIN rows[m] : rows[m][i].key = k BY <2>3
    <2>5. i \in DOMAIN rows'[m] /\ rows'[m][i].key = k BY <1>12, <2>4
    <2>. QED BY <1>15, <2>5
  <1>. QED BY <1>13, <1>14

\* The history of a job as the contract sees it: its length, its active reviews and its
\* highest revision.
LEMMA ShownFacts ==
  ASSUME Inv, NEW j \in Jobs
  PROVE  /\ Bar[j] = Shown(rows[j]) /\ Len(Bar[j]) = Len(rows[j]) /\ DOMAIN Bar[j] = DOMAIN rows[j]
         /\ Contract!activeReview(Bar[j]) = Active(j)
         /\ Contract!MaxRevision(Bar[j]) = Len(rows[j])
         /\ \A i \in DOMAIN rows[j] : Bar[j][i].rev = i
  <1>0. PICK rs : rs = rows[j] OBVIOUS
  <1>1. PICK n : n = Len(rs) OBVIOUS
  <1>2. PICK b : b = Bar[j] OBVIOUS
  <1>3. rs \in Seq(Row) /\ n \in Nat /\ DOMAIN rs = 1..n BY <1>0, <1>1 DEF Inv, TypeInv
  <1>4. b = Shown(rs) BY <1>0, <1>2 DEF Bar
  <1>5. b = [i \in 1..n |-> [state |-> rs[i].state, rev |-> rs[i].rev, sup |-> rs[i].sup]]
    BY <1>3, <1>4 DEF Shown
  <1>6. DOMAIN b = 1..n /\ \A i \in 1..n : b[i].state = rs[i].state /\ b[i].rev = rs[i].rev BY <1>5
  <1>7. \A i \in 1..n : rs[i].rev = i BY <1>0, <1>3 DEF Inv, RowsInv
  <1>8. Len(b) = n
    <2>1. b \in [1..n -> {b[i] : i \in 1..n}] BY <1>5, <1>6
    <2>2. PICK E : E = {b[i] : i \in 1..n} OBVIOUS
    <2>3. b \in [1..n -> E] BY <2>1, <2>2
    <2>. QED BY <1>3, <2>3
  <1>9. Contract!activeReview(b) = Active(j) BY <1>0, <1>3, <1>6 DEF Contract!activeReview, Active
  <1>10. Contract!MaxRevision(b) = n
    <2>1. CASE n = 0
      <3>1. b = <<>> BY <1>5, <2>1
      <3>. QED BY <2>1, <3>1 DEF Contract!MaxRevision
    <2>2. CASE n # 0
      <3> DEFINE S == {b[i].rev : i \in DOMAIN b}
      <3>1. b # <<>> BY <1>3, <1>6, <1>8, <2>2
      <3>2. S = 1..n BY <1>3, <1>6, <1>7
      <3>3. n \in S BY <1>3, <2>2, <3>2
      <3>4. \A m \in S : (\A i \in DOMAIN b : b[i].rev <= m) <=> m = n BY <1>3, <1>6, <1>7, <2>2, <3>2
      <3>5. Contract!MaxRevision(b) = CHOOSE m \in S : \A i \in DOMAIN b : b[i].rev <= m
        BY <3>1 DEF Contract!MaxRevision
      <3> HIDE DEF S
      <3>6. (CHOOSE m \in S : \A i \in DOMAIN b : b[i].rev <= m) = n BY <3>3, <3>4
      <3>. QED BY <3>5, <3>6
    <2>. QED BY <2>1, <2>2
  <1>. QED BY <1>0, <1>1, <1>2, <1>3, <1>4, <1>6, <1>7, <1>8, <1>9, <1>10

\* A revocation that changes its row: the contract's effect, and Revoked holds after it.
LEMMA RevokeEffect ==
  ASSUME Inv, NEW p \in Requests, Revoke(p), rows' # rows
  PROVE  Revoked' /\ \E j \in Jobs : \E i \in DOMAIN Bar[j] :
           /\ j \in settled /\ i \in Contract!activeReview(Bar[j])
           /\ Bar' = [Bar EXCEPT ![j][i].state = "revoked"] /\ UNCHANGED <<settled, produced>>
  <1>0. PICK q : q = req[p] OBVIOUS
  <1>1. q \in RequestState /\ q.pc = "revoke" /\ Sound(q) /\ UNCHANGED <<settled, produced>>
    BY <1>0 DEF Revoke, Inv, TypeInv, RequestInv
  <1>2. q.i \in Active(q.j) /\ rows' = [rows EXCEPT ![q.j][q.i].state = "revoked", ![q.j][q.i].key = q.k]
    BY <1>0 DEF Revoke
  <1>3. PICK j : j = q.j OBVIOUS
  <1>4. PICK i : i = q.i OBVIOUS
  <1>5. /\ j \in settled /\ j \in Jobs /\ q.k \in Keys /\ rows[j] \in Seq(Row)
        /\ i \in DOMAIN rows[j] /\ rows[j][i] \in Row
    BY <1>1, <1>2, <1>3, <1>4 DEF Sound, Active, Inv, TypeInv
  <1> DEFINE x == [rows[j][i] EXCEPT !.state = "revoked", !.key = q.k]
             w == [rows[j] EXCEPT ![i] = x]
  <1>6. x.state = "revoked" /\ x.rev = rows[j][i].rev /\ x.sup = rows[j][i].sup BY <1>5 DEF Row
  <1>7. rows' = [rows EXCEPT ![j] = w] BY <1>2, <1>3, <1>4, <1>5 DEF Inv, TypeInv
  <1> HIDE DEF x
  <1>8. DOMAIN w = DOMAIN rows[j] /\ w[i] = x /\ \A m \in DOMAIN rows[j] : m # i => w[m] = rows[j][m]
    BY <1>5
  <1> HIDE DEF w
  <1>9. rows'[j] = w /\ \A m \in Jobs \ {j} : rows'[m] = rows[m] BY <1>5, <1>7 DEF Inv, TypeInv
  <1>10. Revoked' BY <1>5, <1>6, <1>8, <1>9 DEF Revoked
  <1>11. /\ Bar[j] = Shown(rows[j]) /\ DOMAIN Bar[j] = DOMAIN rows[j]
         /\ Contract!activeReview(Bar[j]) = Active(j)
    BY <1>5, ShownFacts
  <1>12. Shown(w) = [Shown(rows[j]) EXCEPT ![i].state = "revoked"]
    <2> DEFINE e == [Shown(rows[j])[i] EXCEPT !.state = "revoked"]
               f == [Shown(rows[j]) EXCEPT ![i] = e]
    <2>1. DOMAIN Shown(rows[j]) = DOMAIN rows[j] /\ \A m \in DOMAIN rows[j] :
            Shown(rows[j])[m] = [state |-> rows[j][m].state, rev |-> rows[j][m].rev, sup |-> rows[j][m].sup]
      BY DEF Shown
    <2>2. DOMAIN Shown(w) = DOMAIN rows[j] /\ \A m \in DOMAIN rows[j] :
            Shown(w)[m] = [state |-> w[m].state, rev |-> w[m].rev, sup |-> w[m].sup]
      BY <1>8 DEF Shown
    <2>3. e = [state |-> "revoked", rev |-> rows[j][i].rev, sup |-> rows[j][i].sup]
      <3>1. Shown(rows[j])[i] = [state |-> rows[j][i].state, rev |-> rows[j][i].rev, sup |-> rows[j][i].sup]
        BY <1>5, <2>1
      <3>. QED BY <3>1
    <2>4. f = [Shown(rows[j]) EXCEPT ![i].state = "revoked"] OBVIOUS
    <2> HIDE DEF e
    <2>5. DOMAIN f = DOMAIN rows[j] /\ f[i] = e /\ \A m \in DOMAIN rows[j] : m # i => f[m] = Shown(rows[j])[m]
      BY <1>5, <2>1
    <2>6. f = [m \in DOMAIN rows[j] |-> f[m]] BY <2>1
    <2>7. Shown(w) = [m \in DOMAIN rows[j] |-> Shown(w)[m]] BY <1>8 DEF Shown
    <2> HIDE DEF f
    <2>8. \A m \in DOMAIN rows[j] : Shown(w)[m] = f[m]
      BY <1>6, <1>8, <2>1, <2>2, <2>3, <2>5
    <2>9. Shown(w) = f BY <2>6, <2>7, <2>8
    <2>. QED BY <2>4, <2>9
  <1>13. Bar' = [Bar EXCEPT ![j] = Shown(w)]
    <2>1. \A m \in Jobs : rows'[m] = IF m = j THEN w ELSE rows[m] BY <1>9
    <2>2. Bar' = [m \in Jobs |-> Shown(rows'[m])] BY DEF Bar, Shown
    <2>3. Bar = [m \in Jobs |-> Shown(rows[m])] BY DEF Bar
    <2>. QED BY <2>1, <2>2, <2>3
  <1>14. Bar' = [Bar EXCEPT ![j][i].state = "revoked"] BY <1>11, <1>12, <1>13
  <1>. QED BY <1>1, <1>2, <1>3, <1>4, <1>5, <1>10, <1>11, <1>14

LEMMA NextKeys == ASSUME Parameters, RefinementInv, [Next]_vars PROVE RefinementInv'
  <1>1. Inv' BY NextInv DEF RefinementInv
  <1>2. ASSUME NEW p \in Requests, Revoke(p), rows' # rows PROVE KeysInv'
    BY <1>2, RevokeEffect DEF KeysInv, RefinementInv
  <1>3. KeysInv' BY <1>2, StepKinds, SteadyKeys, InsertKeys DEF RefinementInv, Settle
  <1>. QED BY <1>1, <1>3 DEF RefinementInv

\* The contract's operations with the history of a job written Bar[j].
LEMMA ContractCreate ==
  ASSUME NEW j \in Jobs, NEW k \in Keys, j \in settled, produced[k] = None,
         Contract!activeReview(Bar[j]) = {},
         Bar' = [Bar EXCEPT ![j] = Append(Bar[j], Contract!Review(Contract!MaxRevision(Bar[j]) + 1, None))],
         produced' = [produced EXCEPT ![k] = <<j, Len(Bar[j]) + 1>>], UNCHANGED settled
  PROVE  Contract!createReview(j, k)
  BY DEF Contract!createReview, Bar, Shown

LEMMA ContractUpdate ==
  ASSUME NEW j \in Jobs, NEW k \in Keys, NEW i, j \in settled, produced[k] = None,
         i \in Contract!activeReview(Bar[j]),
         Bar' = [Bar EXCEPT ![j] = Append(Contract!Superseded(Bar[j], i), Contract!Review(Bar[j][i].rev + 1, i))],
         produced' = [produced EXCEPT ![k] = <<j, Len(Bar[j]) + 1>>], UNCHANGED settled
  PROVE  Contract!updateReview(j, i, k)
  BY DEF Contract!updateReview, Bar, Shown

LEMMA InsertRefines ==
  ASSUME RefinementInv, ~Revoked, NEW p \in Requests, Insert(p), Unique(p)
  PROVE  Contract!ContractNext
  <1>0. PICK q : q = req[p] OBVIOUS
  <1>1. PICK j : j = q.j OBVIOUS
  <1>2. PICK k : k = q.k OBVIOUS
  <1>3. PICK n : n = Len(rows[j]) OBVIOUS
  <1>4. Inv /\ KeysInv /\ q.pc = "insert" BY <1>0 DEF RefinementInv, Insert
  <1>5. /\ j \in settled /\ j \in Jobs /\ k \in Keys /\ q.rev = n + 1
        /\ q.op \in {"create", "update"}
        /\ q.op = "create" => Active(j) = {}
        /\ q.op = "update" => Active(j) = {q.i} /\ q.i \in DOMAIN rows[j] /\ q.rev = q.i + 1
    BY <1>0, <1>1, <1>2, <1>3, <1>4, InsertFacts
  <1>6. /\ Bar[j] = Shown(rows[j]) /\ Len(Bar[j]) = n /\ DOMAIN Bar[j] = DOMAIN rows[j]
        /\ Contract!activeReview(Bar[j]) = Active(j)
        /\ Contract!MaxRevision(Bar[j]) = n
        /\ \A i \in DOMAIN rows[j] : Bar[j][i].rev = i
    BY <1>3, <1>4, <1>5, ShownFacts
  <1>7. /\ Bar' = [Bar EXCEPT ![j] =
                     Append(IF q.op = "update" THEN [Bar[j] EXCEPT ![q.i].state = "superseded"] ELSE Bar[j],
                            [state |-> "active", rev |-> n + 1, sup |-> IF q.op = "update" THEN q.i ELSE None])]
        /\ produced[k] = None /\ produced' = [produced EXCEPT ![k] = <<j, n + 1>>]
        /\ UNCHANGED settled
    BY <1>0, <1>1, <1>2, <1>3, <1>6, InsertEffect
  <1>8. CASE q.op = "create"
    <2>1. Bar' = [Bar EXCEPT ![j] = Append(Bar[j], Contract!Review(Contract!MaxRevision(Bar[j]) + 1, None))]
      BY <1>6, <1>7, <1>8 DEF Contract!Review
    <2>2. Contract!createReview(j, k) BY <1>5, <1>6, <1>7, <1>8, <2>1, ContractCreate
    <2>. QED BY <1>5, <2>2 DEF Contract!ContractNext
  <1>9. CASE q.op = "update"
    <2>1. Bar' = [Bar EXCEPT ![j] = Append(Contract!Superseded(Bar[j], q.i), Contract!Review(Bar[j][q.i].rev + 1, q.i))]
      <3>1. Bar[j][q.i].rev + 1 = n + 1 BY <1>5, <1>6, <1>9
      <3>. QED BY <1>7, <1>9, <3>1 DEF Contract!Review, Contract!Superseded
    <2>2. Contract!updateReview(j, q.i, k) BY <1>5, <1>6, <1>7, <1>9, <2>1, ContractUpdate
    <2>3. Bar[j] = [i \in DOMAIN rows[j] |-> [state |-> rows[j][i].state, rev |-> rows[j][i].rev, sup |-> rows[j][i].sup]]
      BY <1>6 DEF Shown
    <2>. QED BY <1>5, <1>9, <2>2 DEF Contract!ContractNext
  <1>. QED BY <1>5, <1>8, <1>9

LEMMA ContractRevoke ==
  ASSUME NEW j \in Jobs, NEW i \in DOMAIN Bar[j], j \in settled, i \in Contract!activeReview(Bar[j]),
         Bar' = [Bar EXCEPT ![j][i].state = "revoked"], UNCHANGED <<settled, produced>>
  PROVE  Contract!ContractNext
  <1>1. Contract!revokeReview(j, i) BY DEF Contract!revokeReview, Bar, Shown
  <1>. QED BY <1>1 DEF Contract!ContractNext, Bar, Shown

LEMMA StepRefines ==
  ASSUME RefinementInv, [Next]_vars
  PROVE  [~Revoked => Contract!ContractNext]_<<settled, rows, produced>>
  <1> SUFFICES ASSUME ~Revoked PROVE Contract!ContractNext \/ UNCHANGED <<settled, rows, produced>> OBVIOUS
  <1>1. ASSUME NEW j \in Jobs, Settle(j) PROVE Contract!ContractNext
    <2>1. Contract!SettleJob(j) BY <1>1 DEF Settle, Contract!SettleJob
    <2>. QED BY <2>1 DEF Contract!ContractNext
  <1>2. ASSUME NEW p \in Requests, Insert(p) /\ Unique(p) PROVE Contract!ContractNext
    BY <1>2, InsertRefines
  <1>3. ASSUME NEW p \in Requests, Revoke(p), rows' # rows PROVE Contract!ContractNext
    BY <1>3, RevokeEffect, ContractRevoke DEF RefinementInv
  <1>. QED BY <1>1, <1>2, <1>3, StepKinds

LEMMA InitRefines == Init => Contract!ContractInit
  BY DEF Init, Contract!ContractInit

\* The reviews in Postgres implement the contract of the in-memory projection, for any
\* number of concurrent creates, updates and revocations: up to and including the first
\* revocation each transaction that commits has the effect of one call, and a repeated
\* key has none.
THEOREM ReviewsImplementContract == ASSUME Parameters PROVE Spec => ImplementsContract
  <1>1. Init => RefinementInv BY InitInv, InitKeys DEF RefinementInv
  <1>2. RefinementInv /\ [Next]_vars => RefinementInv' BY NextKeys
  <1>3. RefinementInv /\ [Next]_vars => [~Revoked => Contract!ContractNext]_<<settled, rows, produced>>
    BY StepRefines
  <1>. QED BY <1>1, <1>2, <1>3, InitRefines, PTL DEF Spec, ImplementsContract

-----------------------------------------------------------------------------
(***************************************************************************)
(* Payments.                                                               *)
(*                                                                         *)
(* A call decides on the attempt it read; what makes its decision safe     *)
(* later is the comparison with that attempt at the commit (PayCallInv     *)
(* says what the decision was).  The rollback of a refused call writes a   *)
(* whole earlier snapshot back, which is harmless to attempts and receipts *)
(* because no other transaction commits in between (RollbackInv).          *)
(***************************************************************************)

PayStatus == {"challenged", "authorized", "relay_pending", "relayed", "settlement_pending", "settled",
           "delivered", "rejected", "expired", "unknown", "partial_failure", "manual_review"}

\* The statuses of an attempt whose relay has started.
Started == {"relay_pending", "relayed", "settlement_pending", "settled", "delivered", "unknown",
            "partial_failure", "manual_review"}

Att == [status : PayStatus, challenge : Challenges, auth : BOOLEAN]

Db == [att : [Attempts -> Att \cup {Missing}],
       actions : [Keys -> [op : {"create", "transition"}, a : Attempts, next : PayStatus] \cup {Missing}],
       receipts : [Attempts -> Payment!Receipts \cup {Missing}],
       challenges : SUBSET Challenges,
       recon : [Attempts -> {"pending", "in_progress", "reconciled", "failed", "manual_review", Missing}]]

Call == [pc : {"idle", "commit", "rollback"}, op : {"create", "transition", "receipt", Missing},
         k : Keys \cup {Missing}, a : Attempts \cup {Missing}, expected : Att \cup {Missing}, next : Att \cup {Missing},
         receipt : Payment!Receipts \cup {Missing}, snapshot : Db \cup {Missing}]

\* Missing is no attempt and no receipt, and the statuses asked for are statuses.
PaymentParameters == Missing \notin Att /\ Missing \notin Payment!Receipts /\ Statuses \subseteq PayStatus

PaymentTypes == db \in Db /\ call \in [Callers -> Call] /\ relays \in [Attempts -> Nat]

\* An attempt past its authorization is authorized.
Authorized(saved) == saved.status \in Started \cup {"authorized"} => saved.auth

\* What the checks made before the transaction established.
Decided(c) ==
  c.pc = "commit" =>
    /\ c.a \in Attempts /\ c.op \in {"create", "transition", "receipt"}
    /\ c.op = "create" => /\ c.k \in Keys /\ c.expected = Missing /\ c.next \in Att
                          /\ c.next.status = "challenged" /\ c.receipt = Missing
    /\ c.op = "transition" =>
         /\ c.k \in Keys /\ c.expected \in Att /\ c.next \in Att /\ Authorized(c.next)
         /\ c.next.status = "relay_pending" => c.expected.status = "authorized"
         /\ c.next.status \in Started \ {"relay_pending"} => c.expected.status \in Started
         /\ c.next.status \notin Started => c.expected.status \notin Started
         /\ c.next.status \in {"settled", "delivered"} => c.receipt # Missing /\ c.receipt.status = "settled"
         /\ c.next.status = "delivered" => c.receipt.answered
    /\ c.op = "receipt" => c.receipt # Missing

PayCallInv == \A p \in Callers : Decided(call[p])

\* The snapshot of the one call that rolls back holds the attempts and the receipts of now.
RollbackInv ==
  \A p \in Callers : call[p].pc = "rollback" =>
    /\ call[p].snapshot \in Db
    /\ call[p].snapshot.att = db.att /\ call[p].snapshot.receipts = db.receipts
    /\ \A q \in Callers : call[q].pc = "rollback" => q = p

AttemptInv ==
  \A a \in Attempts :
    IF db.att[a] = Missing THEN relays[a] = 0
    ELSE /\ Authorized(db.att[a])
         /\ relays[a] = IF db.att[a].status \in Started THEN 1 ELSE 0

PaymentInv == PaymentTypes /\ PayCallInv /\ RollbackInv /\ AttemptInv /\ DeliveredIsPaid

-----------------------------------------------------------------------------
LEMMA NoCallFacts == Payment!NoCall \in Call /\ Payment!NoCall.pc = "idle"
  BY DEF Payment!NoCall, Call

LEMMA PaymentInit == Payment!Init => PaymentInv
  <1> SUFFICES ASSUME Payment!Init PROVE PaymentInv OBVIOUS
  <1>1. db \in Db BY DEF Payment!Init, Db
  <1>2. call \in [Callers -> Call] /\ \A p \in Callers : call[p].pc = "idle" BY NoCallFacts DEF Payment!Init
  <1>3. PaymentTypes BY <1>1, <1>2 DEF Payment!Init, PaymentTypes
  <1>4. PayCallInv /\ RollbackInv BY <1>2 DEF PayCallInv, Decided, RollbackInv
  <1>5. AttemptInv /\ DeliveredIsPaid BY DEF Payment!Init, AttemptInv, DeliveredIsPaid
  <1>. QED BY <1>3, <1>4, <1>5 DEF PaymentInv

\* A step that begins a call and leaves the maps alone.
LEMMA BeginInv ==
  ASSUME PaymentInv, NEW p \in Callers, NEW c \in Call, Payment!Begin(p, c), UNCHANGED <<db, relays>>,
         c.pc = "commit", Decided(c)
  PROVE  PaymentInv'
  <1>1. call[p].pc = "idle" /\ call' = [call EXCEPT ![p] = c] BY DEF Payment!Begin
  <1>2. call'[p] = c /\ \A q \in Callers \ {p} : call'[q] = call[q] BY <1>1 DEF PaymentInv, PaymentTypes
  <1>3. PaymentTypes' BY <1>1 DEF PaymentInv, PaymentTypes
  <1>4. PayCallInv' BY <1>2 DEF PaymentInv, PayCallInv, Decided, Authorized
  <1>5. RollbackInv' BY <1>2 DEF PaymentInv, RollbackInv
  <1>6. AttemptInv' /\ DeliveredIsPaid' BY DEF PaymentInv, AttemptInv, Authorized, DeliveredIsPaid
  <1>. QED BY <1>3, <1>4, <1>5, <1>6 DEF PaymentInv

LEMMA CreateInv ==
  ASSUME PaymentParameters, PaymentInv, NEW p \in Callers, NEW a \in Attempts, NEW c \in Challenges, NEW k \in Keys, Payment!Create(p, a, c, k)
  PROVE  PaymentInv'
  <1> DEFINE saved == [status |-> "challenged", challenge |-> c, auth |-> FALSE]
             new == [Payment!NoCall EXCEPT !.pc = "commit", !.op = "create", !.k = k, !.a = a, !.next = saved]
  <1>1. saved \in Att /\ saved.status = "challenged" BY DEF Att, PayStatus
  <1> HIDE DEF saved
  <1>2. /\ new \in Call /\ new.pc = "commit" /\ new.op = "create" /\ new.k = k /\ new.a = a /\ new.next = saved
        /\ new.expected = Missing /\ new.receipt = Missing
    BY <1>1 DEF Payment!NoCall, Call
  <1>3. Payment!Begin(p, new) /\ UNCHANGED <<db, relays>> BY DEF Payment!Create, saved
  <1> HIDE DEF new
  <1>4. Decided(new) BY <1>1, <1>2 DEF Decided
  <1>. QED BY <1>2, <1>3, <1>4, BeginInv

LEMMA SaveReceiptInv ==
  ASSUME PaymentInv, PaymentParameters, NEW p \in Callers, NEW a \in Attempts, NEW r \in Payment!Receipts, Payment!SaveReceipt(p, a, r)
  PROVE  PaymentInv'
  <1> DEFINE new == [Payment!NoCall EXCEPT !.pc = "commit", !.op = "receipt", !.a = a, !.receipt = r]
  <1>1. new \in Call /\ new.pc = "commit" /\ new.op = "receipt" /\ new.a = a /\ new.receipt = r
    BY DEF Payment!NoCall, Call
  <1>2. Payment!Begin(p, new) /\ UNCHANGED <<db, relays>> BY DEF Payment!SaveReceipt
  <1> HIDE DEF new
  <1>3. Decided(new) BY <1>1 DEF Decided, PaymentParameters
  <1>. QED BY <1>1, <1>2, <1>3, BeginInv

\* Where an attempt can come from.
LEMMA TransitionTable ==
  ASSUME NEW s \in PayStatus, NEW t \in Payment!allowedTransitions[s]
  PROVE  /\ t \in PayStatus
         /\ t = "relay_pending" => s = "authorized"
         /\ t \in Started \ {"relay_pending"} => s \in Started
         /\ t \notin Started => s \notin Started
  BY DEF Payment!allowedTransitions, PayStatus, Started

LEMMA TransitionInv ==
  ASSUME PaymentParameters, PaymentInv, NEW p \in Callers, NEW a \in Attempts, NEW s \in Statuses, NEW k \in Keys,
         NEW r \in Payment!Receipts \cup {Missing}, NEW b \in BOOLEAN, Payment!Transition(p, a, s, k, r, b)
  PROVE  PaymentInv'
  <1>0. PICK saved : saved = db.att[a] OBVIOUS
  <1>1. saved \in Att /\ Authorized(saved)
    BY <1>0 DEF Payment!Transition, PaymentInv, PaymentTypes, Db, AttemptInv
  <1> DEFINE next == Payment!Moved(saved, s)
             new == [Payment!NoCall EXCEPT !.pc = "commit", !.op = "transition", !.k = k, !.a = a, !.expected = saved,
                                   !.next = next, !.receipt = r]
  <1>2. /\ s \in Payment!allowedTransitions[saved.status]
        /\ s \in {"settled", "delivered"} => r # Missing /\ r.status = "settled"
        /\ s = "delivered" => r.answered
        /\ s = "relay_pending" => saved.auth
    BY <1>0 DEF Payment!Transition, Payment!assertPaymentTransition
  <1>3. saved.status \in PayStatus /\ saved.auth \in BOOLEAN /\ s \in PayStatus BY <1>1 DEF Att, PaymentParameters
  <1>4. next.status = s /\ next.auth = (saved.auth \/ s = "authorized") /\ next \in Att
    BY <1>1, <1>3 DEF Payment!Moved, Att
  <1> HIDE DEF next
  <1>5. /\ s = "relay_pending" => saved.status = "authorized"
        /\ s \in Started \ {"relay_pending"} => saved.status \in Started
        /\ s \notin Started => saved.status \notin Started
    BY <1>2, <1>3, TransitionTable
  <1>6. Authorized(next) BY <1>1, <1>2, <1>4, <1>5 DEF Authorized, Started
  <1>7. /\ new \in Call /\ new.pc = "commit" /\ new.op = "transition" /\ new.k = k /\ new.a = a
        /\ new.expected = saved /\ new.next = next /\ new.receipt = r
    BY <1>1, <1>4 DEF Payment!NoCall, Call
  <1>8. Payment!Begin(p, new) /\ UNCHANGED <<db, relays>> BY <1>0 DEF Payment!Transition, next
  <1> HIDE DEF new
  <1>9. Decided(new) BY <1>1, <1>2, <1>4, <1>5, <1>6, <1>7 DEF Decided
  <1>. QED BY <1>7, <1>8, <1>9, BeginInv

-----------------------------------------------------------------------------
(* The transaction. *)

\* The receipt on record after a commit: a settled one is never replaced.
LEMMA ReceiptFacts ==
  ASSUME PaymentInv, NEW a \in Attempts, NEW r \in Payment!Receipts \cup {Missing}, Payment!ReceiptOk(a, r)
  PROVE  /\ Payment!WithReceipt(a, r) \in [Attempts -> Payment!Receipts \cup {Missing}]
         /\ \A b \in Attempts : b # a => Payment!WithReceipt(a, r)[b] = db.receipts[b]
         /\ r # Missing => Payment!WithReceipt(a, r)[a] = r
         /\ db.receipts[a] # Missing /\ db.receipts[a].status = "settled" => Payment!WithReceipt(a, r)[a] = db.receipts[a]
  <1>1. db.receipts \in [Attempts -> Payment!Receipts \cup {Missing}] BY DEF PaymentInv, PaymentTypes, Db
  <1>. QED BY <1>1 DEF Payment!WithReceipt, Payment!ReceiptOk

\* A transaction that commits: the attempts and the receipts it leaves.
LEMMA CommittedFacts ==
  ASSUME PaymentInv, NEW p \in Callers, call[p].pc = "commit", Payment!CommitOk(call[p])
  PROVE  LET c == call[p] IN
         /\ Payment!Committed(c) \in Db
         /\ Payment!Committed(c).receipts = Payment!WithReceipt(c.a, c.receipt)
         /\ Payment!Committed(c).att = IF c.op = "receipt" THEN db.att ELSE [db.att EXCEPT ![c.a] = c.next]
  <1>0. PICK c : c = call[p] OBVIOUS
  <1>1. c \in Call /\ Decided(c) /\ db \in Db BY <1>0 DEF PaymentInv, PaymentTypes, PayCallInv
  <1>2. /\ c.a \in Attempts /\ c.receipt \in Payment!Receipts \cup {Missing} /\ Payment!ReceiptOk(c.a, c.receipt)
        /\ c.op \in {"create", "transition", "receipt"}
        /\ c.op # "receipt" => c.k \in Keys /\ c.next \in Att
    BY <1>0, <1>1 DEF Decided, Payment!CommitOk, Call
  <1>3. PICK w : w = Payment!WithReceipt(c.a, c.receipt) OBVIOUS
  <1>4. w \in [Attempts -> Payment!Receipts \cup {Missing}] BY <1>2, <1>3, ReceiptFacts
  <1>5. PICK d : d = Payment!Committed(c) OBVIOUS
  <1>6. CASE c.op = "receipt"
    <2>1. d = [db EXCEPT !.receipts = w] BY <1>3, <1>5, <1>6 DEF Payment!Committed
    <2>2. d \in Db /\ d.receipts = w /\ d.att = db.att BY <1>1, <1>4, <2>1 DEF Db
    <2>. QED BY <1>0, <1>3, <1>5, <1>6, <2>2
  <1>7. CASE c.op # "receipt"
    <2>1. PICK act : act = [op |-> c.op, a |-> c.a, next |-> c.next.status] OBVIOUS
    <2>2. act \in [op : {"create", "transition"}, a : Attempts, next : PayStatus]
      BY <1>2, <1>7, <2>1 DEF Att
    <2>3. PICK ch : ch = IF c.op = "create" THEN db.challenges \cup {c.next.challenge} ELSE db.challenges OBVIOUS
    <2>4. ch \in SUBSET Challenges BY <1>1, <1>2, <1>7, <2>3 DEF Db, Att
    <2>5. PICK at : at = [db.att EXCEPT ![c.a] = c.next] OBVIOUS
    <2>6. at \in [Attempts -> Att \cup {Missing}] BY <1>1, <1>2, <1>7, <2>5 DEF Db
    <2>7. PICK ac : ac = [db.actions EXCEPT ![c.k] = act] OBVIOUS
    <2>8. ac \in [Keys -> [op : {"create", "transition"}, a : Attempts, next : PayStatus] \cup {Missing}]
      BY <1>1, <1>2, <1>7, <2>2, <2>7 DEF Db
    <2>9. d = [db EXCEPT !.att = at, !.actions = ac, !.receipts = w, !.challenges = ch]
      BY <1>3, <1>5, <1>7, <2>1, <2>3, <2>5, <2>7 DEF Payment!Committed
    <2>10. d.att = at /\ d.actions = ac /\ d.receipts = w /\ d.challenges = ch /\ d.recon = db.recon
      BY <1>1, <2>9 DEF Db
    <2>11. d \in Db BY <1>1, <1>4, <2>4, <2>6, <2>8, <2>9 DEF Db
    <2>. QED BY <1>0, <1>3, <1>5, <1>7, <2>5, <2>10, <2>11
  <1>. QED BY <1>6, <1>7

LEMMA CommitInv ==
  ASSUME PaymentParameters, PaymentInv, NEW p \in Callers, Payment!Commit(p), Payment!CommitOk(call[p])
  PROVE  PaymentInv'
  <1>0. PICK c : c = call[p] OBVIOUS
  <1>1. c.pc = "commit" /\ (\A q \in Callers : call[q].pc # "rollback") BY <1>0 DEF Payment!Commit, Payment!MyTurn
  <1>2. c \in Call /\ Decided(c) BY <1>0 DEF PaymentInv, PaymentTypes, PayCallInv
  <1>3. c.a \in Attempts /\ c.receipt \in Payment!Receipts \cup {Missing} /\ Payment!ReceiptOk(c.a, c.receipt)
    BY <1>0, <1>1, <1>2 DEF Decided, Payment!CommitOk, Call
  <1>4. /\ db' = Payment!Committed(c)
        /\ relays' = IF c.op = "transition" /\ c.next.status = "relay_pending"
                     THEN [relays EXCEPT ![c.a] = @ + 1] ELSE relays
        /\ call' = [call EXCEPT ![p] = Payment!NoCall]
    BY <1>0 DEF Payment!Commit
  <1>5. /\ db' \in Db /\ db'.receipts = Payment!WithReceipt(c.a, c.receipt)
        /\ db'.att = IF c.op = "receipt" THEN db.att ELSE [db.att EXCEPT ![c.a] = c.next]
    BY <1>0, <1>1, <1>4, CommittedFacts
  <1>6. call'[p] = Payment!NoCall /\ (\A q \in Callers \ {p} : call'[q] = call[q]) /\ call' \in [Callers -> Call]
    BY <1>4, NoCallFacts DEF PaymentInv, PaymentTypes
  <1>7. PaymentTypes'
    <2>1. relays' \in [Attempts -> Nat] BY <1>3, <1>4 DEF PaymentInv, PaymentTypes
    <2>. QED BY <1>5, <1>6, <2>1 DEF PaymentTypes
  <1>8. PayCallInv' BY <1>6, NoCallFacts DEF PaymentInv, PayCallInv, Decided, Authorized
  <1>9. RollbackInv' BY <1>1, <1>6, NoCallFacts DEF RollbackInv
  <1>10. db.att \in [Attempts -> Att \cup {Missing}] /\ relays \in [Attempts -> Nat] BY DEF PaymentInv, PaymentTypes, Db
  <1>11. ASSUME NEW a \in Attempts, a # c.a
         PROVE  db'.att[a] = db.att[a] /\ relays'[a] = relays[a] /\ db'.receipts[a] = db.receipts[a]
    <2>1. db'.att[a] = db.att[a] BY <1>5, <1>10, <1>11
    <2>2. relays'[a] = relays[a] BY <1>4, <1>10, <1>11
    <2>3. db'.receipts[a] = db.receipts[a] BY <1>3, <1>5, <1>11, ReceiptFacts
    <2>. QED BY <2>1, <2>2, <2>3
  <1>12. c.op # "receipt" => db.att[c.a] = c.expected /\ db'.att[c.a] = c.next
    BY <1>0, <1>3, <1>5, <1>10 DEF Payment!CommitOk
  <1>13. c.op = "receipt" => db'.att[c.a] = db.att[c.a] BY <1>5
  <1>14. relays'[c.a] = IF c.op = "transition" /\ c.next.status = "relay_pending" THEN relays[c.a] + 1 ELSE relays[c.a]
    BY <1>3, <1>4, <1>10
  <1>15. AttemptInv'
    <2> SUFFICES ASSUME NEW a \in Attempts
                 PROVE  IF db'.att[a] = Missing THEN relays'[a] = 0
                        ELSE /\ Authorized(db'.att[a])
                             /\ relays'[a] = IF db'.att[a].status \in Started THEN 1 ELSE 0
      BY DEF AttemptInv, Authorized
    <2>0. IF db.att[a] = Missing THEN relays[a] = 0
          ELSE /\ Authorized(db.att[a]) /\ relays[a] = IF db.att[a].status \in Started THEN 1 ELSE 0
      BY DEF PaymentInv, AttemptInv
    <2>1. CASE a # c.a BY <1>11, <2>0, <2>1
    <2>2. CASE a = c.a /\ c.op = "receipt" BY <1>13, <1>14, <2>0, <2>2
    <2>3. CASE a = c.a /\ c.op = "create"
      <3>1. db.att[a] = Missing /\ db'.att[a] = c.next /\ c.next \in Att /\ c.next.status = "challenged"
        BY <1>1, <1>2, <1>12, <2>3 DEF Decided
      <3>2. relays'[a] = 0 BY <1>14, <2>0, <2>3, <3>1
      <3>. QED BY <3>1, <3>2 DEF Authorized, Started, PaymentParameters
    <2>4. CASE a = c.a /\ c.op = "transition"
      <3>1. /\ db.att[a] = c.expected /\ db'.att[a] = c.next /\ c.next \in Att /\ c.expected \in Att
            /\ Authorized(c.next)
            /\ c.next.status = "relay_pending" => c.expected.status = "authorized"
            /\ c.next.status \in Started \ {"relay_pending"} => c.expected.status \in Started
            /\ c.next.status \notin Started => c.expected.status \notin Started
        BY <1>1, <1>2, <1>12, <2>4 DEF Decided
      <3>2. c.expected # Missing /\ c.next # Missing BY <3>1 DEF PaymentParameters
      <3>3. relays[a] = IF c.expected.status \in Started THEN 1 ELSE 0 BY <2>0, <3>1, <3>2
      <3>4. relays'[a] = IF c.next.status \in Started THEN 1 ELSE 0
        BY <1>14, <2>4, <3>1, <3>3 DEF Started
      <3>. QED BY <3>1, <3>2, <3>4
    <2>5. c.op \in {"create", "transition", "receipt"} BY <1>1, <1>2 DEF Decided
    <2>. QED BY <2>1, <2>2, <2>3, <2>4, <2>5
  <1>16. DeliveredIsPaid'
    <2> SUFFICES ASSUME NEW a \in Attempts, db'.att[a] # Missing, db'.att[a].status \in {"settled", "delivered"}
                 PROVE  /\ db'.att[a].auth /\ db'.receipts[a] # Missing /\ db'.receipts[a].status = "settled"
                        /\ db'.att[a].status = "delivered" => db'.receipts[a].answered
      BY DEF DeliveredIsPaid
    <2>0. db.att[a] # Missing /\ db.att[a].status \in {"settled", "delivered"}
            => /\ db.att[a].auth /\ db.receipts[a] # Missing /\ db.receipts[a].status = "settled"
               /\ db.att[a].status = "delivered" => db.receipts[a].answered
      BY DEF PaymentInv, DeliveredIsPaid
    <2>1. CASE a # c.a BY <1>11, <2>0, <2>1
    <2>2. CASE a = c.a /\ c.op = "receipt"
      <3>1. db.att[a] # Missing /\ db.att[a].status \in {"settled", "delivered"} /\ db'.att[a] = db.att[a]
        BY <1>13, <2>2
      <3>2. db'.receipts[a] = db.receipts[a] BY <1>3, <1>5, <2>0, <2>2, <3>1, ReceiptFacts
      <3>. QED BY <2>0, <3>1, <3>2
    <2>3. CASE a = c.a /\ c.op = "create"
      <3>1. db'.att[a] = c.next /\ c.next.status = "challenged" BY <1>1, <1>2, <1>12, <2>3 DEF Decided
      <3>. QED BY <3>1
    <2>4. CASE a = c.a /\ c.op = "transition"
      <3>1. db'.att[a] = c.next BY <1>12, <2>4
      <3>2. /\ c.receipt # Missing /\ c.receipt.status = "settled" /\ Authorized(c.next)
            /\ c.next.status = "delivered" => c.receipt.answered
        BY <1>1, <1>2, <2>4, <3>1 DEF Decided
      <3>3. db'.receipts[a] = c.receipt BY <1>3, <1>5, <2>4, <3>2, ReceiptFacts
      <3>4. c.next.auth BY <3>1, <3>2 DEF Authorized, Started
      <3>. QED BY <3>1, <3>2, <3>3, <3>4
    <2>5. c.op \in {"create", "transition", "receipt"} BY <1>1, <1>2 DEF Decided
    <2>. QED BY <2>1, <2>2, <2>3, <2>4, <2>5
  <1>. QED BY <1>7, <1>8, <1>9, <1>15, <1>16 DEF PaymentInv

\* A refused commit only takes the snapshot.
LEMMA RefusedInv ==
  ASSUME PaymentInv, NEW p \in Callers, Payment!Commit(p), ~Payment!CommitOk(call[p])
  PROVE  PaymentInv'
  <1>0. PICK c : c = call[p] OBVIOUS
  <1> DEFINE new == [c EXCEPT !.pc = "rollback", !.snapshot = db]
  <1>1. c \in Call /\ db \in Db BY <1>0 DEF PaymentInv, PaymentTypes
  <1>2. new \in Call /\ new.pc = "rollback" /\ new.snapshot = db BY <1>1 DEF Call
  <1>3. /\ call' = [call EXCEPT ![p] = new] /\ UNCHANGED <<db, relays>>
        /\ \A q \in Callers : call[q].pc # "rollback"
    BY <1>0 DEF Payment!Commit, Payment!MyTurn
  <1> HIDE DEF new
  <1>4. call'[p] = new /\ \A q \in Callers \ {p} : call'[q] = call[q] BY <1>3 DEF PaymentInv, PaymentTypes
  <1>5. PaymentTypes' BY <1>2, <1>3 DEF PaymentInv, PaymentTypes
  <1>6. PayCallInv' BY <1>2, <1>4 DEF PaymentInv, PayCallInv, Decided, Authorized
  <1>7. RollbackInv' BY <1>1, <1>2, <1>3, <1>4 DEF PaymentInv, RollbackInv
  <1>8. AttemptInv' /\ DeliveredIsPaid' BY <1>3 DEF PaymentInv, AttemptInv, Authorized, DeliveredIsPaid
  <1>. QED BY <1>5, <1>6, <1>7, <1>8 DEF PaymentInv

LEMMA RollbackStepInv ==
  ASSUME PaymentInv, NEW p \in Callers, Payment!Rollback(p)
  PROVE  PaymentInv'
  <1>1. /\ call[p].pc = "rollback" /\ db' = call[p].snapshot /\ call' = [call EXCEPT ![p] = Payment!NoCall]
        /\ UNCHANGED relays
    BY DEF Payment!Rollback
  <1>2. /\ db' \in Db /\ db'.att = db.att /\ db'.receipts = db.receipts
        /\ \A q \in Callers : call[q].pc = "rollback" => q = p
    BY <1>1 DEF PaymentInv, RollbackInv
  <1>3. call'[p] = Payment!NoCall /\ \A q \in Callers \ {p} : call'[q] = call[q] BY <1>1 DEF PaymentInv, PaymentTypes
  <1>4. PaymentTypes' BY <1>1, <1>2, NoCallFacts DEF PaymentInv, PaymentTypes
  <1>5. PayCallInv' BY <1>3, NoCallFacts DEF PaymentInv, PayCallInv, Decided, Authorized
  <1>6. RollbackInv' BY <1>2, <1>3, NoCallFacts DEF PaymentInv, RollbackInv
  <1>7. AttemptInv' /\ DeliveredIsPaid' BY <1>1, <1>2 DEF PaymentInv, AttemptInv, Authorized, DeliveredIsPaid
  <1>. QED BY <1>4, <1>5, <1>6, <1>7 DEF PaymentInv

-----------------------------------------------------------------------------
\* The operations outside the transactions touch neither attempts nor receipts, so that
\* a rollback loses at most their effect.
LEMMA OutsideInv ==
  ASSUME PaymentInv, db' \in Db, db'.att = db.att, db'.receipts = db.receipts, UNCHANGED <<call, relays>>
  PROVE  PaymentInv'
  <1>1. PaymentTypes' BY DEF PaymentInv, PaymentTypes
  <1>2. PayCallInv' BY DEF PaymentInv, PayCallInv, Decided, Authorized
  <1>3. RollbackInv' BY DEF PaymentInv, RollbackInv
  <1>4. AttemptInv' /\ DeliveredIsPaid' BY DEF PaymentInv, AttemptInv, Authorized, DeliveredIsPaid
  <1>. QED BY <1>1, <1>2, <1>3, <1>4 DEF PaymentInv

LEMMA ReconciliationInv ==
  ASSUME PaymentInv, NEW a \in Attempts,
         Payment!Enqueue(a) \/ \E s \in DOMAIN Payment!allowedReconciliationTransitions : Payment!UpdateReconciliation(a, s)
  PROVE  PaymentInv'
  <1>0. db \in Db BY DEF PaymentInv, PaymentTypes
  <1>1. \A s \in DOMAIN Payment!allowedReconciliationTransitions :
          s \in {"pending", "in_progress", "reconciled", "failed", "manual_review"}
    BY DEF Payment!allowedReconciliationTransitions
  <1>2. PICK t \in {"pending", "in_progress", "reconciled", "failed", "manual_review"} :
          db' = [db EXCEPT !.recon[a] = t] /\ UNCHANGED <<call, relays>>
    BY <1>1 DEF Payment!Enqueue, Payment!UpdateReconciliation
  <1>3. PICK rc : rc = [db.recon EXCEPT ![a] = t] OBVIOUS
  <1>4. rc \in [Attempts -> {"pending", "in_progress", "reconciled", "failed", "manual_review", Missing}]
    BY <1>0, <1>3 DEF Db
  <1>5. db' = [db EXCEPT !.recon = rc] BY <1>2, <1>3
  <1>6. db' \in Db /\ db'.att = db.att /\ db'.receipts = db.receipts BY <1>0, <1>4, <1>5 DEF Db
  <1>. QED BY <1>2, <1>6, OutsideInv

LEMMA SteadyInv == PaymentInv /\ UNCHANGED <<db, call, relays>> => PaymentInv'
  BY OutsideInv DEF PaymentInv, PaymentTypes

LEMMA PaymentNext == ASSUME PaymentParameters, PaymentInv, [Payment!Next]_(Payment!vars) PROVE PaymentInv'
  <1>1. CASE UNCHANGED Payment!vars BY <1>1, SteadyInv DEF Payment!vars
  <1>2. ASSUME NEW p \in Callers, NEW a \in Attempts, NEW c \in Challenges, NEW k \in Keys, Payment!Create(p, a, c, k)
        PROVE  PaymentInv'
    BY <1>2, CreateInv
  <1>3. ASSUME NEW p \in Callers, NEW a \in Attempts, NEW s \in Statuses, NEW k \in Keys,
               NEW r \in Payment!Presented \cup {Missing}, NEW b \in BOOLEAN, Payment!Transition(p, a, s, k, r, b)
        PROVE  PaymentInv'
    BY <1>3, TransitionInv DEF Payment!Presented
  <1>4. ASSUME NEW p \in Callers, NEW a \in Attempts, NEW r \in Payment!Presented, Payment!SaveReceipt(p, a, r) PROVE PaymentInv'
    BY <1>4, SaveReceiptInv DEF Payment!Presented
  <1>5. ASSUME NEW p \in Callers, Payment!Commit(p) \/ Payment!Rollback(p) PROVE PaymentInv'
    BY <1>5, CommitInv, RefusedInv, RollbackStepInv
  <1>6. ASSUME NEW c \in Challenges, Payment!SaveChallenge(c) PROVE PaymentInv'
    <2>1. db \in Db BY DEF PaymentInv, PaymentTypes
    <2>2. db' \in Db /\ db'.att = db.att /\ db'.receipts = db.receipts BY <1>6, <2>1 DEF Payment!SaveChallenge, Db
    <2>. QED BY <1>6, <2>2, OutsideInv DEF Payment!SaveChallenge
  <1>7. ASSUME NEW a \in Attempts, Payment!Enqueue(a) \/ \E s \in DOMAIN Payment!allowedReconciliationTransitions : Payment!UpdateReconciliation(a, s)
        PROVE  PaymentInv'
    BY <1>7, ReconciliationInv
  <1>8. ASSUME NEW a \in Attempts, Payment!Reserve(a) \/ \E s \in {"consumed", "rejected"} : Payment!MarkTerminal(a, s) PROVE PaymentInv'
    BY <1>8, SteadyInv DEF Payment!Reserve, Payment!MarkTerminal
  <1>9. CASE Payment!Tick BY <1>9, SteadyInv DEF Payment!Tick
  <1>. QED BY <1>1, <1>2, <1>3, <1>4, <1>5, <1>6, <1>7, <1>8, <1>9 DEF Payment!Next

\* Under any interleaving of concurrent calls, refused commits and their rollbacks, and
\* operations outside the transactions, no payment is delivered or settled without the
\* settled receipt and the authorization for it (repository.ts transition), and none is
\* relayed twice.
THEOREM PaymentsArePaidOnce == ASSUME PaymentParameters PROVE Payment!Spec => []PaidOnce
  <1>1. PaymentInv /\ [Payment!Next]_(Payment!vars) => PaymentInv' BY PaymentNext
  <1>2. PaymentInv => PaidOnce BY DEF PaymentInv, PaymentTypes, AttemptInv, PaidOnce, RelayOnce
  <1>. QED BY <1>1, <1>2, PaymentInit, PTL DEF Payment!Spec

-----------------------------------------------------------------------------
(***************************************************************************)
(* Publication.                                                            *)
(*                                                                         *)
(* A call may act on a record that other calls have overtaken, so every    *)
(* record a call holds, and not only the rows, must say nothing of the     *)
(* object but what stays true: that its bytes were read back, that it was  *)
(* seen sealed.                                                            *)
(***************************************************************************)

RowFields == {"state", "rev", "owner", "expired", "ref", "code", "retryable"}
CallFields == {"pc", "a", "rec", "existing", "created", "poll"}
Providers == {"ipfs", "greenfield"}

\* Object o holds the bytes of attempt a for good.
Kept(a, o) == o.bytes[Publisher!Provider(a)] = "good" /\ (a \notin Ipfs => o.object = "sealed")

AttemptOK(a, r, o) ==
  /\ DOMAIN r = RowFields
  /\ r.state = "verified" => Kept(a, o)
  /\ r.state = "reading_back" /\ a \notin Ipfs => o.object = "sealed"

\* The record a call holds may be out of date, but what its state says of the object stays true.
PublishCallOK(w, o) ==
  /\ DOMAIN w = CallFields
  /\ w.pc # "idle" => w.a \in Publications
  /\ w.pc \notin {"idle", "lease"} => DOMAIN w.rec = {"row", "loc"} /\ AttemptOK(w.a, w.rec.row, o)
  /\ w.pc = "read" /\ w.a \notin Ipfs => o.object = "sealed"

ObjectOK(o) == DOMAIN o = {"object", "indexed", "bytes"} /\ DOMAIN o.bytes = Providers

LocatorsOK(L) ==
  /\ DOMAIN L = {"of", "last"} /\ DOMAIN L.of = Providers
  /\ \A v \in Providers :
       /\ DOMAIN L.of[v] = {"attempt", "verified"}
       /\ L.of[v].attempt # "none" => L.of[v].attempt \in Publications /\ Publisher!Provider(L.of[v].attempt) = v

VerificationsOK(V, o) ==
  /\ DOMAIN V = {"of", "latest"} /\ DOMAIN V.of = Publications
  /\ V.latest # "none" => V.latest \in Publications
  /\ \A a \in Publications : V.of[a] = "verified" => Kept(a, o)

PublisherInv ==
  /\ DOMAIN att = Publications /\ \A a \in Publications : AttemptOK(a, att[a], object)
  /\ DOMAIN worker = Callers /\ \A p \in Callers : PublishCallOK(worker[p], object)
  /\ ObjectOK(object) /\ LocatorsOK(locators) /\ VerificationsOK(verifs, object)

\* The object moves on: what is sealed or kept stays so.
Outlives(o, q) ==
  /\ ObjectOK(q)
  /\ o.object = "sealed" => q.object = "sealed"
  /\ \A a \in Publications : Kept(a, o) => Kept(a, q)

\* What a step may write.
PublisherWrites ==
  /\ Outlives(object, object')
  /\ att' = att \/ \E a \in Publications : \E r : att' = [att EXCEPT ![a] = r] /\ AttemptOK(a, r, object')
  /\ worker' = worker \/ \E p \in Callers : \E w : worker' = [worker EXCEPT ![p] = w] /\ PublishCallOK(w, object')
  /\ locators' = locators \/ LocatorsOK(locators')
  /\ verifs' = verifs \/ VerificationsOK(verifs', object')

LEMMA PublisherMoves == ASSUME PublisherInv, PublisherWrites PROVE PublisherInv'
  <1>1. PICK q : q = object' OBVIOUS
  <1>2. Outlives(object, q) BY <1>1 DEF PublisherWrites
  <1>3. \A a \in Publications : \A r : AttemptOK(a, r, object) => AttemptOK(a, r, q) BY <1>2 DEF Outlives, AttemptOK
  <1>4. \A w : PublishCallOK(w, object) => PublishCallOK(w, q) BY <1>2, <1>3 DEF Outlives, PublishCallOK
  <1>5. VerificationsOK(verifs', q)
    <2>1. VerificationsOK(verifs, q) BY <1>2 DEF PublisherInv, VerificationsOK, Outlives
    <2>. QED BY <1>1, <2>1 DEF PublisherWrites
  <1>6. LocatorsOK(locators') BY DEF PublisherWrites, PublisherInv
  <1>7. DOMAIN att' = Publications /\ \A a \in Publications : AttemptOK(a, att'[a], q)
    <2>1. CASE att' = att BY <1>3, <2>1 DEF PublisherInv
    <2>2. CASE \E a \in Publications : \E r : att' = [att EXCEPT ![a] = r] /\ AttemptOK(a, r, q)
      <3>1. PICK a \in Publications : \E r : att' = [att EXCEPT ![a] = r] /\ AttemptOK(a, r, q) BY <2>2
      <3>2. PICK r : att' = [att EXCEPT ![a] = r] /\ AttemptOK(a, r, q) BY <3>1
      <3>3. DOMAIN att' = Publications /\ \A b \in Publications : att'[b] = IF b = a THEN r ELSE att[b]
        BY <3>2 DEF PublisherInv
      <3>. QED BY <1>3, <3>2, <3>3 DEF PublisherInv
    <2>. QED BY <1>1, <2>1, <2>2 DEF PublisherWrites
  <1>8. DOMAIN worker' = Callers /\ \A p \in Callers : PublishCallOK(worker'[p], q)
    <2>1. CASE worker' = worker BY <1>4, <2>1 DEF PublisherInv
    <2>2. CASE \E p \in Callers : \E w : worker' = [worker EXCEPT ![p] = w] /\ PublishCallOK(w, q)
      <3>1. PICK p \in Callers : \E w : worker' = [worker EXCEPT ![p] = w] /\ PublishCallOK(w, q) BY <2>2
      <3>2. PICK w : worker' = [worker EXCEPT ![p] = w] /\ PublishCallOK(w, q) BY <3>1
      <3>3. DOMAIN worker' = Callers /\ \A r \in Callers : worker'[r] = IF r = p THEN w ELSE worker[r]
        BY <3>2 DEF PublisherInv
      <3>. QED BY <1>4, <3>2, <3>3 DEF PublisherInv
    <2>. QED BY <1>1, <2>1, <2>2 DEF PublisherWrites
  <1>9. ObjectOK(q) BY <1>2 DEF Outlives
  <1>. QED BY <1>1, <1>5, <1>6, <1>7, <1>8, <1>9 DEF PublisherInv

LEMMA SameObject == ASSUME PublisherInv, object' = object PROVE Outlives(object, object')
  BY DEF PublisherInv, Outlives

\* A call that runs goes to its next place.
LEMMA GoesOn ==
  ASSUME PublisherInv, NEW p \in Callers, NEW place, worker[p].pc \notin {"idle", "lease"},
         Publisher!Goto(p, place), UNCHANGED <<att, locators, verifs>>, Outlives(object, object'),
         place = "read" /\ worker[p].a \notin Ipfs => object.object = "sealed"
  PROVE  PublisherInv'
  <1>1. PICK w : w = [worker[p] EXCEPT !.pc = place] OBVIOUS
  <1>2. worker' = [worker EXCEPT ![p] = w] BY <1>1 DEF Publisher!Goto, PublisherInv
  <1>3. PublishCallOK(worker[p], object) BY DEF PublisherInv
  <1>4. DOMAIN w = CallFields /\ w.a = worker[p].a /\ w.rec = worker[p].rec /\ w.pc = place
    BY <1>1, <1>3 DEF PublishCallOK, CallFields
  <1>5. PublishCallOK(w, object)
    BY <1>3, <1>4 DEF PublishCallOK
  <1>6. PublishCallOK(w, object')
    <2>1. PICK q : q = object' OBVIOUS
    <2>2. PublishCallOK(w, q) BY <1>5, <2>1 DEF PublishCallOK, AttemptOK, Outlives
    <2>. QED BY <2>1, <2>2
  <1>7. PublisherWrites BY <1>2, <1>6 DEF PublisherWrites
  <1>. QED BY <1>7, PublisherMoves

\* What transition() may be asked to save.
Saves(p, next, patch, then) ==
  /\ DOMAIN patch.row = RowFields /\ then \notin {"idle", "lease"}
  /\ next = "verified" => Kept(worker[p].a, object)
  /\ patch.ver = "verified" => Kept(worker[p].a, object)
  /\ next = "reading_back" /\ worker[p].a \notin Ipfs => object.object = "sealed"
  /\ then = "read" /\ worker[p].a \notin Ipfs => object.object = "sealed"

LEMMA SavedLocators ==
  ASSUME LocatorsOK(locators), NEW a \in Publications, NEW present, NEW verified
  PROVE  LocatorsOK(Publisher!AddLocator(a, present, verified))
  <1>1. Publisher!Provider(a) \in Providers BY DEF Publisher!Provider, Providers
  <1>2. PICK v : v = Publisher!Provider(a) OBVIOUS
  <1>3. PICK row : row = IF locators.of[v].attempt = "none" THEN [attempt |-> a, verified |-> verified]
                         ELSE [locators.of[v] EXCEPT !.verified = @ \/ verified]
    OBVIOUS
  <1>4. DOMAIN row = {"attempt", "verified"} /\ (row.attempt # "none" => row.attempt \in Publications /\ Publisher!Provider(row.attempt) = v)
    BY <1>1, <1>2, <1>3 DEF LocatorsOK
  <1>5. PICK of : of = [locators.of EXCEPT ![v] = row] OBVIOUS
  <1>6. DOMAIN of = Providers /\ \A u \in Providers : of[u] = IF u = v THEN row ELSE locators.of[u]
    BY <1>5 DEF LocatorsOK
  <1>7. PICK last : Publisher!AddLocator(a, present, verified) = IF ~present THEN locators ELSE [of |-> of, last |-> last]
    BY <1>2, <1>3, <1>5 DEF Publisher!AddLocator, Publisher!Unset
  <1>8. LocatorsOK([of |-> of, last |-> last]) BY <1>4, <1>6 DEF LocatorsOK
  <1>. QED BY <1>7, <1>8

LEMMA SavedVerification ==
  ASSUME VerificationsOK(verifs, object), NEW a \in Publications, NEW v, v = "verified" => Kept(a, object)
  PROVE  VerificationsOK(Publisher!AddVerification(a, v), object)
  <1>1. PICK of : of = [verifs.of EXCEPT ![a] = v] OBVIOUS
  <1>2. DOMAIN of = Publications /\ \A b \in Publications : of[b] = IF b = a THEN v ELSE verifs.of[b]
    BY <1>1 DEF VerificationsOK
  <1>3. VerificationsOK([of |-> of, latest |-> a], object) BY <1>2 DEF VerificationsOK
  <1>. QED BY <1>1, <1>3 DEF Publisher!AddVerification

LEMMA Saved ==
  ASSUME PublisherInv, NEW p \in Callers, worker[p].pc \notin {"idle", "lease"}, object' = object,
         NEW next, NEW patch, NEW then, Publisher!Transition(p, next, patch, then), Saves(p, next, patch, then)
  PROVE  PublisherInv'
  <1>0. Outlives(object, object') BY SameObject
  <1>1. PublishCallOK(worker[p], object) /\ worker[p].a \in Publications BY DEF PublisherInv, PublishCallOK
  <1>2. PICK row : row = [patch.row EXCEPT !.state = next, !.rev = worker[p].rec.row.rev + 1] OBVIOUS
  <1>3. DOMAIN row = RowFields /\ row.state = next BY <1>2 DEF Saves, RowFields
  <1>4. AttemptOK(worker[p].a, row, object) BY <1>3 DEF AttemptOK, Saves
  <1>5. CASE Publisher!Goto(p, "release") /\ UNCHANGED <<att, locators, verifs>>
    BY <1>0, <1>5, GoesOn
  <1>6. CASE /\ att' = [att EXCEPT ![worker[p].a] = row]
             /\ locators' = Publisher!AddLocator(worker[p].a, patch.loc, next = "verified")
             /\ verifs' = Publisher!AddVerification(worker[p].a, patch.ver)
             /\ \E n : worker' = [worker EXCEPT ![p] =
                                    [worker[p] EXCEPT !.pc = then, !.rec = [row |-> row, loc |-> patch.loc], !.poll = n]]
    <2>1. PICK n : worker' = [worker EXCEPT ![p] =
                                [worker[p] EXCEPT !.pc = then, !.rec = [row |-> row, loc |-> patch.loc], !.poll = n]]
      BY <1>6
    <2>2. PICK w : w = [worker[p] EXCEPT !.pc = then, !.rec = [row |-> row, loc |-> patch.loc], !.poll = n] OBVIOUS
    <2>3. DOMAIN w = CallFields /\ w.pc = then /\ w.a = worker[p].a /\ w.rec = [row |-> row, loc |-> patch.loc]
      BY <1>1, <2>2 DEF PublishCallOK, CallFields
    <2>4. PublishCallOK(w, object) BY <1>1, <1>4, <2>3 DEF PublishCallOK, Saves
    <2>5. LocatorsOK(locators') BY <1>1, <1>6, SavedLocators DEF PublisherInv
    <2>6. VerificationsOK(verifs', object) BY <1>1, <1>6, SavedVerification DEF PublisherInv, Saves
    <2>7. PublisherWrites BY <1>0, <1>1, <1>4, <1>6, <2>1, <2>2, <2>4, <2>5, <2>6 DEF PublisherWrites
    <2>. QED BY <2>7, PublisherMoves
  <1>. QED BY <1>2, <1>5, <1>6 DEF Publisher!Transition

\* Saving the record held, with what was found of the object.
LEMMA SavedAsHeld ==
  ASSUME PublisherInv, NEW p \in Callers, worker[p].pc \notin {"idle", "lease"}, object' = object,
         NEW next, NEW patch, NEW then, Publisher!Transition(p, next, patch, then),
         DOMAIN patch.row = RowFields, patch.ver # "verified",
         next # "verified", then \notin {"idle", "lease"},
         next = "reading_back" \/ then = "read" => (worker[p].a \in Ipfs \/ object.object = "sealed")
  PROVE  PublisherInv'
  BY Saved DEF Saves

LEMMA HeldRow == ASSUME PublisherInv, NEW p \in Callers, worker[p].pc \notin {"idle", "lease"}
                 PROVE  DOMAIN worker[p].rec.row = RowFields
  BY DEF PublisherInv, PublishCallOK, AttemptOK

\* The three ways to save: the row as it is, as failed, as referring to the object.
LEMMA Moved ==
  ASSUME PublisherInv, NEW p \in Callers, worker[p].pc \notin {"idle", "lease"}, object' = object,
         NEW next, NEW then, Publisher!Move(p, next, then), next # "verified", then \notin {"idle", "lease"},
         next = "reading_back" \/ then = "read" => (worker[p].a \in Ipfs \/ object.object = "sealed")
  PROVE  PublisherInv'
  <1>1. PICK patch : patch = Publisher!Same(p) OBVIOUS
  <1>2. patch.row = worker[p].rec.row /\ patch.ver = "none" BY <1>1 DEF Publisher!Same, Publisher!Unset
  <1>3. Publisher!Transition(p, next, patch, then) BY <1>1 DEF Publisher!Move
  <1>. QED BY <1>2, <1>3, HeldRow, SavedAsHeld

LEMMA Failed ==
  ASSUME PublisherInv, NEW p \in Callers, worker[p].pc \notin {"idle", "lease"}, object' = object,
         NEW next, NEW code, NEW v, Publisher!FailWith(p, next, code, v), v # "verified",
         next \notin {"verified", "reading_back"}
  PROVE  PublisherInv'
  <1>1. PICK patch : patch = [row |-> [worker[p].rec.row EXCEPT !.code = code, !.retryable = code \notin Publisher!NotRetryable],
                              loc |-> worker[p].rec.loc, ver |-> v]
    OBVIOUS
  <1>2. DOMAIN patch.row = RowFields /\ patch.ver = v BY <1>1, HeldRow
  <1>3. Publisher!Transition(p, next, patch, "release") BY <1>1 DEF Publisher!FailWith
  <1>. QED BY <1>2, <1>3, SavedAsHeld

LEMMA FailedPlainly ==
  ASSUME PublisherInv, NEW p \in Callers, worker[p].pc \notin {"idle", "lease"}, object' = object,
         NEW next, NEW code, Publisher!Fail(p, next, code), next \notin {"verified", "reading_back"}
  PROVE  PublisherInv'
  <1>1. Publisher!FailWith(p, next, code, "none") BY DEF Publisher!Fail, Publisher!Unset
  <1>. QED BY <1>1, Failed

LEMMA Found ==
  ASSUME PublisherInv, NEW p \in Callers, worker[p].pc \notin {"idle", "lease"}, object' = object,
         NEW next, NEW then,
         \/ Publisher!Transition(p, next, Publisher!WithReference(p), then)
         \/ Publisher!Transition(p, next, [Publisher!WithReference(p) EXCEPT !.loc = TRUE], then),
         next # "verified", then \notin {"idle", "lease"},
         next = "reading_back" \/ then = "read" => (worker[p].a \in Ipfs \/ object.object = "sealed")
  PROVE  PublisherInv'
  <1>1. PICK same : same = Publisher!Same(p) OBVIOUS
  <1>2. same = [row |-> worker[p].rec.row, loc |-> worker[p].rec.loc, ver |-> "none"]
    BY <1>1 DEF Publisher!Same, Publisher!Unset
  <1>3. PICK patch : /\ patch = [same EXCEPT !.row.ref = TRUE] \/ patch = [[same EXCEPT !.row.ref = TRUE] EXCEPT !.loc = TRUE]
                     /\ Publisher!Transition(p, next, patch, then)
    BY <1>1 DEF Publisher!WithReference
  <1>4. DOMAIN patch.row = RowFields /\ patch.ver = "none" BY <1>2, <1>3, HeldRow
  <1>. QED BY <1>3, <1>4, SavedAsHeld

LEMMA FoundUnsealed ==
  ASSUME PublisherInv, NEW p \in Callers, worker[p].pc \notin {"idle", "lease"}, object' = object,
         Publisher!Transition(p, "uploading", Publisher!WithReference(p), "upload")
  PROVE  PublisherInv'
  <1>1. PICK same : same = Publisher!Same(p) OBVIOUS
  <1>2. same = [row |-> worker[p].rec.row, loc |-> worker[p].rec.loc, ver |-> "none"]
    BY <1>1 DEF Publisher!Same, Publisher!Unset
  <1>3. PICK patch : patch = [same EXCEPT !.row.ref = TRUE] /\ Publisher!Transition(p, "uploading", patch, "upload")
    BY <1>1 DEF Publisher!WithReference
  <1>4. DOMAIN patch.row = RowFields /\ patch.ver = "none" BY <1>2, <1>3, HeldRow
  <1>5. Publisher!Transition(p, "uploading", patch, "upload") BY <1>3
  <1>. QED BY <1>4, <1>5, SavedAsHeld

LEMMA TriedAgain ==
  ASSUME PublisherInv, NEW p \in Callers, worker[p].pc \notin {"idle", "lease"}, object' = object,
         NEW clear, Publisher!Retry(p, clear)
  PROVE  PublisherInv'
  <1>1. PICK patch :
          /\ patch = [row |-> [worker[p].rec.row EXCEPT !.code = "none", !.retryable = FALSE, !.ref = @ /\ ~clear],
                      loc |-> worker[p].rec.loc /\ ~clear, ver |-> "none"]
          /\ Publisher!Transition(p, "retrying", patch, "repend")
    BY DEF Publisher!Retry, Publisher!Unset
  <1>2. DOMAIN patch.row = RowFields /\ patch.ver = "none" BY <1>1, HeldRow
  <1>3. Publisher!Transition(p, "retrying", patch, "repend") BY <1>1
  <1>. QED BY <1>2, <1>3, SavedAsHeld

\* Going on without saving, where the object is as it was.
LEMMA GoesOnOnly ==
  ASSUME PublisherInv, NEW p \in Callers, NEW place, worker[p].pc \notin {"idle", "lease"},
         Publisher!GotoOnly(p, place), object' = object,
         place = "read" /\ worker[p].a \notin Ipfs => object.object = "sealed"
  PROVE  PublisherInv'
  BY SameObject, GoesOn DEF Publisher!GotoOnly

-----------------------------------------------------------------------------
\* The steps of a call.

LEMMA PublishesCreateOrGet ==
  ASSUME PublisherInv, NEW p \in Callers, NEW a \in Publications, Publisher!CreateOrGet(p, a) PROVE PublisherInv'
  <1>1. PICK row : row = Publisher!CreatedRow(a) OBVIOUS
  <1>2. AttemptOK(a, row, object)
    <2>1. AttemptOK(a, Publisher!newRecord, object)
      BY DEF AttemptOK, Publisher!newRecord, Publisher!NoAttempt, RowFields
    <2>. QED BY <1>1, <2>1 DEF Publisher!CreatedRow, PublisherInv
  <1>3. PICK w : /\ worker' = [worker EXCEPT ![p] = w]
                 /\ \/ w = Publisher!Idle
                    \/ \E b : w = [Publisher!Idle EXCEPT !.pc = "lease", !.a = a, !.existing = row, !.created = b]
    BY <1>1 DEF Publisher!CreateOrGet
  <1>4. PublishCallOK(w, object)
    <2>1. CASE w = Publisher!Idle BY <2>1 DEF PublishCallOK, Publisher!Idle, CallFields
    <2>2. ASSUME NEW b, w = [Publisher!Idle EXCEPT !.pc = "lease", !.a = a, !.existing = row, !.created = b]
          PROVE  PublishCallOK(w, object)
      <3>1. DOMAIN w = CallFields /\ w.pc = "lease" /\ w.a = a BY <2>2 DEF Publisher!Idle, CallFields
      <3>. QED BY <3>1 DEF PublishCallOK
    <2>. QED BY <1>3, <2>1, <2>2
  <1>5. att' = [att EXCEPT ![a] = row] /\ UNCHANGED <<locators, verifs, object>>
    BY <1>1 DEF Publisher!CreateOrGet
  <1>6. PublisherWrites BY <1>2, <1>3, <1>4, <1>5, SameObject DEF PublisherWrites
  <1>. QED BY <1>6, PublisherMoves

LEMMA PublishesAcquireLease ==
  ASSUME PublisherInv, NEW p \in Callers, Publisher!AcquireLease(p) PROVE PublisherInv'
  <1>1. UNCHANGED <<locators, verifs, object>> /\ worker[p].pc = "lease" BY DEF Publisher!AcquireLease
  <1>2. PublishCallOK(worker[p], object) /\ worker[p].a \in Publications BY <1>1 DEF PublisherInv, PublishCallOK
  <1>3. PublishCallOK(Publisher!Idle, object) BY DEF PublishCallOK, Publisher!Idle, CallFields
  <1>4. CASE worker' = [worker EXCEPT ![p] = Publisher!Idle] /\ att' = att
    BY <1>1, <1>3, <1>4, SameObject, PublisherMoves DEF PublisherWrites
  <1>5. CASE ~(worker' = [worker EXCEPT ![p] = Publisher!Idle] /\ att' = att)
    <2>1. PICK row : row = [att[worker[p].a] EXCEPT !.rev = @ + 1, !.owner = p, !.expired = FALSE] OBVIOUS
    <2>2. AttemptOK(worker[p].a, att[worker[p].a], object) BY <1>2 DEF PublisherInv
    <2>3. AttemptOK(worker[p].a, row, object) BY <2>1, <2>2 DEF AttemptOK, RowFields
    <2>4. att' = [att EXCEPT ![worker[p].a] = row] BY <1>5, <2>1 DEF Publisher!AcquireLease, Publisher!Finish
    <2>5. PICK w : /\ worker' = [worker EXCEPT ![p] = w]
                   /\ \/ w = [worker[p] EXCEPT !.pc = "resume", !.rec = Publisher!hydrate(worker[p].a, row)]
                      \/ w = Publisher!Idle
      BY <1>5, <2>1 DEF Publisher!AcquireLease, Publisher!Finish
    <2>6. PublishCallOK(w, object)
      <3>1. CASE w = [worker[p] EXCEPT !.pc = "resume", !.rec = Publisher!hydrate(worker[p].a, row)]
        <4>1. DOMAIN w = CallFields /\ w.pc = "resume" /\ w.a = worker[p].a /\ w.rec = Publisher!hydrate(worker[p].a, row)
          BY <1>2, <3>1 DEF PublishCallOK, CallFields
        <4>2. DOMAIN w.rec = {"row", "loc"} /\ w.rec.row = row BY <4>1 DEF Publisher!hydrate
        <4>. QED BY <1>2, <2>3, <4>1, <4>2 DEF PublishCallOK
      <3>. QED BY <1>3, <2>5, <3>1
    <2>7. PublisherWrites BY <1>1, <1>2, <2>3, <2>4, <2>5, <2>6, SameObject DEF PublisherWrites
    <2>. QED BY <2>7, PublisherMoves
  <1>. QED BY <1>4, <1>5

LEMMA PublishesReleaseLease ==
  ASSUME PublisherInv, NEW p \in Callers, Publisher!ReleaseLease(p) PROVE PublisherInv'
  <1>1. UNCHANGED <<locators, verifs, object>> /\ worker[p].pc = "release" /\ worker' = [worker EXCEPT ![p] = Publisher!Idle]
    BY DEF Publisher!ReleaseLease, Publisher!Finish
  <1>2. worker[p].a \in Publications BY <1>1 DEF PublisherInv, PublishCallOK
  <1>3. PublishCallOK(Publisher!Idle, object) BY DEF PublishCallOK, Publisher!Idle, CallFields
  <1>4. PICK row : row = [att[worker[p].a] EXCEPT !.rev = @ + 1, !.owner = Publisher!Unset, !.expired = FALSE] OBVIOUS
  <1>5. AttemptOK(worker[p].a, row, object)
    <2>1. AttemptOK(worker[p].a, att[worker[p].a], object) BY <1>2 DEF PublisherInv
    <2>. QED BY <1>4, <2>1 DEF AttemptOK, RowFields
  <1>6. att' = att \/ att' = [att EXCEPT ![worker[p].a] = row] BY <1>4 DEF Publisher!ReleaseLease
  <1>7. PublisherWrites BY <1>1, <1>2, <1>3, <1>5, <1>6, SameObject DEF PublisherWrites
  <1>. QED BY <1>7, PublisherMoves

LEMMA PublishesCrash == ASSUME PublisherInv, NEW p \in Callers, Publisher!Crash(p) PROVE PublisherInv'
  <1>1. UNCHANGED <<att, locators, verifs, object>> /\ worker' = [worker EXCEPT ![p] = Publisher!Idle]
    BY DEF Publisher!Crash, Publisher!Finish
  <1>2. PublishCallOK(Publisher!Idle, object) BY DEF PublishCallOK, Publisher!Idle, CallFields
  <1>3. PublisherWrites BY <1>1, <1>2, SameObject DEF PublisherWrites
  <1>. QED BY <1>3, PublisherMoves

LEMMA PublishesExpireLease == ASSUME PublisherInv, NEW a \in Publications, Publisher!ExpireLease(a) PROVE PublisherInv'
  <1>1. UNCHANGED <<worker, locators, verifs, object>> /\ att' = [att EXCEPT ![a].expired = TRUE] BY DEF Publisher!ExpireLease
  <1>2. PICK row : row = [att[a] EXCEPT !.expired = TRUE] OBVIOUS
  <1>3. AttemptOK(a, att[a], object) BY DEF PublisherInv
  <1>4. AttemptOK(a, row, object) BY <1>2, <1>3 DEF AttemptOK, RowFields
  <1>5. att' = [att EXCEPT ![a] = row] BY <1>1, <1>2
  <1>6. PublisherWrites BY <1>1, <1>4, <1>5, SameObject DEF PublisherWrites
  <1>. QED BY <1>6, PublisherMoves

LEMMA PublishesResume == ASSUME PublisherInv, NEW p \in Callers, Publisher!Resume(p) PROVE PublisherInv'
  <1>1. object' = object /\ worker[p].pc = "resume" BY DEF Publisher!Resume
  <1>2. \/ Publisher!GotoOnly(p, "reconcile") \/ Publisher!Retry(p, FALSE)
        \/ Publisher!Move(p, "pending", "validate") \/ Publisher!GotoOnly(p, "validate")
    BY DEF Publisher!Resume
  <1>. QED BY <1>1, <1>2, GoesOnOnly, TriedAgain, Moved

LEMMA PublishesRepend == ASSUME PublisherInv, NEW p \in Callers, Publisher!Repend(p) PROVE PublisherInv'
  <1>1. object' = object /\ worker[p].pc = "repend" /\ Publisher!Move(p, "pending", "validate") BY DEF Publisher!Repend
  <1>. QED BY <1>1, Moved

LEMMA PublishesReconcileUnknownCreate ==
  ASSUME PublisherInv, NEW p \in Callers, Publisher!ReconcileUnknownCreate(p) PROVE PublisherInv'
  <1>1. object' = object /\ worker[p].pc = "reconcile" BY DEF Publisher!ReconcileUnknownCreate
  <1>2. Publisher!GotoOnly(p, "release") \/ Publisher!Retry(p, TRUE) BY DEF Publisher!ReconcileUnknownCreate
  <1>. QED BY <1>1, <1>2, GoesOnOnly, TriedAgain

LEMMA PublishesValidate == ASSUME PublisherInv, NEW p \in Callers, Publisher!Validate(p) PROVE PublisherInv'
  <1>1. object' = object /\ worker[p].pc = "validate" BY DEF Publisher!Validate
  <1>2. Publisher!Move(p, "validating", "run") \/ Publisher!GotoOnly(p, "run") BY DEF Publisher!Validate
  <1>. QED BY <1>1, <1>2, GoesOnOnly, Moved

LEMMA PublishesRun == ASSUME PublisherInv, NEW p \in Callers, Publisher!Run(p) PROVE PublisherInv'
  <1>1. object' = object /\ worker[p].pc = "run" BY DEF Publisher!Run
  <1>2. PublishCallOK(worker[p], object) BY DEF PublisherInv
  <1>3. CASE Publisher!Fail(p, "validation_failed", "ARTIFACT_TOO_LARGE") BY <1>1, <1>3, FailedPlainly
  <1>4. CASE worker[p].a \in Ipfs /\ Publisher!runIpfs(p)
    <2>1. \/ Publisher!GotoOnly(p, "read") \/ Publisher!Fail(p, "readback_failed", "MISSING_OBJECT")
          \/ Publisher!Move(p, "uploading", "upload")
      BY <1>4 DEF Publisher!runIpfs
    <2>. QED BY <1>1, <1>4, <2>1, GoesOnOnly, FailedPlainly, Moved
  <1>5. CASE worker[p].a \notin Ipfs /\ Publisher!runGreenfield(p)
    <2>1. CASE worker[p].rec.row.state = "reading_back"
      <3>1. object.object = "sealed" BY <1>1, <1>2, <1>5, <2>1 DEF PublishCallOK, AttemptOK
      <3>2. Publisher!GotoOnly(p, "read") \/ Publisher!Fail(p, "readback_failed", "MISSING_OBJECT")
        BY <1>5, <2>1 DEF Publisher!runGreenfield
      <3>. QED BY <1>1, <3>1, <3>2, GoesOnOnly, FailedPlainly
    <2>2. CASE worker[p].rec.row.state # "reading_back"
      <3>1. \/ Publisher!GotoOnly(p, "seal") \/ Publisher!Move(p, "creating_object", "inspect")
            \/ Publisher!GotoOnly(p, "inspect") \/ Publisher!Fail(p, "create_failed", "CREATE_FAILED")
            \/ Publisher!Move(p, "uploading", "upload") \/ Publisher!GotoOnly(p, "upload")
            \/ Publisher!Move(p, "awaiting_seal", "seal") \/ Publisher!Fail(p, "provider_failed", "PROVIDER_FAILED")
        BY <1>5, <2>2 DEF Publisher!runGreenfield
      <3>. QED BY <1>1, <3>1, GoesOnOnly, FailedPlainly, Moved
    <2>. QED BY <2>1, <2>2
  <1>. QED BY <1>3, <1>4, <1>5 DEF Publisher!Run

LEMMA PublishesInspectObject == ASSUME PublisherInv, NEW p \in Callers, Publisher!InspectObject(p) PROVE PublisherInv'
  <1>1. object' = object /\ worker[p].pc = "inspect" BY DEF Publisher!InspectObject
  <1>2. \/ Publisher!Fail(p, "provider_failed", "PROVIDER_FAILED") \/ Publisher!GotoOnly(p, "create")
        \/ Publisher!Transition(p, "uploading", Publisher!WithReference(p), "upload")
        \/ Publisher!Transition(p, "awaiting_seal", [Publisher!WithReference(p) EXCEPT !.loc = TRUE], "seal")
    BY DEF Publisher!InspectObject
  <1>. QED BY <1>1, <1>2, GoesOnOnly, FailedPlainly, Found

LEMMA PublishesCreateObject == ASSUME PublisherInv, NEW p \in Callers, Publisher!CreateObject(p) PROVE PublisherInv'
  <1>1. object' = object /\ worker[p].pc = "create" BY DEF Publisher!CreateObject
  <1>2. \/ Publisher!Fail(p, "create_failed", "PROVIDER_FAILED") \/ Publisher!GotoOnly(p, "broadcast")
        \/ Publisher!Transition(p, "uploading", Publisher!WithReference(p), "upload")
    BY DEF Publisher!CreateObject
  <1>. QED BY <1>1, <1>2, GoesOnOnly, FailedPlainly, FoundUnsealed

LEMMA PublishesCreated == ASSUME PublisherInv, NEW p \in Callers, Publisher!Created(p) PROVE PublisherInv'
  <1>1. object' = object /\ worker[p].pc = "created" BY DEF Publisher!Created
  <1>2. Publisher!Transition(p, "uploading", Publisher!WithReference(p), "upload") BY DEF Publisher!Created
  <1>. QED BY <1>1, <1>2, FoundUnsealed

LEMMA PublishesCreateUnknown == ASSUME PublisherInv, NEW p \in Callers, Publisher!CreateUnknown(p) PROVE PublisherInv'
  <1>1. object' = object /\ worker[p].pc = "unknown" BY DEF Publisher!CreateUnknown
  <1>2. \/ Publisher!Transition(p, "uploading", Publisher!WithReference(p), "upload")
        \/ Publisher!Fail(p, "create_failed", "CREATE_UNKNOWN")
    BY DEF Publisher!CreateUnknown
  <1>. QED BY <1>1, <1>2, FailedPlainly, FoundUnsealed

LEMMA PublishesUploaded == ASSUME PublisherInv, NEW p \in Callers, Publisher!Uploaded(p) PROVE PublisherInv'
  <1>1. object' = object /\ worker[p].pc = "uploaded" BY DEF Publisher!Uploaded
  <1>2. CASE worker[p].a \in Ipfs
    <2>1. Publisher!Transition(p, "reading_back", [Publisher!WithReference(p) EXCEPT !.loc = TRUE], "read")
      BY <1>2 DEF Publisher!Uploaded
    <2>. QED BY <1>1, <1>2, <2>1, Found
  <1>3. CASE worker[p].a \notin Ipfs
    <2>1. Publisher!Transition(p, "awaiting_seal", [Publisher!WithReference(p) EXCEPT !.loc = TRUE], "seal")
      BY <1>3 DEF Publisher!Uploaded
    <2>. QED BY <1>1, <2>1, Found
  <1>. QED BY <1>2, <1>3

LEMMA PublishesUploadFailed == ASSUME PublisherInv, NEW p \in Callers, Publisher!UploadFailed(p) PROVE PublisherInv'
  <1>1. object' = object /\ worker[p].pc = "upload_error" /\ Publisher!Fail(p, "upload_failed", "UPLOAD_FAILED")
    BY DEF Publisher!UploadFailed
  <1>. QED BY <1>1, FailedPlainly

LEMMA PublishesAwaitSeal == ASSUME PublisherInv, NEW p \in Callers, Publisher!AwaitSeal(p) PROVE PublisherInv'
  <1>1. object' = object /\ worker[p].pc = "seal" BY DEF Publisher!AwaitSeal
  <1>2. CASE Publisher!SealStatus = "sealed" /\ Publisher!Move(p, "reading_back", "read")
    <2>1. object.object = "sealed"
      <3>1. PICK s : s = Publisher!View OBVIOUS
      <3>2. s = "sealed" BY <1>2, <3>1 DEF Publisher!SealStatus
      <3>. QED BY <3>1, <3>2 DEF Publisher!View
    <2>. QED BY <1>1, <1>2, <2>1, Moved
  <1>3. CASE \/ Publisher!Fail(p, "provider_failed", "PROVIDER_FAILED") \/ Publisher!Fail(p, "readback_failed", "MISSING_OBJECT")
             \/ Publisher!Move(p, "awaiting_seal", "seal") \/ Publisher!Fail(p, "seal_timeout", "TIMEOUT")
    BY <1>1, <1>3, FailedPlainly, Moved
  <1>. QED BY <1>2, <1>3 DEF Publisher!AwaitSeal

LEMMA PublishesVerifyReadback == ASSUME PublisherInv, NEW p \in Callers, Publisher!VerifyReadback(p) PROVE PublisherInv'
  <1>1. object' = object /\ worker[p].pc = "read" BY DEF Publisher!VerifyReadback
  <1>2. CASE \/ Publisher!FailWith(p, "readback_failed", "PROVIDER_FAILED", "failed")
             \/ Publisher!FailWith(p, "readback_failed", "MISSING_OBJECT", "failed")
             \/ Publisher!FailWith(p, "hash_mismatch", "HASH_MISMATCH", "failed")
    BY <1>1, <1>2, Failed
  <1>3. CASE /\ object.bytes[Publisher!Provider(worker[p].a)] = "good"
             /\ Publisher!Transition(p, "verified", [Publisher!Same(p) EXCEPT !.ver = "verified"], "release")
    <2>1. Kept(worker[p].a, object) BY <1>1, <1>3 DEF PublisherInv, PublishCallOK, Kept
    <2>2. PICK same : same = Publisher!Same(p) OBVIOUS
    <2>3. PICK patch : patch = [same EXCEPT !.ver = "verified"] /\ Publisher!Transition(p, "verified", patch, "release")
      BY <1>3, <2>2
    <2>4. DOMAIN patch.row = RowFields BY <1>1, <2>2, <2>3, HeldRow DEF Publisher!Same
    <2>5. Saves(p, "verified", patch, "release") BY <2>1, <2>4 DEF Saves
    <2>. QED BY <1>1, <2>3, <2>5, Saved
  <1>. QED BY <1>2, <1>3 DEF Publisher!VerifyReadback

LEMMA PublishesBroadcast == ASSUME PublisherInv, NEW p \in Callers, Publisher!Broadcast(p) PROVE PublisherInv'
  <1>1. UNCHANGED <<att, locators, verifs>> /\ worker[p].pc = "broadcast" BY DEF Publisher!Broadcast
  <1>2. PICK place : Publisher!Goto(p, place) /\ place \in {"created", "unknown"} BY DEF Publisher!Broadcast
  <1>3. Outlives(object, object')
    <2>1. \/ object' = object
          \/ \E i : object' = [object EXCEPT !.object = "created", !.indexed = i] /\ object.object = "absent"
      BY DEF Publisher!Broadcast
    <2>2. ASSUME NEW i, object' = [object EXCEPT !.object = "created", !.indexed = i], object.object = "absent"
          PROVE  Outlives(object, object')
      <3>1. PICK q : q = object' OBVIOUS
      <3>2. ObjectOK(q) /\ q.bytes = object.bytes BY <2>2, <3>1 DEF PublisherInv, ObjectOK
      <3>3. \A a \in Publications : Kept(a, object) => Kept(a, q) BY <2>2, <3>2 DEF Kept
      <3>. QED BY <2>2, <3>1, <3>2, <3>3 DEF Outlives
    <2>. QED BY <2>1, <2>2, SameObject
  <1>. QED BY <1>1, <1>2, <1>3, GoesOn

LEMMA PublishesUploadObject == ASSUME PublisherInv, NEW p \in Callers, Publisher!UploadObject(p) PROVE PublisherInv'
  <1>1. worker[p].pc = "upload" BY DEF Publisher!UploadObject
  <1>2. CASE object' = object /\ Publisher!GotoOnly(p, "upload_error") BY <1>1, <1>2, GoesOnOnly
  <1>3. ASSUME NEW b, NEW place, place \in {"uploaded", "upload_error"}, Publisher!GotoOnly(p, place),
               object' = [object EXCEPT !.bytes[Publisher!Provider(worker[p].a)] =
                            IF Publisher!Immutable(Publisher!Provider(worker[p].a)) THEN @ ELSE b]
        PROVE  PublisherInv'
    <2>1. PICK v : v = Publisher!Provider(worker[p].a) OBVIOUS
    <2>2. v \in Providers BY <2>1 DEF Publisher!Provider, Providers
    <2>3. PICK bytes : bytes = [object.bytes EXCEPT ![v] = IF Publisher!Immutable(v) THEN @ ELSE b] OBVIOUS
    <2>4. PICK q : q = object' OBVIOUS
    <2>5. q.object = object.object /\ q.bytes = bytes /\ DOMAIN q = DOMAIN object
      BY <1>3, <2>1, <2>3, <2>4 DEF PublisherInv, ObjectOK
    <2>6. DOMAIN bytes = Providers /\ \A u \in Providers : bytes[u] = IF u = v /\ ~Publisher!Immutable(v) THEN b ELSE object.bytes[u]
      BY <2>3 DEF PublisherInv, ObjectOK
    <2>7. ASSUME NEW a \in Publications, Kept(a, object) PROVE Kept(a, q)
      <3>1. Publisher!Provider(a) \in Providers BY DEF Publisher!Provider, Providers
      <3>2. Publisher!Immutable(Publisher!Provider(a))
        BY <2>7 DEF Kept, Publisher!Immutable, Publisher!Provider
      <3>. QED BY <2>5, <2>6, <2>7, <3>1, <3>2 DEF Kept
    <2>8. Outlives(object, object') BY <2>4, <2>5, <2>6, <2>7 DEF Outlives, ObjectOK, PublisherInv
    <2>9. Publisher!Goto(p, place) /\ UNCHANGED <<att, locators, verifs>> BY <1>3 DEF Publisher!GotoOnly
    <2>. QED BY <1>1, <1>3, <2>8, <2>9, GoesOn
  <1>. QED BY <1>2, <1>3 DEF Publisher!UploadObject

LEMMA PublishesSealed == ASSUME PublisherInv, Publisher!Index \/ Publisher!Seal PROVE PublisherInv'
  <1>1. UNCHANGED <<att, worker, locators, verifs>> BY DEF Publisher!Index, Publisher!Seal
  <1>2. \/ object' = [object EXCEPT !.indexed = TRUE]
        \/ object' = [object EXCEPT !.object = "sealed"] /\ object.object = "created"
    BY DEF Publisher!Index, Publisher!Seal
  <1>3. PICK q : q = object' OBVIOUS
  <1>4. ObjectOK(q) /\ q.bytes = object.bytes /\ (q.object = object.object \/ q.object = "sealed")
    BY <1>2, <1>3 DEF PublisherInv, ObjectOK
  <1>5. \A a \in Publications : Kept(a, object) => Kept(a, q) BY <1>4 DEF Kept
  <1>6. Outlives(object, object') BY <1>3, <1>4, <1>5 DEF Outlives
  <1>7. PublisherWrites BY <1>1, <1>6 DEF PublisherWrites
  <1>. QED BY <1>7, PublisherMoves

LEMMA PublisherStep == PublisherInv /\ [Publisher!Next]_(Publisher!vars) => PublisherInv'
  <1> SUFFICES ASSUME PublisherInv, [Publisher!Next]_(Publisher!vars) PROVE PublisherInv' OBVIOUS
  <1>1. CASE UNCHANGED Publisher!vars
    <2>1. UNCHANGED <<att, worker, locators, verifs, object>> BY <1>1 DEF Publisher!vars
    <2>. QED BY <2>1 DEF PublisherInv
  <1>2. ASSUME NEW p \in Callers, Publisher!WorkerStep(p) PROVE PublisherInv'
    BY <1>2, PublishesAcquireLease, PublishesResume, PublishesRepend, PublishesReconcileUnknownCreate,
       PublishesReleaseLease, PublishesValidate, PublishesRun, PublishesInspectObject, PublishesCreateObject,
       PublishesBroadcast, PublishesCreated, PublishesCreateUnknown, PublishesUploadObject, PublishesUploaded,
       PublishesUploadFailed, PublishesAwaitSeal, PublishesVerifyReadback
    DEF Publisher!WorkerStep
  <1>. QED BY <1>1, <1>2, PublishesCreateOrGet, PublishesCrash, PublishesExpireLease, PublishesSealed DEF Publisher!Next

LEMMA PublisherStart == Publisher!Init => PublisherInv
  <1> SUFFICES ASSUME Publisher!Init PROVE PublisherInv OBVIOUS
  <1>1. \A a \in Publications : AttemptOK(a, att[a], object)
    BY DEF Publisher!Init, AttemptOK, Publisher!NoAttempt, Publisher!Unset, RowFields
  <1>2. \A p \in Callers : PublishCallOK(worker[p], object)
    BY DEF Publisher!Init, PublishCallOK, Publisher!Idle, CallFields
  <1>3. ObjectOK(object) BY DEF Publisher!Init, ObjectOK, Providers
  <1>4. LocatorsOK(locators) BY DEF Publisher!Init, LocatorsOK, Providers, Publisher!Unset
  <1>5. VerificationsOK(verifs, object) BY DEF Publisher!Init, VerificationsOK, Publisher!Unset
  <1>. QED BY <1>1, <1>2, <1>3, <1>4, <1>5 DEF Publisher!Init, PublisherInv

\* Of any attempts, calls and faults, what is verified was read back intact from bytes that
\* stay (verifyReadback), and what the marketplace links is a sealed object with them.
THEOREM EvidenceIsVerified == Publisher!Spec => []VerifiedEvidence
  <1>1. ASSUME PublisherInv PROVE VerifiedEvidence
    <2>1. Publisher!VerifiedEvidence BY <1>1 DEF PublisherInv, AttemptOK, Kept, Publisher!VerifiedEvidence
    <2>2. ASSUME Publisher!EvidenceStatus = "verified" PROVE object.object = "sealed" /\ object.bytes["greenfield"] = "good"
      <3>1. Publisher!Linked BY <2>2 DEF Publisher!EvidenceStatus
      <3>2. PICK a : a = verifs.latest OBVIOUS
      <3>3. a \in Publications /\ verifs.of[a] = "verified" /\ locators.of["greenfield"].attempt = a /\ a # "none"
        BY <1>1, <3>1, <3>2 DEF PublisherInv, VerificationsOK, Publisher!Linked, Publisher!Unset
      <3>4. Publisher!Provider(a) = "greenfield" BY <1>1, <3>3 DEF PublisherInv, LocatorsOK, Providers
      <3>5. Kept(a, object) BY <1>1, <3>3 DEF PublisherInv, VerificationsOK
      <3>. QED BY <3>4, <3>5 DEF Kept, Publisher!Provider
    <2>. QED BY <2>1, <2>2 DEF VerifiedEvidence, Publisher!LinkedIsSealed
  <1>. QED BY <1>1, PublisherStart, PublisherStep, PTL DEF Publisher!Spec

-----------------------------------------------------------------------------
(***************************************************************************)
(* One create.                                                             *)
(*                                                                         *)
(* Without crashes, expired leases and failing requests, and with one      *)
(* Greenfield attempt, the row a call holds is the attempt's, and an       *)
(* object the provider does not show yet is remembered: by the call whose  *)
(* create is in flight, by the reference in the row, or by its unresolved  *)
(* create.  A row may be retried only when the provider shows the object.  *)
(***************************************************************************)

Calm == /\ Faults \subseteq {"lost", "lag", "corrupt"} /\ "none" \notin Callers
        /\ \A a, b \in Publications \ Ipfs : a = b

Seen(o) == o.object # "absent" /\ o.indexed

\* What state s and the columns r of attempt a tell of object o.
RowKnows(a, s, r, o) ==
  /\ s \in Publisher!States \cup {"none"}
  /\ a \in Ipfs => r.code # "CREATE_UNKNOWN"
  /\ a \notin Ipfs =>
       /\ s # "submitted" /\ (s \in {"none", "creating_object"} => ~r.ref)
       /\ s \in {"uploading", "awaiting_seal"} => r.ref
       /\ s \in {"reading_back", "provider_failed"} \/ r.retryable => Seen(o)
       /\ r.ref /\ s \in {"retrying", "pending", "validating"} => Seen(o)

Remembered(s, r, o) ==
  o.object = "absent" \/ o.indexed \/ r.ref \/ (s = "create_failed" /\ r.code = "CREATE_UNKNOWN")

InFlight(w) == w.pc \in {"created", "unknown"}
UnderWay(w) == w.pc \notin {"idle", "lease"}

\* Where a call of attempt a in state s can be.
Places(a, s, place, loc, o) ==
  /\ place # "upload_error"
  /\ place \in {"inspect", "create", "broadcast", "created", "unknown"} => a \notin Ipfs /\ s = "creating_object"
  /\ place = "broadcast" => o.object = "absent"
  /\ place = "seal" => a \notin Ipfs /\ s = "awaiting_seal"
  /\ a \notin Ipfs => (place = "read" => Seen(o)) /\ (s = "awaiting_seal" => loc)

CallKnows(p, w, A, o) ==
  /\ w.pc # "idle" =>
       /\ A[w.a].state # "none"
       /\ w.existing.state \in Publisher!terminalStates => Publisher!unknownCreate(w.existing) \/ w.existing.retryable
       /\ w.existing.retryable /\ w.a \notin Ipfs => Seen(o)
  /\ UnderWay(w) =>
       /\ w.rec.row = A[w.a] /\ w.rec.row.owner = p /\ ~w.rec.row.expired
       /\ Places(w.a, w.rec.row.state, w.pc, w.rec.loc, o)

Located(a, s, L) == a \notin Ipfs /\ s = "awaiting_seal" => L.of["greenfield"].attempt = a

OnceInv ==
  /\ duplicate = FALSE
  /\ \A a \in Publications : RowKnows(a, att[a].state, att[a], object) /\ Located(a, att[a].state, locators)
  /\ \A p \in Callers : CallKnows(p, worker[p], att, object)
  /\ \A a \in Publications \ Ipfs :
       Remembered(att[a].state, att[a], object) \/ \E p \in Callers : worker[p].a = a /\ InFlight(worker[p])

\* The object is neither made nor forgotten, and no locator is lost.
ObjectKept == (object'.object = "absent" <=> object.object = "absent") /\ (object.indexed => object'.indexed)
LocatorsKept == \A a \in Publications \ Ipfs : locators.of["greenfield"].attempt = a => locators'.of["greenfield"].attempt = a

\* Call p moves to w and writes r on attempt a.
CallWrites(p, w, a, r) ==
  /\ ObjectKept /\ LocatorsKept /\ duplicate' = duplicate
  /\ (att' = att /\ r = att[a]) \/ att' = [att EXCEPT ![a] = r]
  /\ worker' = [worker EXCEPT ![p] = w]
  /\ r = att[a] \/ \A q \in Callers \ {p} : ~(UnderWay(worker[q]) /\ worker[q].a = a)
  /\ InFlight(worker[p]) => worker[p].a = a
  /\ r.state # "none" \/ r = att[a]
  /\ RowKnows(a, r.state, r, object') /\ Located(a, r.state, locators')
  /\ CallKnows(p, w, att', object')
  /\ a \notin Ipfs => \/ Remembered(r.state, r, object') \/ (w.a = a /\ InFlight(w))
                      \/ (r = att[a] /\ ~InFlight(worker[p]))

LEMMA SeenIsViewed == (Seen(object) <=> Publisher!View # "absent") \/ object.object = "absent"
  BY DEF Seen, Publisher!View

LEMMA CallMoves ==
  ASSUME PublisherInv, OnceInv, NEW p \in Callers, NEW w, NEW a \in Publications, NEW r, CallWrites(p, w, a, r)
  PROVE  OnceInv'
  <1>1. PICK o : o = object' OBVIOUS
  <1>2. PICK A : A = att' OBVIOUS
  <1>3. \A b \in Publications : A[b] = IF b = a THEN r ELSE att[b] BY <1>2 DEF CallWrites, PublisherInv
  <1>4. \A q \in Callers : worker'[q] = IF q = p THEN w ELSE worker[q] BY DEF CallWrites, PublisherInv
  <1>5. (Seen(object) => Seen(o)) /\ (o.object = "absent" <=> object.object = "absent") /\ (object.indexed => o.indexed)
    BY <1>1 DEF CallWrites, ObjectKept, Seen
  <1>6. \A b \in Publications : RowKnows(b, A[b].state, A[b], o) /\ Located(b, A[b].state, locators')
    <2>1. ASSUME NEW b \in Publications, b # a PROVE RowKnows(b, A[b].state, A[b], o) /\ Located(b, A[b].state, locators')
      <3>1. RowKnows(b, att[b].state, att[b], o) BY <1>5 DEF OnceInv, RowKnows
      <3>2. Located(b, att[b].state, locators') BY DEF OnceInv, Located, CallWrites, LocatorsKept
      <3>. QED BY <1>3, <2>1, <3>1, <3>2
    <2>. QED BY <1>1, <1>3, <2>1 DEF CallWrites
  <1>7. \A q \in Callers : CallKnows(q, worker'[q], A, o)
    <2>1. ASSUME NEW q \in Callers, q # p PROVE CallKnows(q, worker[q], A, o)
      <3>1. CallKnows(q, worker[q], att, object) BY DEF OnceInv
      <3>2. worker[q].pc # "idle" => worker[q].a \in Publications BY DEF PublisherInv, PublishCallOK
      <3>3. UnderWay(worker[q]) => A[worker[q].a] = att[worker[q].a] BY <1>3, <2>1, <3>2 DEF CallWrites, UnderWay
      <3>4. worker[q].pc # "idle" => A[worker[q].a].state # "none" BY <1>3, <3>1, <3>2 DEF CallWrites, CallKnows
      <3>. QED BY <1>5, <3>1, <3>3, <3>4 DEF CallKnows, Places
    <2>. QED BY <1>1, <1>2, <1>4, <2>1 DEF CallWrites
  <1>8. ASSUME NEW b \in Publications \ Ipfs
        PROVE  Remembered(A[b].state, A[b], o) \/ \E q \in Callers : worker'[q].a = b /\ InFlight(worker'[q])
    <2>1. Remembered(att[b].state, att[b], o) \/ \E q \in Callers : worker[q].a = b /\ InFlight(worker[q])
      BY <1>5 DEF OnceInv, Remembered
    <2>2. CASE b = a
      <3>1. CASE Remembered(r.state, r, o) BY <1>3, <2>2, <3>1
      <3>2. CASE w.a = a /\ InFlight(w) BY <1>4, <2>2, <3>2
      <3>3. CASE r = att[a] /\ ~InFlight(worker[p]) BY <1>3, <1>4, <2>1, <2>2, <3>3
      <3>. QED BY <1>1, <2>2, <3>1, <3>2, <3>3 DEF CallWrites
    <2>3. CASE b # a
      <3>1. ASSUME NEW q \in Callers, worker[q].a = b, InFlight(worker[q]) PROVE q # p BY <2>3, <3>1 DEF CallWrites
      <3>. QED BY <1>3, <1>4, <2>1, <2>3, <3>1
    <2>. QED BY <2>2, <2>3
  <1>9. OnceInv'
    <2>1. \A q \in Callers : CallKnows(q, worker'[q], att', object') BY <1>1, <1>2, <1>7
    <2>2. \A b \in Publications : RowKnows(b, att'[b].state, att'[b], object') /\ Located(b, att'[b].state, locators')
      BY <1>1, <1>2, <1>6
    <2>3. \A b \in Publications \ Ipfs :
            Remembered(att'[b].state, att'[b], object') \/ \E q \in Callers : worker'[q].a = b /\ InFlight(worker'[q])
      BY <1>1, <1>2, <1>8
    <2>4. duplicate' = FALSE BY DEF OnceInv, CallWrites
    <2>. QED BY <2>1, <2>2, <2>3, <2>4 DEF OnceInv
  <1>. QED BY <1>9

-----------------------------------------------------------------------------
\* The steps of a call: what it holds, and the ways it goes on.

LEMMA HeldFacts ==
  ASSUME PublisherInv, OnceInv, NEW p \in Callers, UnderWay(worker[p])
  PROVE  /\ worker[p].a \in Publications /\ worker[p].rec.row = att[worker[p].a]
         /\ DOMAIN worker[p].rec.row = RowFields /\ worker[p].rec.row.owner = p /\ ~worker[p].rec.row.expired
         /\ worker[p].rec.row.state \in Publisher!States
         /\ RowKnows(worker[p].a, worker[p].rec.row.state, worker[p].rec.row, object)
         /\ Places(worker[p].a, worker[p].rec.row.state, worker[p].pc, worker[p].rec.loc, object)
         /\ \A q \in Callers \ {p} : ~(UnderWay(worker[q]) /\ worker[q].a = worker[p].a)
         /\ worker[p].a \notin Ipfs /\ ~InFlight(worker[p])
              => Remembered(worker[p].rec.row.state, worker[p].rec.row, object)
  <1>1. PublishCallOK(worker[p], object) /\ CallKnows(p, worker[p], att, object) BY DEF PublisherInv, OnceInv
  <1>2. worker[p].a \in Publications BY <1>1 DEF PublishCallOK, UnderWay
  <1>3. worker[p].rec.row = att[worker[p].a] /\ worker[p].rec.row.owner = p BY <1>1 DEF CallKnows
  <1>4. DOMAIN worker[p].rec.row = RowFields BY <1>1 DEF PublishCallOK, AttemptOK, UnderWay
  <1>5. RowKnows(worker[p].a, worker[p].rec.row.state, worker[p].rec.row, object) BY <1>2, <1>3 DEF OnceInv
  <1>6. worker[p].rec.row.state \in Publisher!States BY <1>1, <1>3, <1>5 DEF RowKnows, CallKnows, UnderWay
  <1>7. \A q \in Callers \ {p} : ~(UnderWay(worker[q]) /\ worker[q].a = worker[p].a)
    <2> SUFFICES ASSUME NEW q \in Callers \ {p}, UnderWay(worker[q]), worker[q].a = worker[p].a PROVE FALSE OBVIOUS
    <2>1. worker[q].rec.row = att[worker[p].a] /\ worker[q].rec.row.owner = q BY DEF OnceInv, CallKnows
    <2>. QED BY <1>3, <2>1
  <1>8. ASSUME worker[p].a \notin Ipfs, ~InFlight(worker[p])
        PROVE  Remembered(worker[p].rec.row.state, worker[p].rec.row, object)
    <2>1. \A q \in Callers : ~(worker[q].a = worker[p].a /\ InFlight(worker[q])) BY <1>7, <1>8 DEF InFlight, UnderWay
    <2>. QED BY <1>2, <1>3, <1>8, <2>1 DEF OnceInv
  <1>. QED BY <1>1, <1>2, <1>3, <1>4, <1>5, <1>6, <1>7, <1>8 DEF CallKnows

\* A call goes on without saving.
LEMMA WalksOn ==
  ASSUME PublisherInv, OnceInv, NEW p \in Callers, NEW place, UnderWay(worker[p]), ~InFlight(worker[p]),
         Publisher!Goto(p, place), UNCHANGED <<att, locators, duplicate>>, ObjectKept,
         Places(worker[p].a, worker[p].rec.row.state, place, worker[p].rec.loc, object)
  PROVE  OnceInv'
  <1>1. PICK a : a = worker[p].a OBVIOUS
  <1>2. PICK w : w = [worker[p] EXCEPT !.pc = place] OBVIOUS
  <1>3. worker' = [worker EXCEPT ![p] = w] BY <1>2 DEF Publisher!Goto, PublisherInv
  <1>4. PICK o : o = object' OBVIOUS
  <1>5. (Seen(object) => Seen(o)) /\ (o.object = "absent" <=> object.object = "absent") BY <1>4 DEF ObjectKept, Seen
  <1>6. a \in Publications BY <1>1, HeldFacts
  <1>7. CallKnows(p, worker[p], att, object) /\ PublishCallOK(worker[p], object) BY DEF OnceInv, PublisherInv
  <1>8. w.a = a /\ w.rec = worker[p].rec /\ w.pc = place /\ w.existing = worker[p].existing
    BY <1>1, <1>2, <1>7 DEF PublishCallOK, CallFields
  <1>9. Places(a, worker[p].rec.row.state, place, worker[p].rec.loc, o) BY <1>1, <1>5 DEF Places
  <1>10. CallKnows(p, w, att, o) BY <1>1, <1>5, <1>7, <1>8, <1>9 DEF CallKnows, UnderWay
  <1>11. RowKnows(a, att[a].state, att[a], object) /\ Located(a, att[a].state, locators) BY <1>6 DEF OnceInv
  <1>12. RowKnows(a, att[a].state, att[a], o) BY <1>5, <1>11 DEF RowKnows
  <1>13. Located(a, att[a].state, locators') BY <1>11 DEF Located
  <1>14. CallWrites(p, w, a, att[a])
    BY <1>1, <1>3, <1>4, <1>6, <1>10, <1>12, <1>13 DEF CallWrites, LocatorsKept
  <1>. QED BY <1>6, <1>14, CallMoves

Legal(s, next) == s = next \/ next \in Publisher!stateTransitions[s]

\* What a save may tell of the object, if the move is legal.
SaveKnows(p, next, patch, then) ==
  LET a == worker[p].a
      old == worker[p].rec.row
  IN /\ UnderWay(worker[p]) /\ DOMAIN patch.row = RowFields /\ patch.row.owner = old.owner /\ patch.row.expired = old.expired
     /\ next \in Publisher!States /\ then \notin {"idle", "lease"}
     /\ InFlight(worker[p]) => Legal(old.state, next)
     /\ Legal(old.state, next) =>
          /\ RowKnows(a, next, patch.row, object) /\ Places(a, next, then, patch.loc, object)
          /\ a \notin Ipfs => Remembered(next, patch.row, object)

LEMMA LocatorSaved ==
  ASSUME Calm, LocatorsOK(locators), NEW a \in Publications, NEW present, NEW verified,
         locators' = Publisher!AddLocator(a, present, verified)
  PROVE  LocatorsKept /\ (a \notin Ipfs /\ present => locators'.of["greenfield"].attempt = a)
  <1>1. PICK v : v = Publisher!Provider(a) OBVIOUS
  <1>2. v \in Providers /\ (a \in Ipfs => v = "ipfs") /\ (a \notin Ipfs => v = "greenfield")
    BY <1>1 DEF Publisher!Provider, Providers
  <1>3. PICK row : row = IF locators.of[v].attempt = "none" THEN [attempt |-> a, verified |-> verified]
                         ELSE [locators.of[v] EXCEPT !.verified = @ \/ verified]
    OBVIOUS
  <1>4. row.attempt = IF locators.of[v].attempt = "none" THEN a ELSE locators.of[v].attempt
    BY <1>2, <1>3 DEF LocatorsOK
  <1>5. v = "greenfield" => row.attempt = a
    BY <1>1, <1>2, <1>4 DEF LocatorsOK, Calm, Publisher!Provider
  <1>6. PICK of : of = [locators.of EXCEPT ![v] = row] OBVIOUS
  <1>7. of["greenfield"] = IF v = "greenfield" THEN row ELSE locators.of["greenfield"]
    BY <1>2, <1>6 DEF LocatorsOK, Providers
  <1>8. PICK last : locators' = IF ~present THEN locators ELSE [of |-> of, last |-> last]
    BY <1>1, <1>3, <1>6 DEF Publisher!AddLocator, Publisher!Unset
  <1>9. CASE ~present BY <1>8, <1>9 DEF LocatorsKept
  <1>10. CASE present
    <2>1. locators'.of["greenfield"] = of["greenfield"] BY <1>8, <1>10
    <2>2. \A b \in Publications \ Ipfs : locators.of["greenfield"].attempt = b => of["greenfield"].attempt = b
      BY <1>2, <1>5, <1>7 DEF Calm
    <2>. QED BY <1>2, <1>5, <1>7, <2>1, <2>2 DEF LocatorsKept
  <1>. QED BY <1>9, <1>10

LEMMA SaveMoves ==
  ASSUME PublisherInv, OnceInv, Calm, NEW p \in Callers, UNCHANGED <<object, duplicate>>,
         NEW next, NEW patch, NEW then, Publisher!Transition(p, next, patch, then), SaveKnows(p, next, patch, then)
  PROVE  OnceInv'
  <1>1. PICK a : a = worker[p].a OBVIOUS
  <1>2. PICK old : old = worker[p].rec.row OBVIOUS
  <1>3. UnderWay(worker[p]) BY DEF SaveKnows
  <1>4. /\ a \in Publications /\ old = att[a] /\ DOMAIN old = RowFields /\ old.owner = p /\ ~old.expired
        /\ old.state \in Publisher!States /\ Places(a, old.state, worker[p].pc, worker[p].rec.loc, object)
        /\ \A q \in Callers \ {p} : ~(UnderWay(worker[q]) /\ worker[q].a = a)
    BY <1>1, <1>2, <1>3, HeldFacts
  <1>5. Publisher!SaveMatches(p, a) BY <1>2, <1>4 DEF Publisher!SaveMatches
  <1>6. ObjectKept BY DEF ObjectKept
  <1>7. CASE ~Legal(old.state, next)
    <2>1. Publisher!Goto(p, "release") /\ UNCHANGED <<att, locators>>
      BY <1>2, <1>7 DEF Publisher!Transition, Legal
    <2>2. ~InFlight(worker[p]) BY <1>2, <1>7 DEF SaveKnows
    <2>3. Places(a, old.state, "release", worker[p].rec.loc, object) BY <1>4 DEF Places
    <2>. QED BY <1>1, <1>2, <1>3, <1>6, <2>1, <2>2, <2>3, WalksOn
  <1>8. CASE Legal(old.state, next)
    <2>1. PICK row : row = [patch.row EXCEPT !.state = next, !.rev = old.rev + 1] OBVIOUS
    <2>2. /\ row.state = next /\ row.owner = p /\ ~row.expired /\ row.ref = patch.row.ref
          /\ row.code = patch.row.code /\ row.retryable = patch.row.retryable
      BY <1>2, <1>4, <2>1 DEF SaveKnows, RowFields
    <2>3. \E n : /\ att' = [att EXCEPT ![a] = row]
                 /\ locators' = Publisher!AddLocator(a, patch.loc, next = "verified")
                 /\ worker' = [worker EXCEPT ![p] =
                                 [worker[p] EXCEPT !.pc = then, !.rec = [row |-> row, loc |-> patch.loc], !.poll = n]]
      BY <1>1, <1>2, <1>5, <1>8, <2>1 DEF Publisher!Transition, Legal
    <2>4. PICK n : worker' = [worker EXCEPT ![p] =
                                [worker[p] EXCEPT !.pc = then, !.rec = [row |-> row, loc |-> patch.loc], !.poll = n]]
      BY <2>3
    <2>5. PICK w : w = [worker[p] EXCEPT !.pc = then, !.rec = [row |-> row, loc |-> patch.loc], !.poll = n] OBVIOUS
    <2>6. PublishCallOK(worker[p], object) /\ CallKnows(p, worker[p], att, object) BY DEF PublisherInv, OnceInv
    <2>7. w.pc = then /\ w.a = a /\ w.rec = [row |-> row, loc |-> patch.loc] /\ w.existing = worker[p].existing
      BY <1>1, <2>5, <2>6 DEF PublishCallOK, CallFields
    <2>8. LocatorsKept /\ (a \notin Ipfs /\ patch.loc => locators'.of["greenfield"].attempt = a)
      BY <1>4, <2>3, LocatorSaved DEF PublisherInv
    <2>9. /\ RowKnows(a, next, patch.row, object) /\ Places(a, next, then, patch.loc, object)
          /\ a \notin Ipfs => Remembered(next, patch.row, object)
          /\ next \in Publisher!States
      BY <1>1, <1>2, <1>8 DEF SaveKnows
    <2>10. RowKnows(a, next, row, object) /\ (a \notin Ipfs => Remembered(next, row, object))
      BY <2>2, <2>9 DEF RowKnows, Remembered
    <2>11. Located(a, next, locators') BY <2>8, <2>9 DEF Located, Places
    <2>12. next # "none" BY <2>9 DEF Publisher!States, Publisher!stateTransitions
    <2>13. CallKnows(p, w, [att EXCEPT ![a] = row], object)
      <3>1. [att EXCEPT ![a] = row][a] = row BY <1>4 DEF PublisherInv
      <3>2. w.rec.row = row /\ w.rec.loc = patch.loc BY <2>7
      <3>3. worker[p].pc # "idle" BY <1>3 DEF UnderWay
      <3>. QED BY <1>1, <2>2, <2>6, <2>7, <2>9, <2>12, <3>1, <3>2, <3>3 DEF CallKnows
    <2>14. CallWrites(p, w, a, row)
      BY <1>1, <1>4, <1>6, <2>2, <2>3, <2>4, <2>5, <2>8, <2>9, <2>10, <2>11, <2>12, <2>13 DEF CallWrites
    <2>. QED BY <1>4, <2>14, CallMoves
  <1>. QED BY <1>7, <1>8

LEMMA IdleKnows == \A p \in Callers : \A A, o : CallKnows(p, Publisher!Idle, A, o) /\ ~UnderWay(Publisher!Idle)
  BY DEF CallKnows, UnderWay, Publisher!Idle

LEMMA OnceCreateOrGet ==
  ASSUME PublisherInv, OnceInv, NEW p \in Callers, NEW a \in Publications, Publisher!CreateOrGet(p, a) PROVE OnceInv'
  <1>1. PICK row : row = Publisher!CreatedRow(a) OBVIOUS
  <1>2. /\ att' = [att EXCEPT ![a] = row] /\ UNCHANGED <<locators, object, duplicate>> /\ worker[p].pc = "idle"
        /\ \/ worker' = [worker EXCEPT ![p] = Publisher!Idle]
           \/ /\ ~Publisher!Settled(row)
              /\ \E b : worker' = [worker EXCEPT ![p] =
                                     [Publisher!Idle EXCEPT !.pc = "lease", !.a = a, !.existing = row, !.created = b]]
    BY <1>1 DEF Publisher!CreateOrGet
  <1>3. RowKnows(a, att[a].state, att[a], object) /\ Located(a, att[a].state, locators) BY DEF OnceInv
  <1>5. /\ RowKnows(a, row.state, row, object) /\ Located(a, row.state, locators) /\ row.state # "none"
        /\ row = att[a] \/ (att[a].state = "none" /\ row = Publisher!newRecord)
    <2>1. CASE att[a].state = "none"
      <3>1. row = Publisher!newRecord BY <1>1, <2>1 DEF Publisher!CreatedRow, Publisher!Unset
      <3>2. row.state = "pending" /\ ~row.ref /\ ~row.retryable /\ row.code = "none"
        BY <3>1 DEF Publisher!newRecord, Publisher!NoAttempt, Publisher!Unset
      <3>3. "pending" \in Publisher!States BY DEF Publisher!States, Publisher!stateTransitions
      <3>. QED BY <2>1, <3>1, <3>2, <3>3 DEF RowKnows, Located
    <2>2. CASE att[a].state # "none"
      <3>1. row = att[a] BY <1>1, <2>2 DEF Publisher!CreatedRow, Publisher!Unset
      <3>. QED BY <1>3, <2>2, <3>1
    <2>. QED BY <2>1, <2>2
  <1>6. PICK w : worker' = [worker EXCEPT ![p] = w] /\ CallKnows(p, w, [att EXCEPT ![a] = row], object)
    <2>1. CASE worker' = [worker EXCEPT ![p] = Publisher!Idle] BY <2>1, IdleKnows
    <2>2. ASSUME NEW b, ~Publisher!Settled(row),
                 worker' = [worker EXCEPT ![p] = [Publisher!Idle EXCEPT !.pc = "lease", !.a = a, !.existing = row, !.created = b]]
          PROVE  \E w : worker' = [worker EXCEPT ![p] = w] /\ CallKnows(p, w, [att EXCEPT ![a] = row], object)
      <3>1. PICK w : w = [Publisher!Idle EXCEPT !.pc = "lease", !.a = a, !.existing = row, !.created = b] OBVIOUS
      <3>2. w.pc = "lease" /\ w.a = a /\ w.existing = row BY <3>1 DEF Publisher!Idle
      <3>3. [att EXCEPT ![a] = row][a] = row BY DEF PublisherInv
      <3>4. row.state \in Publisher!terminalStates => Publisher!unknownCreate(row) \/ row.retryable
        BY <2>2 DEF Publisher!Settled
      <3>5. row.retryable /\ a \notin Ipfs => Seen(object) BY <1>5 DEF RowKnows
      <3>6. CallKnows(p, w, [att EXCEPT ![a] = row], object) BY <1>5, <3>2, <3>3, <3>4, <3>5 DEF CallKnows, UnderWay
      <3>. QED BY <2>2, <3>1, <3>6
    <2>. QED BY <1>2, <2>1, <2>2
  <1>7. row = att[a] \/ \A q \in Callers : ~(UnderWay(worker[q]) /\ worker[q].a = a)
    <2>1. ASSUME NEW q \in Callers, UnderWay(worker[q]), worker[q].a = a PROVE att[a].state # "none"
      BY <2>1, HeldFacts DEF Publisher!States, Publisher!stateTransitions
    <2>. QED BY <1>5, <2>1
  <1>8. a \notin Ipfs => row = att[a] \/ Remembered(row.state, row, object)
    <2> SUFFICES ASSUME a \notin Ipfs, row # att[a] PROVE Remembered(row.state, row, object) OBVIOUS
    <2>1. Remembered(att[a].state, att[a], object) BY <1>7 DEF OnceInv, InFlight, UnderWay
    <2>. QED BY <1>3, <1>5, <2>1 DEF Remembered, RowKnows
  <1>9. ~InFlight(worker[p]) BY <1>2 DEF InFlight
  <1>10. ObjectKept /\ LocatorsKept BY <1>2 DEF ObjectKept, LocatorsKept
  <1>11. CallWrites(p, w, a, row) BY <1>2, <1>5, <1>6, <1>7, <1>8, <1>9, <1>10 DEF CallWrites
  <1>. QED BY <1>11, CallMoves

\* The lease of attempt a is set to owner.
LEMMA LeaseMoves ==
  ASSUME PublisherInv, OnceInv, NEW p \in Callers, NEW a \in Publications, NEW owner, NEW w, ~InFlight(worker[p]),
         att' = [att EXCEPT ![a] = [att[a] EXCEPT !.rev = @ + 1, !.owner = owner, !.expired = FALSE]],
         worker' = [worker EXCEPT ![p] = w], UNCHANGED <<locators, object, duplicate>>,
         \A q \in Callers \ {p} : ~(UnderWay(worker[q]) /\ worker[q].a = a), ~InFlight(w), att[a].state # "none",
         \/ w = Publisher!Idle
         \/ /\ w = [worker[p] EXCEPT !.pc = "resume", !.rec = Publisher!hydrate(a, att'[a])]
            /\ owner = p /\ worker[p].a = a /\ worker[p].pc = "lease"
  PROVE  OnceInv'
  <1>1. PICK row : row = [att[a] EXCEPT !.rev = @ + 1, !.owner = owner, !.expired = FALSE] OBVIOUS
  <1>2. att' = [att EXCEPT ![a] = row] /\ att'[a] = row BY <1>1 DEF PublisherInv
  <1>3. /\ row.state = att[a].state /\ row.ref = att[a].ref /\ row.code = att[a].code /\ row.retryable = att[a].retryable
        /\ row.owner = owner /\ row.expired = FALSE
    BY <1>1 DEF PublisherInv, AttemptOK, RowFields
  <1>4. RowKnows(a, att[a].state, att[a], object) /\ Located(a, att[a].state, locators) BY DEF OnceInv
  <1>5. RowKnows(a, row.state, row, object) /\ Located(a, row.state, locators) BY <1>3, <1>4 DEF RowKnows
  <1>6. a \notin Ipfs => Remembered(row.state, row, object)
    <2>1. a \notin Ipfs => Remembered(att[a].state, att[a], object) BY DEF OnceInv, InFlight, UnderWay
    <2>. QED BY <1>3, <2>1 DEF Remembered
  <1>7. CallKnows(p, w, att', object)
    <2>1. CASE w = Publisher!Idle BY <2>1, IdleKnows
    <2>2. CASE /\ w = [worker[p] EXCEPT !.pc = "resume", !.rec = Publisher!hydrate(a, row)]
               /\ owner = p /\ worker[p].a = a /\ worker[p].pc = "lease"
      <3>1. PublishCallOK(worker[p], object) /\ CallKnows(p, worker[p], att, object) BY DEF PublisherInv, OnceInv
      <3>2. w.pc = "resume" /\ w.a = a /\ w.existing = worker[p].existing /\ w.rec = Publisher!hydrate(a, row)
        BY <2>2, <3>1 DEF PublishCallOK, CallFields
      <3>3. w.rec.row = row /\ w.rec.loc = Publisher!HasLocator(a) BY <3>2 DEF Publisher!hydrate
      <3>4. Places(a, row.state, "resume", w.rec.loc, object)
        BY <1>3, <1>4, <3>3 DEF Places, Located, Publisher!HasLocator, Publisher!Provider
      <3>5. w.existing.state \in Publisher!terminalStates => Publisher!unknownCreate(w.existing) \/ w.existing.retryable
        BY <2>2, <3>1, <3>2 DEF CallKnows
      <3>6. w.existing.retryable /\ w.a \notin Ipfs => Seen(object) BY <2>2, <3>1, <3>2 DEF CallKnows
      <3>. QED BY <1>2, <1>3, <2>2, <3>2, <3>3, <3>4, <3>5, <3>6 DEF CallKnows
    <2>. QED BY <1>2, <2>1, <2>2
  <1>8. ObjectKept /\ LocatorsKept BY DEF ObjectKept, LocatorsKept
  <1>9. CallWrites(p, w, a, row) BY <1>2, <1>3, <1>5, <1>6, <1>7, <1>8 DEF CallWrites
  <1>. QED BY <1>9, CallMoves

LEMMA OnceAcquireLease ==
  ASSUME PublisherInv, OnceInv, Calm, NEW p \in Callers, Publisher!AcquireLease(p) PROVE OnceInv'
  <1>1. UNCHANGED <<locators, object, duplicate>> /\ worker[p].pc = "lease" BY DEF Publisher!AcquireLease
  <1>2. PICK a : a = worker[p].a OBVIOUS
  <1>3. CallKnows(p, worker[p], att, object) /\ PublishCallOK(worker[p], object) BY DEF OnceInv, PublisherInv
  <1>4. a \in Publications /\ att[a].state # "none" BY <1>1, <1>2, <1>3 DEF PublishCallOK, CallKnows
  <1>5. ~InFlight(worker[p]) /\ ~InFlight(Publisher!Idle) BY <1>1 DEF InFlight, Publisher!Idle
  <1>6. CASE worker' = [worker EXCEPT ![p] = Publisher!Idle] /\ att' = att
    <2>1. RowKnows(a, att[a].state, att[a], object) /\ Located(a, att[a].state, locators) BY <1>4 DEF OnceInv
    <2>2. ObjectKept /\ LocatorsKept BY <1>1 DEF ObjectKept, LocatorsKept
    <2>3. CallWrites(p, Publisher!Idle, a, att[a]) BY <1>1, <1>5, <1>6, <2>1, <2>2, IdleKnows DEF CallWrites
    <2>. QED BY <1>4, <2>3, CallMoves
  <1>7. CASE ~(worker' = [worker EXCEPT ![p] = Publisher!Idle] /\ att' = att)
    <2>1. Publisher!LeaseFree(a) /\ att' = [att EXCEPT ![a] = [att[a] EXCEPT !.rev = @ + 1, !.owner = p, !.expired = FALSE]]
      BY <1>2, <1>7 DEF Publisher!AcquireLease, Publisher!Finish
    <2>2. att'[a] = [att[a] EXCEPT !.rev = @ + 1, !.owner = p, !.expired = FALSE] BY <1>4, <2>1 DEF PublisherInv
    <2>3. PICK w : /\ worker' = [worker EXCEPT ![p] = w]
                   /\ \/ w = [worker[p] EXCEPT !.pc = "resume", !.rec = Publisher!hydrate(a, att'[a])]
                      \/ w = Publisher!Idle
      BY <1>2, <1>7, <2>2 DEF Publisher!AcquireLease, Publisher!Finish
    <2>4. \A q \in Callers : ~(UnderWay(worker[q]) /\ worker[q].a = a)
      BY <2>1, HeldFacts DEF Publisher!LeaseFree, Publisher!Unset, Calm
    <2>5. ~InFlight(w)
      <3>1. CASE w = [worker[p] EXCEPT !.pc = "resume", !.rec = Publisher!hydrate(a, att'[a])]
        <4>1. w.pc = "resume" BY <1>3, <3>1 DEF PublishCallOK, CallFields
        <4>. QED BY <4>1 DEF InFlight
      <3>. QED BY <1>5, <2>3, <3>1
    <2>. QED BY <1>1, <1>2, <1>4, <1>5, <2>1, <2>3, <2>4, <2>5, LeaseMoves
  <1>. QED BY <1>6, <1>7

LEMMA OnceReleaseLease ==
  ASSUME PublisherInv, OnceInv, NEW p \in Callers, Publisher!ReleaseLease(p) PROVE OnceInv'
  <1>1. /\ UNCHANGED <<locators, object, duplicate>> /\ worker[p].pc = "release"
        /\ worker' = [worker EXCEPT ![p] = Publisher!Idle]
    BY DEF Publisher!ReleaseLease, Publisher!Finish
  <1>2. PICK a : a = worker[p].a OBVIOUS
  <1>3. UnderWay(worker[p]) /\ ~InFlight(worker[p]) /\ ~InFlight(Publisher!Idle)
    BY <1>1 DEF UnderWay, InFlight, Publisher!Idle
  <1>4. /\ a \in Publications /\ att[a].owner = p /\ att[a].state # "none"
        /\ \A q \in Callers \ {p} : ~(UnderWay(worker[q]) /\ worker[q].a = a)
    BY <1>2, <1>3, HeldFacts DEF Publisher!States, Publisher!stateTransitions
  <1>5. PICK owner : owner = Publisher!Unset OBVIOUS
  <1>6. att' = [att EXCEPT ![a] = [att[a] EXCEPT !.rev = @ + 1, !.owner = owner, !.expired = FALSE]]
    BY <1>2, <1>4, <1>5 DEF Publisher!ReleaseLease
  <1>7. PICK w : w = Publisher!Idle OBVIOUS
  <1>. QED BY <1>1, <1>3, <1>4, <1>6, <1>7, LeaseMoves

\* What a legal move tells, of one call.
LEMMA OnceMove ==
  ASSUME PublisherInv, OnceInv, Calm, NEW p \in Callers, UNCHANGED <<object, duplicate>>, UnderWay(worker[p]),
         ~InFlight(worker[p]), NEW next \in Publisher!States, NEW then, then \notin {"idle", "lease"},
         Publisher!Move(p, next, then),
         LET a == worker[p].a
             old == worker[p].rec.row
         IN /\ Legal(old.state, next) =>
                 /\ RowKnows(a, next, old, object) /\ Places(a, next, then, worker[p].rec.loc, object)
            /\ Legal(old.state, next) => ~(old.state = "create_failed" /\ old.code = "CREATE_UNKNOWN")
  PROVE  OnceInv'
  <1>1. PICK patch : patch = Publisher!Same(p) OBVIOUS
  <1>2. patch = [row |-> worker[p].rec.row, loc |-> worker[p].rec.loc, ver |-> "none"]
    BY <1>1 DEF Publisher!Same, Publisher!Unset
  <1>3. patch.row = worker[p].rec.row /\ patch.loc = worker[p].rec.loc BY <1>2
  <1>4. Publisher!Transition(p, next, patch, then) BY <1>1 DEF Publisher!Move
  <1>5. SaveKnows(p, next, patch, then) BY <1>3, HeldFacts DEF SaveKnows, Remembered
  <1>. QED BY <1>4, <1>5, SaveMoves

\* Failing keeps the reference, and only a failure with a retryable code needs the object.
LEMMA OnceFail ==
  ASSUME PublisherInv, OnceInv, Calm, NEW p \in Callers, UNCHANGED <<object, duplicate>>, UnderWay(worker[p]),
         NEW next, NEW code, NEW v, Publisher!FailWith(p, next, code, v),
         next \in {"validation_failed", "create_failed", "seal_timeout", "readback_failed", "hash_mismatch", "provider_failed"},
         code = "CREATE_UNKNOWN" => worker[p].a \notin Ipfs /\ next = "create_failed",
         InFlight(worker[p]) => Legal(worker[p].rec.row.state, next) /\ code = "CREATE_UNKNOWN" /\ next = "create_failed",
         Legal(worker[p].rec.row.state, next) /\ worker[p].a \notin Ipfs =>
           /\ next = "provider_failed" \/ code \notin Publisher!NotRetryable => Seen(object)
           /\ worker[p].rec.row.state = "create_failed" => next = "provider_failed"
  PROVE  OnceInv'
  <1>1. PICK old : old = worker[p].rec.row OBVIOUS
  <1>2. PICK patch : patch = [row |-> [old EXCEPT !.code = code, !.retryable = code \notin Publisher!NotRetryable],
                              loc |-> worker[p].rec.loc, ver |-> v]
    OBVIOUS
  <1>3. Publisher!Transition(p, next, patch, "release") BY <1>1, <1>2 DEF Publisher!FailWith
  <1>4. PICK row : row = patch.row OBVIOUS
  <1>5. DOMAIN old = RowFields BY <1>1, HeldFacts
  <1>6. /\ DOMAIN row = RowFields /\ row.owner = old.owner /\ row.expired = old.expired
        /\ row.ref = old.ref /\ row.code = code /\ row.retryable = (code \notin Publisher!NotRetryable)
    BY <1>2, <1>4, <1>5 DEF RowFields
  <1>7. next \in Publisher!States BY DEF Publisher!States, Publisher!stateTransitions
  <1>8. ASSUME Legal(old.state, next)
        PROVE  /\ RowKnows(worker[p].a, next, row, object) /\ Places(worker[p].a, next, "release", patch.loc, object)
               /\ worker[p].a \notin Ipfs => Remembered(next, row, object)
    <2>1. RowKnows(worker[p].a, next, row, object) BY <1>1, <1>6, <1>7, <1>8 DEF RowKnows
    <2>2. Places(worker[p].a, next, "release", patch.loc, object) BY DEF Places
    <2>3. ASSUME worker[p].a \notin Ipfs PROVE Remembered(next, row, object)
      <3>1. CASE InFlight(worker[p]) BY <1>6, <3>1 DEF Remembered
      <3>2. CASE ~InFlight(worker[p])
        <4>1. Remembered(old.state, old, object) BY <1>1, <2>3, <3>2, HeldFacts
        <4>. QED BY <1>1, <1>6, <1>8, <2>3, <4>1 DEF Remembered, Seen
      <3>. QED BY <3>1, <3>2
    <2>. QED BY <2>1, <2>2, <2>3
  <1>9. SaveKnows(p, next, patch, "release") BY <1>1, <1>4, <1>6, <1>7, <1>8 DEF SaveKnows
  <1>. QED BY <1>3, <1>9, SaveMoves

\* A reference to the object is kept, whatever is known of it.
Finds(p, next, patch, then) ==
  /\ patch.row = [worker[p].rec.row EXCEPT !.ref = TRUE]
  /\ \/ next = "uploading" /\ then = "upload"
     \/ next = "awaiting_seal" /\ then = "seal" /\ patch.loc = TRUE /\ worker[p].a \notin Ipfs
     \/ next = "reading_back" /\ then = "read" /\ worker[p].a \in Ipfs
  /\ InFlight(worker[p]) => next = "uploading"

LEMMA OnceFound ==
  ASSUME PublisherInv, OnceInv, Calm, NEW p \in Callers, UNCHANGED <<object, duplicate>>, UnderWay(worker[p]),
         NEW next, NEW then, NEW patch, Publisher!Transition(p, next, patch, then), Finds(p, next, patch, then)
  PROVE  OnceInv'
  <1>1. PICK old : old = worker[p].rec.row OBVIOUS
  <1>2. PICK row : row = patch.row OBVIOUS
  <1>3. /\ DOMAIN old = RowFields /\ RowKnows(worker[p].a, old.state, old, object)
        /\ Places(worker[p].a, old.state, worker[p].pc, worker[p].rec.loc, object)
    BY <1>1, HeldFacts
  <1>4. /\ DOMAIN row = RowFields /\ row.owner = old.owner /\ row.expired = old.expired
        /\ row.ref = TRUE /\ row.code = old.code /\ row.retryable = old.retryable
    BY <1>1, <1>2, <1>3 DEF RowFields, Finds
  <1>5. next \in Publisher!States BY DEF Finds, Publisher!States, Publisher!stateTransitions
  <1>6. RowKnows(worker[p].a, next, row, object) BY <1>3, <1>4, <1>5 DEF RowKnows, Finds
  <1>7. Places(worker[p].a, next, then, patch.loc, object) BY DEF Places, Finds
  <1>8. Remembered(next, row, object) BY <1>4 DEF Remembered
  <1>9. InFlight(worker[p]) => Legal(old.state, next)
    BY <1>3 DEF Finds, InFlight, Places, Legal, Publisher!stateTransitions
  <1>10. SaveKnows(p, next, patch, then) BY <1>1, <1>2, <1>4, <1>5, <1>6, <1>7, <1>8, <1>9 DEF SaveKnows, Finds
  <1>. QED BY <1>10, SaveMoves

LEMMA ReferenceKept ==
  ASSUME PublisherInv, OnceInv, NEW p \in Callers
  PROVE  /\ Publisher!WithReference(p).row = [worker[p].rec.row EXCEPT !.ref = TRUE]
         /\ [Publisher!WithReference(p) EXCEPT !.loc = TRUE].row = [worker[p].rec.row EXCEPT !.ref = TRUE]
         /\ [Publisher!WithReference(p) EXCEPT !.loc = TRUE].loc = TRUE
  <1>1. PICK same : same = Publisher!Same(p) OBVIOUS
  <1>2. same = [row |-> worker[p].rec.row, loc |-> worker[p].rec.loc, ver |-> "none"]
    BY <1>1 DEF Publisher!Same, Publisher!Unset
  <1>3. PICK patch : patch = [same EXCEPT !.row.ref = TRUE] OBVIOUS
  <1>4. DOMAIN patch = {"row", "loc", "ver"} /\ patch.row = [worker[p].rec.row EXCEPT !.ref = TRUE] BY <1>2, <1>3
  <1>5. PICK more : more = [patch EXCEPT !.loc = TRUE] OBVIOUS
  <1>6. more.row = patch.row /\ more.loc = TRUE BY <1>4, <1>5
  <1>7. Publisher!WithReference(p) = patch BY <1>1, <1>3 DEF Publisher!WithReference
  <1>. QED BY <1>4, <1>5, <1>6, <1>7

LEMMA OnceUploads ==
  ASSUME PublisherInv, OnceInv, Calm, NEW p \in Callers, UNCHANGED <<object, duplicate>>, UnderWay(worker[p]),
         Publisher!Transition(p, "uploading", Publisher!WithReference(p), "upload")
  PROVE  OnceInv'
  <1>1. PICK patch : patch = Publisher!WithReference(p) OBVIOUS
  <1>2. Finds(p, "uploading", patch, "upload") BY <1>1, ReferenceKept DEF Finds
  <1>3. Publisher!Transition(p, "uploading", patch, "upload") BY <1>1
  <1>. QED BY <1>2, <1>3, OnceFound

\* A retry needs the object to be shown, or not to be on the chain.
LEMMA OnceRetry ==
  ASSUME PublisherInv, OnceInv, Calm, NEW p \in Callers, UNCHANGED <<object, duplicate>>, UnderWay(worker[p]),
         ~InFlight(worker[p]), NEW clear, Publisher!Retry(p, clear),
         worker[p].a \notin Ipfs => Seen(object) \/ (object.object = "absent" /\ clear = TRUE)
  PROVE  OnceInv'
  <1>1. PICK patch :
          /\ patch = [row |-> [worker[p].rec.row EXCEPT !.code = "none", !.retryable = FALSE, !.ref = @ /\ ~clear],
                      loc |-> worker[p].rec.loc /\ ~clear, ver |-> "none"]
          /\ Publisher!Transition(p, "retrying", patch, "repend")
    BY DEF Publisher!Retry, Publisher!Unset
  <1>2. PICK old : old = worker[p].rec.row OBVIOUS
  <1>3. PICK row : row = patch.row OBVIOUS
  <1>4. DOMAIN old = RowFields BY <1>2, HeldFacts
  <1>5. /\ DOMAIN row = RowFields /\ row.owner = old.owner /\ row.expired = old.expired
        /\ row.code = "none" /\ row.retryable = FALSE /\ (row.ref => ~clear)
    BY <1>1, <1>2, <1>3, <1>4 DEF RowFields
  <1>6. "retrying" \in Publisher!States BY DEF Publisher!States, Publisher!stateTransitions
  <1>7. RowKnows(worker[p].a, "retrying", row, object) BY <1>5, <1>6 DEF RowKnows
  <1>8. Places(worker[p].a, "retrying", "repend", patch.loc, object) BY DEF Places
  <1>9. worker[p].a \notin Ipfs => Remembered("retrying", row, object) BY DEF Remembered, Seen
  <1>10. SaveKnows(p, "retrying", patch, "repend") BY <1>2, <1>3, <1>5, <1>6, <1>7, <1>8, <1>9 DEF SaveKnows
  <1>11. Publisher!Transition(p, "retrying", patch, "repend") BY <1>1
  <1>. QED BY <1>10, <1>11, SaveMoves

LEMMA OnceResume == ASSUME PublisherInv, OnceInv, Calm, NEW p \in Callers, Publisher!Resume(p) PROVE OnceInv'
  <1>1. UNCHANGED <<object, duplicate>> /\ worker[p].pc = "resume" BY DEF Publisher!Resume
  <1>2. UnderWay(worker[p]) /\ ~InFlight(worker[p]) BY <1>1 DEF UnderWay, InFlight
  <1>3. CallKnows(p, worker[p], att, object) BY DEF OnceInv
  <1>4. PICK old : old = worker[p].rec.row OBVIOUS
  <1>5. /\ RowKnows(worker[p].a, old.state, old, object)
        /\ Places(worker[p].a, old.state, "resume", worker[p].rec.loc, object)
    BY <1>1, <1>2, <1>4, HeldFacts
  <1>6. CASE Publisher!GotoOnly(p, "reconcile") \/ Publisher!GotoOnly(p, "validate")
    <2>1. PICK place \in {"reconcile", "validate"} : Publisher!GotoOnly(p, place) BY <1>6
    <2>2. Publisher!Goto(p, place) /\ UNCHANGED <<att, locators>> BY <2>1 DEF Publisher!GotoOnly
    <2>3. Places(worker[p].a, old.state, place, worker[p].rec.loc, object) BY <1>5 DEF Places
    <2>. QED BY <1>1, <1>2, <1>4, <2>2, <2>3, WalksOn DEF ObjectKept
  <1>7. CASE /\ worker[p].existing.state \in Publisher!terminalStates /\ ~Publisher!unknownCreate(worker[p].existing)
             /\ Publisher!Retry(p, FALSE)
    <2>1. worker[p].a \notin Ipfs => Seen(object) BY <1>1, <1>3, <1>7 DEF CallKnows
    <2>. QED BY <1>1, <1>2, <1>7, <2>1, OnceRetry
  <1>8. CASE old.state = "retrying" /\ Publisher!Move(p, "pending", "validate")
    <2>1. RowKnows(worker[p].a, "pending", old, object)
      BY <1>5, <1>8 DEF RowKnows, Publisher!States, Publisher!stateTransitions
    <2>2. Places(worker[p].a, "pending", "validate", worker[p].rec.loc, object) BY DEF Places
    <2>3. "pending" \in Publisher!States BY DEF Publisher!States, Publisher!stateTransitions
    <2>. QED BY <1>1, <1>2, <1>4, <1>8, <2>1, <2>2, <2>3, OnceMove
  <1>. QED BY <1>4, <1>6, <1>7, <1>8 DEF Publisher!Resume

\* Which states a move to the next comes from.
LEMMA LegalMoves ==
  ASSUME NEW s \in Publisher!States
  PROVE  /\ Legal(s, "pending") => s \in {"pending", "retrying"}
         /\ Legal(s, "validating") => s \in {"validating", "pending"}
         /\ Legal(s, "creating_object") => s \in {"creating_object", "validating"}
         /\ Legal(s, "validation_failed") => s \in {"validation_failed", "validating"}
         /\ Legal(s, "provider_failed") => s \in {"provider_failed", "validating", "creating_object", "submitted", "uploading",
                                                  "awaiting_seal", "reading_back"}
         /\ Legal(s, "create_failed") <=> s \in {"create_failed", "creating_object", "submitted"}
         /\ Legal(s, "readback_failed") => s \in {"readback_failed", "reading_back"}
         /\ Legal(s, "hash_mismatch") => s \in {"hash_mismatch", "reading_back"}
         /\ Legal(s, "seal_timeout") => s \in {"seal_timeout", "awaiting_seal"}
         /\ Legal(s, "reading_back") => s \in {"reading_back", "uploading", "awaiting_seal"}
         /\ Legal(s, "uploading") => s \in {"uploading", "validating", "creating_object", "submitted"}
         /\ Legal(s, "awaiting_seal") => s \in {"uploading", "awaiting_seal"}
         /\ Legal(s, "verified") => s \in {"verified", "reading_back"}
  BY DEF Legal, Publisher!States, Publisher!stateTransitions

LEMMA OnceRepend == ASSUME PublisherInv, OnceInv, Calm, NEW p \in Callers, Publisher!Repend(p) PROVE OnceInv'
  <1>1. /\ UNCHANGED <<object, duplicate>> /\ UnderWay(worker[p]) /\ ~InFlight(worker[p])
        /\ Publisher!Move(p, "pending", "validate")
    BY DEF Publisher!Repend, UnderWay, InFlight
  <1>2. PICK old : old = worker[p].rec.row OBVIOUS
  <1>3. old.state \in Publisher!States /\ RowKnows(worker[p].a, old.state, old, object) BY <1>1, <1>2, HeldFacts
  <1>4. "pending" \in Publisher!States BY DEF Publisher!States, Publisher!stateTransitions
  <1>5. Legal(old.state, "pending") => RowKnows(worker[p].a, "pending", old, object) /\ old.state # "create_failed"
    BY <1>3, <1>4, LegalMoves DEF RowKnows
  <1>6. Places(worker[p].a, "pending", "validate", worker[p].rec.loc, object) BY DEF Places
  <1>. QED BY <1>1, <1>2, <1>4, <1>5, <1>6, OnceMove

LEMMA OnceReconcileUnknownCreate ==
  ASSUME PublisherInv, OnceInv, Calm, NEW p \in Callers, Publisher!ReconcileUnknownCreate(p) PROVE OnceInv'
  <1>1. UNCHANGED <<object, duplicate>> /\ UnderWay(worker[p]) /\ ~InFlight(worker[p]) /\ worker[p].pc = "reconcile"
    BY DEF Publisher!ReconcileUnknownCreate, UnderWay, InFlight
  <1>2. PICK found \in Publisher!CreateReconciliation :
          IF found = "unknown" THEN Publisher!GotoOnly(p, "release") ELSE Publisher!Retry(p, TRUE)
    BY DEF Publisher!ReconcileUnknownCreate
  <1>3. found # "unknown" => Publisher!View # "absent" \/ object.object = "absent"
    BY <1>2 DEF Publisher!CreateReconciliation, Publisher!ChainStatus
  <1>4. CASE found = "unknown"
    <2>1. Publisher!Goto(p, "release") /\ UNCHANGED <<att, locators>> BY <1>2, <1>4 DEF Publisher!GotoOnly
    <2>2. Places(worker[p].a, worker[p].rec.row.state, "reconcile", worker[p].rec.loc, object) BY <1>1, HeldFacts
    <2>3. Places(worker[p].a, worker[p].rec.row.state, "release", worker[p].rec.loc, object) BY <2>2 DEF Places
    <2>. QED BY <1>1, <2>1, <2>3, WalksOn DEF ObjectKept
  <1>5. CASE found # "unknown"
    <2>1. Seen(object) \/ object.object = "absent" BY <1>3, <1>5, SeenIsViewed
    <2>2. Publisher!Retry(p, TRUE) BY <1>2, <1>5
    <2>. QED BY <1>1, <2>1, <2>2, OnceRetry
  <1>. QED BY <1>4, <1>5

LEMMA OnceValidate == ASSUME PublisherInv, OnceInv, Calm, NEW p \in Callers, Publisher!Validate(p) PROVE OnceInv'
  <1>1. UNCHANGED <<object, duplicate>> /\ UnderWay(worker[p]) /\ ~InFlight(worker[p]) /\ worker[p].pc = "validate"
    BY DEF Publisher!Validate, UnderWay, InFlight
  <1>2. PICK old : old = worker[p].rec.row OBVIOUS
  <1>3. /\ old.state \in Publisher!States /\ RowKnows(worker[p].a, old.state, old, object)
        /\ Places(worker[p].a, old.state, "validate", worker[p].rec.loc, object)
    BY <1>1, <1>2, HeldFacts
  <1>4. CASE Publisher!GotoOnly(p, "run")
    <2>1. Publisher!Goto(p, "run") /\ UNCHANGED <<att, locators>> BY <1>4 DEF Publisher!GotoOnly
    <2>2. Places(worker[p].a, old.state, "run", worker[p].rec.loc, object) BY <1>3 DEF Places
    <2>. QED BY <1>1, <1>2, <2>1, <2>2, WalksOn DEF ObjectKept
  <1>5. CASE Publisher!Move(p, "validating", "run")
    <2>1. "validating" \in Publisher!States BY DEF Publisher!States, Publisher!stateTransitions
    <2>2. Legal(old.state, "validating") => RowKnows(worker[p].a, "validating", old, object) /\ old.state # "create_failed"
      BY <1>3, <2>1, LegalMoves DEF RowKnows
    <2>3. Places(worker[p].a, "validating", "run", worker[p].rec.loc, object) BY DEF Places
    <2>. QED BY <1>1, <1>2, <1>5, <2>1, <2>2, <2>3, OnceMove
  <1>. QED BY <1>4, <1>5 DEF Publisher!Validate

LEMMA FailsPlainly == \A p, next, code : Publisher!Fail(p, next, code) => Publisher!FailWith(p, next, code, "none")
  BY DEF Publisher!Fail, Publisher!Unset

LEMMA OnceRunIpfs ==
  ASSUME PublisherInv, OnceInv, Calm, NEW p \in Callers, worker[p].pc = "run", UNCHANGED <<object, duplicate>>,
         worker[p].a \in Ipfs, Publisher!runIpfs(p)
  PROVE  OnceInv'
  <1>1. UnderWay(worker[p]) /\ ~InFlight(worker[p]) BY DEF UnderWay, InFlight
  <1>2. PICK old : old = worker[p].rec.row OBVIOUS
  <1>3. old.state \in Publisher!States /\ RowKnows(worker[p].a, old.state, old, object) BY <1>1, <1>2, HeldFacts
  <1>4. CASE Publisher!GotoOnly(p, "read")
    <2>1. Publisher!Goto(p, "read") /\ UNCHANGED <<att, locators>> BY <1>4 DEF Publisher!GotoOnly
    <2>2. Places(worker[p].a, old.state, "read", worker[p].rec.loc, object) BY DEF Places
    <2>. QED BY <1>1, <1>2, <2>1, <2>2, WalksOn DEF ObjectKept
  <1>5. CASE Publisher!Fail(p, "readback_failed", "MISSING_OBJECT")
    BY <1>1, <1>5, FailsPlainly, OnceFail
  <1>6. CASE Publisher!Move(p, "uploading", "upload")
    <2>1. "uploading" \in Publisher!States BY DEF Publisher!States, Publisher!stateTransitions
    <2>2. Legal(old.state, "uploading") => RowKnows(worker[p].a, "uploading", old, object) /\ old.state # "create_failed"
      BY <1>3, <2>1, LegalMoves DEF RowKnows
    <2>3. Places(worker[p].a, "uploading", "upload", worker[p].rec.loc, object) BY DEF Places
    <2>. QED BY <1>1, <1>2, <1>6, <2>1, <2>2, <2>3, OnceMove
  <1>. QED BY <1>4, <1>5, <1>6 DEF Publisher!runIpfs

\* What runGreenfield does, by the state it finds.
LEMMA RunKinds ==
  ASSUME NEW p \in Callers, Publisher!runGreenfield(p)
  PROVE  LET r == worker[p].rec
             s == r.row.state
         IN \/ s = "reading_back" /\ Publisher!GotoOnly(p, "read")
            \/ s = "reading_back" /\ Publisher!Fail(p, "readback_failed", "MISSING_OBJECT")
            \/ s = "awaiting_seal" /\ Publisher!GotoOnly(p, "seal")
            \/ s = "validating" /\ ~r.row.ref /\ Publisher!Move(p, "creating_object", "inspect")
            \/ s = "creating_object" /\ Publisher!GotoOnly(p, "inspect")
            \/ s \in {"submitted", "uploading"} /\ ~r.row.ref /\ Publisher!Fail(p, "create_failed", "CREATE_FAILED")
            \/ s = "submitted" /\ Publisher!Move(p, "uploading", "upload")
            \/ s = "uploading" /\ Publisher!GotoOnly(p, "upload")
            \/ s = "uploading" /\ r.loc /\ Publisher!Move(p, "awaiting_seal", "seal")
            \/ /\ s \notin {"reading_back", "submitted"} /\ (s = "awaiting_seal" => ~(r.row.ref /\ r.loc))
               /\ s = "validating" => r.row.ref
               /\ s = "creating_object" => r.row.ref
               /\ s = "uploading" => FALSE
               /\ Publisher!Fail(p, "provider_failed", "PROVIDER_FAILED")
  BY DEF Publisher!runGreenfield

LEMMA OnceRunGreenfield ==
  ASSUME PublisherInv, OnceInv, Calm, NEW p \in Callers, worker[p].pc = "run", UNCHANGED <<object, duplicate>>,
         worker[p].a \notin Ipfs, Publisher!runGreenfield(p)
  PROVE  OnceInv'
  <1>1. UnderWay(worker[p]) /\ ~InFlight(worker[p]) BY DEF UnderWay, InFlight
  <1>2. PICK old : old = worker[p].rec.row OBVIOUS
  <1>3. /\ old.state \in Publisher!States /\ RowKnows(worker[p].a, old.state, old, object)
        /\ Places(worker[p].a, old.state, "run", worker[p].rec.loc, object)
    BY <1>1, <1>2, HeldFacts
  <1>4. \A place : Publisher!GotoOnly(p, place) => Publisher!Goto(p, place) /\ UNCHANGED <<att, locators>>
    BY DEF Publisher!GotoOnly
  <1>5. ASSUME NEW place, Publisher!GotoOnly(p, place), Places(worker[p].a, old.state, place, worker[p].rec.loc, object)
        PROVE  OnceInv'
    BY <1>1, <1>2, <1>4, <1>5, WalksOn DEF ObjectKept
  <1>6. CASE \/ old.state = "reading_back" /\ Publisher!GotoOnly(p, "read")
             \/ old.state = "awaiting_seal" /\ Publisher!GotoOnly(p, "seal")
             \/ old.state = "creating_object" /\ Publisher!GotoOnly(p, "inspect")
             \/ old.state = "uploading" /\ Publisher!GotoOnly(p, "upload")
    <2>1. \E place : /\ Publisher!GotoOnly(p, place)
                     /\ Places(worker[p].a, old.state, place, worker[p].rec.loc, object)
      BY <1>3, <1>6 DEF Places, RowKnows
    <2>. QED BY <1>5, <2>1
  <1>7. CASE old.state = "reading_back" /\ Publisher!Fail(p, "readback_failed", "MISSING_OBJECT")
    <2>1. "MISSING_OBJECT" \in Publisher!NotRetryable BY DEF Publisher!NotRetryable
    <2>. QED BY <1>1, <1>2, <1>7, <2>1, FailsPlainly, OnceFail
  <1>8. CASE old.state = "validating" /\ ~old.ref /\ Publisher!Move(p, "creating_object", "inspect")
    <2>1. "creating_object" \in Publisher!States BY DEF Publisher!States, Publisher!stateTransitions
    <2>2. RowKnows(worker[p].a, "creating_object", old, object) BY <1>3, <1>8, <2>1 DEF RowKnows
    <2>3. Places(worker[p].a, "creating_object", "inspect", worker[p].rec.loc, object) BY DEF Places
    <2>. QED BY <1>1, <1>2, <1>8, <2>1, <2>2, <2>3, OnceMove
  <1>9. CASE old.state \in {"submitted", "uploading"} /\ ~old.ref BY <1>3, <1>9 DEF RowKnows
  <1>10. CASE old.state = "submitted" BY <1>3, <1>10 DEF RowKnows
  <1>11. CASE old.state = "uploading" /\ worker[p].rec.loc /\ Publisher!Move(p, "awaiting_seal", "seal")
    <2>1. "awaiting_seal" \in Publisher!States BY DEF Publisher!States, Publisher!stateTransitions
    <2>2. RowKnows(worker[p].a, "awaiting_seal", old, object) BY <1>3, <1>11, <2>1 DEF RowKnows
    <2>3. Places(worker[p].a, "awaiting_seal", "seal", worker[p].rec.loc, object) BY <1>11 DEF Places
    <2>. QED BY <1>1, <1>2, <1>11, <2>1, <2>2, <2>3, OnceMove
  <1>12. CASE /\ old.state \notin {"reading_back", "submitted", "uploading"}
              /\ old.state = "awaiting_seal" => ~(old.ref /\ worker[p].rec.loc)
              /\ old.state = "validating" => old.ref
              /\ old.state = "creating_object" => old.ref
              /\ Publisher!Fail(p, "provider_failed", "PROVIDER_FAILED")
    <2>1. Legal(old.state, "provider_failed") => Seen(object) /\ old.state # "create_failed"
      BY <1>3, <1>12, LegalMoves DEF RowKnows, Places
    <2>. QED BY <1>1, <1>2, <1>12, <2>1, FailsPlainly, OnceFail
  <1>. QED BY <1>2, <1>6, <1>7, <1>8, <1>9, <1>10, <1>11, <1>12, RunKinds

LEMMA OnceRun == ASSUME PublisherInv, OnceInv, Calm, NEW p \in Callers, Publisher!Run(p) PROVE OnceInv'
  <1>1. UNCHANGED <<object, duplicate>> /\ UnderWay(worker[p]) /\ ~InFlight(worker[p]) /\ worker[p].pc = "run"
    BY DEF Publisher!Run, UnderWay, InFlight
  <1>2. CASE Publisher!Fail(p, "validation_failed", "ARTIFACT_TOO_LARGE")
    <2>1. "ARTIFACT_TOO_LARGE" \in Publisher!NotRetryable BY DEF Publisher!NotRetryable
    <2>2. Legal(worker[p].rec.row.state, "validation_failed") => worker[p].rec.row.state # "create_failed"
      BY <1>1, HeldFacts, LegalMoves
    <2>. QED BY <1>1, <1>2, <2>1, <2>2, FailsPlainly, OnceFail
  <1>. QED BY <1>1, <1>2, OnceRunIpfs, OnceRunGreenfield DEF Publisher!Run

LEMMA NoProviderFaults == ASSUME Calm PROVE ~Publisher!ProviderDown
  BY DEF Calm, Publisher!ProviderDown

LEMMA OnceInspectObject == ASSUME PublisherInv, OnceInv, Calm, NEW p \in Callers, Publisher!InspectObject(p) PROVE OnceInv'
  <1>1. UNCHANGED <<object, duplicate>> /\ UnderWay(worker[p]) /\ ~InFlight(worker[p]) /\ worker[p].pc = "inspect"
    BY DEF Publisher!InspectObject, UnderWay, InFlight
  <1>2. Places(worker[p].a, worker[p].rec.row.state, "inspect", worker[p].rec.loc, object) BY <1>1, HeldFacts
  <1>3. CASE Publisher!GotoOnly(p, "create")
    <2>1. Publisher!Goto(p, "create") /\ UNCHANGED <<att, locators>> BY <1>3 DEF Publisher!GotoOnly
    <2>2. Places(worker[p].a, worker[p].rec.row.state, "create", worker[p].rec.loc, object) BY <1>2 DEF Places
    <2>. QED BY <1>1, <2>1, <2>2, WalksOn DEF ObjectKept
  <1>4. CASE Publisher!Transition(p, "uploading", Publisher!WithReference(p), "upload")
    BY <1>1, <1>4, OnceUploads
  <1>5. CASE Publisher!Transition(p, "awaiting_seal", [Publisher!WithReference(p) EXCEPT !.loc = TRUE], "seal")
    <2>1. worker[p].a \notin Ipfs BY <1>2 DEF Places
    <2>2. PICK patch : patch = [Publisher!WithReference(p) EXCEPT !.loc = TRUE] OBVIOUS
    <2>3. patch.row = [worker[p].rec.row EXCEPT !.ref = TRUE] /\ patch.loc = TRUE BY <2>2, ReferenceKept
    <2>4. Publisher!Transition(p, "awaiting_seal", patch, "seal") BY <1>5, <2>2
    <2>5. Finds(p, "awaiting_seal", patch, "seal") BY <1>1, <2>1, <2>3 DEF Finds
    <2>. QED BY <1>1, <2>4, <2>5, OnceFound
  <1>. QED BY <1>3, <1>4, <1>5, NoProviderFaults DEF Publisher!InspectObject

LEMMA OnceCreateObject == ASSUME PublisherInv, OnceInv, Calm, NEW p \in Callers, Publisher!CreateObject(p) PROVE OnceInv'
  <1>1. UNCHANGED <<object, duplicate>> /\ UnderWay(worker[p]) /\ ~InFlight(worker[p]) /\ worker[p].pc = "create"
    BY DEF Publisher!CreateObject, UnderWay, InFlight
  <1>2. PICK old : old = worker[p].rec.row OBVIOUS
  <1>3. /\ Places(worker[p].a, old.state, "create", worker[p].rec.loc, object) /\ RowKnows(worker[p].a, old.state, old, object)
        /\ worker[p].a \notin Ipfs => Remembered(old.state, old, object)
    BY <1>1, <1>2, HeldFacts
  <1>4. CASE Publisher!View = "absent" /\ Publisher!GotoOnly(p, "broadcast")
    <2>1. Publisher!Goto(p, "broadcast") /\ UNCHANGED <<att, locators>> BY <1>4 DEF Publisher!GotoOnly
    <2>2. ~Seen(object) \/ object.object = "absent" BY <1>4, SeenIsViewed
    <2>3. object.object = "absent" BY <1>3, <2>2 DEF Places, RowKnows, Remembered, Seen
    <2>4. Places(worker[p].a, old.state, "broadcast", worker[p].rec.loc, object) BY <1>3, <2>3 DEF Places
    <2>. QED BY <1>1, <1>2, <2>1, <2>4, WalksOn DEF ObjectKept
  <1>5. CASE Publisher!Transition(p, "uploading", Publisher!WithReference(p), "upload")
    BY <1>1, <1>5, OnceUploads
  <1>. QED BY <1>4, <1>5, NoProviderFaults DEF Publisher!CreateObject

LEMMA OnceCreated == ASSUME PublisherInv, OnceInv, Calm, NEW p \in Callers, Publisher!Created(p) PROVE OnceInv'
  <1>1. /\ UNCHANGED <<object, duplicate>> /\ UnderWay(worker[p])
        /\ Publisher!Transition(p, "uploading", Publisher!WithReference(p), "upload")
    BY DEF Publisher!Created, UnderWay
  <1>. QED BY <1>1, OnceUploads

LEMMA OnceCreateUnknown == ASSUME PublisherInv, OnceInv, Calm, NEW p \in Callers, Publisher!CreateUnknown(p) PROVE OnceInv'
  <1>1. UNCHANGED <<object, duplicate>> /\ UnderWay(worker[p]) /\ worker[p].pc = "unknown"
    BY DEF Publisher!CreateUnknown, UnderWay
  <1>2. CASE Publisher!Transition(p, "uploading", Publisher!WithReference(p), "upload")
    BY <1>1, <1>2, OnceUploads
  <1>3. CASE Publisher!Fail(p, "create_failed", "CREATE_UNKNOWN")
    <2>1. worker[p].a \notin Ipfs /\ worker[p].rec.row.state = "creating_object" BY <1>1, HeldFacts DEF Places
    <2>2. Legal(worker[p].rec.row.state, "create_failed") BY <2>1 DEF Legal, Publisher!stateTransitions
    <2>3. "CREATE_UNKNOWN" \in Publisher!NotRetryable BY DEF Publisher!NotRetryable
    <2>. QED BY <1>1, <1>3, <2>1, <2>2, <2>3, FailsPlainly, OnceFail
  <1>. QED BY <1>2, <1>3 DEF Publisher!CreateUnknown

LEMMA OnceUploaded == ASSUME PublisherInv, OnceInv, Calm, NEW p \in Callers, Publisher!Uploaded(p) PROVE OnceInv'
  <1>1. UNCHANGED <<object, duplicate>> /\ UnderWay(worker[p]) /\ ~InFlight(worker[p])
    BY DEF Publisher!Uploaded, UnderWay, InFlight
  <1>2. PICK patch : patch = [Publisher!WithReference(p) EXCEPT !.loc = TRUE] OBVIOUS
  <1>3. patch.row = [worker[p].rec.row EXCEPT !.ref = TRUE] /\ patch.loc = TRUE BY <1>2, ReferenceKept
  <1>4. CASE worker[p].a \in Ipfs
    <2>1. Publisher!Transition(p, "reading_back", patch, "read") BY <1>2, <1>4 DEF Publisher!Uploaded
    <2>2. Finds(p, "reading_back", patch, "read") BY <1>1, <1>3, <1>4 DEF Finds
    <2>. QED BY <1>1, <2>1, <2>2, OnceFound
  <1>5. CASE worker[p].a \notin Ipfs
    <2>1. Publisher!Transition(p, "awaiting_seal", patch, "seal") BY <1>2, <1>5 DEF Publisher!Uploaded
    <2>2. Finds(p, "awaiting_seal", patch, "seal") BY <1>1, <1>3, <1>5 DEF Finds
    <2>. QED BY <1>1, <2>1, <2>2, OnceFound
  <1>. QED BY <1>4, <1>5

LEMMA OnceUploadObject == ASSUME PublisherInv, OnceInv, Calm, NEW p \in Callers, Publisher!UploadObject(p) PROVE OnceInv'
  <1>1. duplicate' = duplicate /\ UnderWay(worker[p]) /\ ~InFlight(worker[p]) /\ worker[p].pc = "upload"
    BY DEF Publisher!UploadObject, UnderWay, InFlight
  <1>2. PICK bytes : object' = [object EXCEPT !.bytes = bytes] /\ Publisher!GotoOnly(p, "uploaded")
    BY NoProviderFaults DEF Publisher!UploadObject
  <1>3. ObjectKept
    <2>1. PICK o : o = object' OBVIOUS
    <2>2. o.object = object.object /\ o.indexed = object.indexed BY <1>2, <2>1 DEF PublisherInv, ObjectOK
    <2>. QED BY <2>1, <2>2 DEF ObjectKept
  <1>4. Publisher!Goto(p, "uploaded") /\ UNCHANGED <<att, locators>> BY <1>2 DEF Publisher!GotoOnly
  <1>5. Places(worker[p].a, worker[p].rec.row.state, "upload", worker[p].rec.loc, object) BY <1>1, HeldFacts
  <1>6. Places(worker[p].a, worker[p].rec.row.state, "uploaded", worker[p].rec.loc, object) BY <1>5 DEF Places
  <1>. QED BY <1>1, <1>3, <1>4, <1>6, WalksOn

LEMMA OnceUploadFailed == ASSUME PublisherInv, OnceInv, NEW p \in Callers, Publisher!UploadFailed(p) PROVE OnceInv'
  <1>1. UnderWay(worker[p]) /\ worker[p].pc = "upload_error" BY DEF Publisher!UploadFailed, UnderWay
  <1>. QED BY <1>1, HeldFacts DEF Places

LEMMA OnceAwaitSeal == ASSUME PublisherInv, OnceInv, Calm, NEW p \in Callers, Publisher!AwaitSeal(p) PROVE OnceInv'
  <1>1. UNCHANGED <<object, duplicate>> /\ UnderWay(worker[p]) /\ ~InFlight(worker[p]) /\ worker[p].pc = "seal"
    BY DEF Publisher!AwaitSeal, UnderWay, InFlight
  <1>2. PICK old : old = worker[p].rec.row OBVIOUS
  <1>3. /\ Places(worker[p].a, old.state, "seal", worker[p].rec.loc, object) /\ RowKnows(worker[p].a, old.state, old, object)
        /\ old.state = "awaiting_seal" /\ worker[p].a \notin Ipfs
    BY <1>1, <1>2, HeldFacts DEF Places
  <1>4. Publisher!SealStatus \in {"sealed", "pending"} => Seen(object)
    <2>1. PICK view : view = Publisher!View OBVIOUS
    <2>2. Publisher!SealStatus \in {"sealed", "pending"} => view # "absent" BY <2>1 DEF Publisher!SealStatus
    <2>. QED BY <2>1, <2>2 DEF Publisher!View, Seen
  <1>5. CASE Seen(object) /\ Publisher!Move(p, "reading_back", "read")
    <2>1. "reading_back" \in Publisher!States BY DEF Publisher!States, Publisher!stateTransitions
    <2>2. RowKnows(worker[p].a, "reading_back", old, object) BY <1>3, <1>5, <2>1 DEF RowKnows
    <2>3. Places(worker[p].a, "reading_back", "read", worker[p].rec.loc, object) BY <1>5 DEF Places
    <2>. QED BY <1>1, <1>2, <1>3, <1>5, <2>1, <2>2, <2>3, OnceMove
  <1>6. CASE Publisher!Fail(p, "readback_failed", "MISSING_OBJECT")
    <2>1. "MISSING_OBJECT" \in Publisher!NotRetryable BY DEF Publisher!NotRetryable
    <2>. QED BY <1>1, <1>2, <1>3, <1>6, <2>1, FailsPlainly, OnceFail
  <1>7. CASE Publisher!Move(p, "awaiting_seal", "seal")
    <2>1. "awaiting_seal" \in Publisher!States BY DEF Publisher!States, Publisher!stateTransitions
    <2>. QED BY <1>1, <1>2, <1>3, <1>7, <2>1, OnceMove
  <1>8. CASE Seen(object) /\ Publisher!Fail(p, "seal_timeout", "TIMEOUT")
    BY <1>1, <1>2, <1>3, <1>8, FailsPlainly, OnceFail
  <1>. QED BY <1>4, <1>5, <1>6, <1>7, <1>8, NoProviderFaults DEF Publisher!AwaitSeal

LEMMA OnceVerifyReadback == ASSUME PublisherInv, OnceInv, Calm, NEW p \in Callers, Publisher!VerifyReadback(p) PROVE OnceInv'
  <1>1. UNCHANGED <<object, duplicate>> /\ UnderWay(worker[p]) /\ ~InFlight(worker[p]) /\ worker[p].pc = "read"
    BY DEF Publisher!VerifyReadback, UnderWay, InFlight
  <1>2. PICK old : old = worker[p].rec.row OBVIOUS
  <1>3. /\ Places(worker[p].a, old.state, "read", worker[p].rec.loc, object) /\ RowKnows(worker[p].a, old.state, old, object)
        /\ old.state \in Publisher!States /\ DOMAIN old = RowFields
        /\ worker[p].a \notin Ipfs => Seen(object)
    BY <1>1, <1>2, HeldFacts DEF Places
  <1>4. CASE Publisher!FailWith(p, "readback_failed", "MISSING_OBJECT", "failed")
    <2>1. Legal(old.state, "readback_failed") => old.state # "create_failed" BY <1>3, LegalMoves
    <2>. QED BY <1>1, <1>2, <1>3, <1>4, <2>1, OnceFail
  <1>5. CASE Publisher!FailWith(p, "hash_mismatch", "HASH_MISMATCH", "failed")
    <2>1. Legal(old.state, "hash_mismatch") => old.state # "create_failed" BY <1>3, LegalMoves
    <2>. QED BY <1>1, <1>2, <1>3, <1>5, <2>1, OnceFail
  <1>6. CASE Publisher!Transition(p, "verified", [Publisher!Same(p) EXCEPT !.ver = "verified"], "release")
    <2>1. PICK same : same = Publisher!Same(p) OBVIOUS
    <2>2. same = [row |-> old, loc |-> worker[p].rec.loc, ver |-> "none"] BY <1>2, <2>1 DEF Publisher!Same, Publisher!Unset
    <2>3. PICK patch : patch = [same EXCEPT !.ver = "verified"] OBVIOUS
    <2>4. patch.row = old BY <2>2, <2>3
    <2>5. Publisher!Transition(p, "verified", patch, "release") BY <1>6, <2>1, <2>3
    <2>6. "verified" \in Publisher!States BY DEF Publisher!States, Publisher!stateTransitions
    <2>7. RowKnows(worker[p].a, "verified", old, object) BY <1>3, <2>6 DEF RowKnows
    <2>8. Places(worker[p].a, "verified", "release", patch.loc, object) BY DEF Places
    <2>9. worker[p].a \notin Ipfs => Remembered("verified", old, object) BY <1>3 DEF Remembered, Seen
    <2>10. SaveKnows(p, "verified", patch, "release") BY <1>1, <1>2, <1>3, <2>4, <2>6, <2>7, <2>8, <2>9 DEF SaveKnows
    <2>. QED BY <1>1, <2>5, <2>10, SaveMoves
  <1>. QED BY <1>4, <1>5, <1>6, NoProviderFaults DEF Publisher!VerifyReadback

\* The create of the only call that may make one.
LEMMA OnceBroadcast == ASSUME PublisherInv, OnceInv, Calm, NEW p \in Callers, Publisher!Broadcast(p) PROVE OnceInv'
  <1>1. UNCHANGED <<att, locators>> /\ UnderWay(worker[p]) /\ ~InFlight(worker[p]) /\ worker[p].pc = "broadcast"
    BY DEF Publisher!Broadcast, UnderWay, InFlight
  <1>2. /\ Places(worker[p].a, worker[p].rec.row.state, "broadcast", worker[p].rec.loc, object)
        /\ worker[p].a \in Publications
        /\ \A q \in Callers \ {p} : ~(UnderWay(worker[q]) /\ worker[q].a = worker[p].a)
    BY <1>1, HeldFacts
  <1>3. object.object = "absent" /\ worker[p].a \notin Ipfs BY <1>2 DEF Places
  <1>4. duplicate' = FALSE BY <1>3 DEF Publisher!Broadcast, OnceInv
  <1>5. PICK place \in {"created", "unknown"} : Publisher!Goto(p, place) BY DEF Publisher!Broadcast
  <1>6. PICK o : o = object' OBVIOUS
  <1>7. PICK w : w = [worker[p] EXCEPT !.pc = place] OBVIOUS
  <1>8. \A q \in Callers : worker'[q] = IF q = p THEN w ELSE worker[q] BY <1>5, <1>7 DEF Publisher!Goto, PublisherInv
  <1>9. PublishCallOK(worker[p], object) BY DEF PublisherInv
  <1>10. w.a = worker[p].a /\ w.rec = worker[p].rec /\ w.pc = place /\ w.existing = worker[p].existing
    BY <1>7, <1>9 DEF PublishCallOK, CallFields
  <1>11. ~Seen(object) BY <1>3 DEF Seen
  <1>12. \A b \in Publications : RowKnows(b, att[b].state, att[b], o) BY <1>11 DEF OnceInv, RowKnows
  <1>13. \A q \in Callers : CallKnows(q, worker'[q], att, o)
    <2>1. ASSUME NEW q \in Callers, q # p PROVE CallKnows(q, worker[q], att, o)
      <3>1. CallKnows(q, worker[q], att, object) /\ PublishCallOK(worker[q], object) BY DEF OnceInv, PublisherInv
      <3>2. UnderWay(worker[q]) => worker[q].pc # "broadcast"
        <4> SUFFICES ASSUME UnderWay(worker[q]), worker[q].pc = "broadcast" PROVE FALSE OBVIOUS
        <4>1. worker[q].a \notin Ipfs BY <3>1 DEF CallKnows, Places
        <4>2. worker[q].a \in Publications BY <3>1 DEF PublishCallOK, UnderWay
        <4>. QED BY <1>2, <1>3, <2>1, <4>1, <4>2 DEF Calm
      <3>. QED BY <1>11, <3>1, <3>2 DEF CallKnows, Places
    <2>2. CallKnows(p, w, att, o)
      <3>1. CallKnows(p, worker[p], att, object) BY DEF OnceInv
      <3>2. Places(worker[p].a, worker[p].rec.row.state, place, worker[p].rec.loc, o) BY <1>2, <1>5, <1>11 DEF Places
      <3>. QED BY <1>1, <1>10, <1>11, <3>1, <3>2 DEF CallKnows, UnderWay
    <2>. QED BY <1>8, <2>1, <2>2
  <1>14. \A b \in Publications \ Ipfs : \E q \in Callers : worker'[q].a = b /\ InFlight(worker'[q])
    BY <1>2, <1>3, <1>5, <1>8, <1>10 DEF Calm, InFlight
  <1>15. OnceInv'
    <2>1. \A q \in Callers : CallKnows(q, worker'[q], att', object') BY <1>1, <1>6, <1>13
    <2>2. \A b \in Publications : RowKnows(b, att'[b].state, att'[b], object') /\ Located(b, att'[b].state, locators')
      BY <1>1, <1>6, <1>12 DEF OnceInv
    <2>. QED BY <1>4, <1>14, <2>1, <2>2 DEF OnceInv
  <1>. QED BY <1>15

LEMMA OnceSealed ==
  ASSUME PublisherInv, OnceInv, UNCHANGED <<att, worker, locators, duplicate>>,
         object' = object \/ Publisher!Index \/ Publisher!Seal
  PROVE  OnceInv'
  <1>1. PICK o : o = object' OBVIOUS
  <1>2. (Seen(object) => Seen(o)) /\ (o.object = "absent" <=> object.object = "absent") /\ (object.indexed => o.indexed)
    <2>1. CASE object' = object BY <1>1, <2>1 DEF Seen
    <2>2. CASE Publisher!Index
      <3>1. o = [object EXCEPT !.indexed = TRUE] BY <1>1, <2>2 DEF Publisher!Index
      <3>2. o.object = object.object /\ o.indexed = TRUE BY <3>1 DEF PublisherInv, ObjectOK
      <3>. QED BY <3>2 DEF Seen
    <2>3. CASE Publisher!Seal
      <3>1. o = [object EXCEPT !.object = "sealed"] /\ object.object = "created" BY <1>1, <2>3 DEF Publisher!Seal
      <3>2. o.object = "sealed" /\ o.indexed = object.indexed BY <3>1 DEF PublisherInv, ObjectOK
      <3>. QED BY <3>1, <3>2 DEF Seen
    <2>. QED BY <2>1, <2>2, <2>3
  <1>3. \A b \in Publications : RowKnows(b, att[b].state, att[b], o) BY <1>2 DEF OnceInv, RowKnows
  <1>4. \A q \in Callers : CallKnows(q, worker[q], att, o) BY <1>2 DEF OnceInv, CallKnows, Places
  <1>5. \A b \in Publications \ Ipfs :
          Remembered(att[b].state, att[b], o) \/ \E q \in Callers : worker[q].a = b /\ InFlight(worker[q])
    BY <1>2 DEF OnceInv, Remembered
  <1>6. OnceInv'
    <2>1. \A b \in Publications : RowKnows(b, att'[b].state, att'[b], object') /\ Located(b, att'[b].state, locators')
      BY <1>1, <1>3 DEF OnceInv
    <2>2. \A q \in Callers : CallKnows(q, worker'[q], att', object') BY <1>1, <1>4
    <2>3. \A b \in Publications \ Ipfs :
            Remembered(att'[b].state, att'[b], object') \/ \E q \in Callers : worker'[q].a = b /\ InFlight(worker'[q])
      BY <1>1, <1>5
    <2>. QED BY <2>1, <2>2, <2>3 DEF OnceInv
  <1>. QED BY <1>6

LEMMA OnceStep == ASSUME PublisherInv, OnceInv, Calm, [Publisher!Next]_(Publisher!vars) PROVE OnceInv'
  <1>1. CASE UNCHANGED Publisher!vars
    <2>1. UNCHANGED <<att, worker, locators, duplicate, object>> BY <1>1 DEF Publisher!vars
    <2>. QED BY <2>1, OnceSealed
  <1>2. ASSUME NEW p \in Callers, Publisher!WorkerStep(p) PROVE OnceInv'
    BY <1>2, OnceAcquireLease, OnceResume, OnceRepend, OnceReconcileUnknownCreate, OnceReleaseLease, OnceValidate, OnceRun,
       OnceInspectObject, OnceCreateObject, OnceBroadcast, OnceCreated, OnceCreateUnknown, OnceUploadObject, OnceUploaded,
       OnceUploadFailed, OnceAwaitSeal, OnceVerifyReadback
    DEF Publisher!WorkerStep
  <1>3. ASSUME NEW p \in Callers, Publisher!Crash(p) PROVE FALSE BY <1>3 DEF Publisher!Crash, Calm
  <1>4. ASSUME NEW a \in Publications, Publisher!ExpireLease(a) PROVE FALSE BY <1>4 DEF Publisher!ExpireLease, Calm
  <1>5. CASE Publisher!Index \/ Publisher!Seal
    <2>1. UNCHANGED <<att, worker, locators, duplicate>> BY <1>5 DEF Publisher!Index, Publisher!Seal
    <2>. QED BY <1>5, <2>1, OnceSealed
  <1>. QED BY <1>1, <1>2, <1>3, <1>4, <1>5, OnceCreateOrGet DEF Publisher!Next

LEMMA OnceStart == Publisher!Init => OnceInv
  <1> SUFFICES ASSUME Publisher!Init PROVE OnceInv OBVIOUS
  <1>1. \A a \in Publications : RowKnows(a, att[a].state, att[a], object) /\ Located(a, att[a].state, locators)
    BY DEF Publisher!Init, RowKnows, Located, Publisher!NoAttempt, Publisher!Unset
  <1>2. \A p \in Callers : CallKnows(p, worker[p], att, object) BY IdleKnows DEF Publisher!Init
  <1>3. duplicate = FALSE /\ object.object = "absent" BY DEF Publisher!Init
  <1>. QED BY <1>1, <1>2, <1>3 DEF OnceInv, Remembered

\* Of any calls that overlap, lost answers and lags of the provider, no create is submitted for
\* an object on the chain (runGreenfield, reconcileCreate): the inspection before a create sees
\* every object whose create is not remembered.
THEOREM NoSecondCreate == ASSUME Calm PROVE Publisher!Spec => []OneCreate
  <1>1. PublisherInv /\ OnceInv /\ [Publisher!Next]_(Publisher!vars) => PublisherInv' /\ OnceInv'
    BY PublisherStep, OnceStep
  <1>2. OnceInv => OneCreate BY DEF OnceInv, OneCreate, Publisher!OneCreate
  <1>. QED BY <1>1, <1>2, PublisherStart, OnceStart, PTL DEF Publisher!Spec

-----------------------------------------------------------------------------
(* The bucket: only a call whose broadcast was answered says "created".    *)

Creates == [answered : Nat, unanswered : Nat]

BucketInv ==
  /\ bucket \in {"absent", "present", "foreign"}
  /\ mempool \in [Callers -> Creates]
  /\ DOMAIN receipt = Callers
  /\ ReceiptIsOurs

\* A call that neither creates nor changes the bucket answers with what it may say.
LEMMA BucketAnswer ==
  ASSUME BucketInv, NEW i \in Callers, NEW s, receipt' = [receipt EXCEPT ![i] = s],
         s = "reused" => bucket = "present" /\ indexed, s # "created", UNCHANGED <<bucket, indexed, mempool>>
  PROVE  BucketInv'
  <1>1. \A j \in Callers : receipt'[j] = IF j = i THEN s ELSE receipt[j] BY DEF BucketInv
  <1>2. DOMAIN receipt' = Callers BY DEF BucketInv
  <1>3. ReceiptIsOurs' BY <1>1, <1>2 DEF BucketInv, ReceiptIsOurs
  <1>. QED BY <1>2, <1>3 DEF BucketInv

\* What a call that inspects the bucket answers.
LEMMA BucketInspected ==
  ASSUME BucketInv, NEW i \in Callers, NEW s \in Bucket!inspectCanaryBucket,
         Bucket!Answer(i, CASE s = "present" -> "reused" [] s = "error" -> "error" [] OTHER -> "unknown"),
         UNCHANGED <<bucket, indexed, mempool>>
  PROVE  BucketInv'
  <1>1. s = "present" => bucket = "present" /\ indexed BY DEF Bucket!inspectCanaryBucket, BucketInv
  <1>2. PICK a : a = CASE s = "present" -> "reused" [] s = "error" -> "error" [] OTHER -> "unknown" OBVIOUS
  <1>3. a # "created" /\ (a = "reused" => bucket = "present" /\ indexed) BY <1>1, <1>2
  <1>4. receipt' = [receipt EXCEPT ![i] = a] BY <1>2 DEF Bucket!Answer
  <1>. QED BY <1>3, <1>4, BucketAnswer

LEMMA BucketStep == BucketInv /\ [Bucket!Next]_(Bucket!vars) => BucketInv'
  <1> SUFFICES ASSUME BucketInv, [Bucket!Next]_(Bucket!vars) PROVE BucketInv' OBVIOUS
  <1>1. CASE UNCHANGED <<bucket, indexed, mempool, receipt>> BY <1>1 DEF BucketInv, ReceiptIsOurs
  <1>2. ASSUME NEW i \in Callers, Bucket!EnsureCanaryBucket(i) PROVE BucketInv'
    <2>1. UNCHANGED <<bucket, indexed, mempool>> BY <1>2 DEF Bucket!EnsureCanaryBucket
    <2>2. PICK s \in Bucket!inspectCanaryBucket :
            \/ UNCHANGED receipt
            \/ Bucket!Answer(i, CASE s = "present" -> "reused" [] s = "error" -> "error" [] OTHER -> "unknown")
      BY <1>2 DEF Bucket!EnsureCanaryBucket
    <2>. QED BY <1>1, <2>1, <2>2, BucketInspected
  <1>3. ASSUME NEW i \in Callers, Bucket!BroadcastBucket(i) PROVE BucketInv'
    <2>0. UNCHANGED <<bucket, indexed>> BY <1>3 DEF Bucket!BroadcastBucket
    <2>1. CASE Bucket!Answer(i, "error") /\ UNCHANGED mempool
      BY <2>0, <2>1, BucketAnswer DEF Bucket!Answer
    <2>2. CASE mempool' = [mempool EXCEPT ![i].answered = @ + 1] /\ Bucket!Answer(i, "created")
      <3>1. mempool[i].answered \in Nat /\ mempool[i].unanswered \in Nat BY DEF BucketInv, Creates
      <3>2. mempool' \in [Callers -> Creates] BY <2>2, <3>1 DEF BucketInv, Creates
      <3>3. mempool'[i].answered = mempool[i].answered + 1 /\ mempool'[i].unanswered = mempool[i].unanswered
        BY <2>2 DEF BucketInv, Creates
      <3>4. mempool'[i].answered + mempool'[i].unanswered > 0 BY <3>1, <3>3
      <3>5. \A j \in Callers : receipt'[j] = IF j = i THEN "created" ELSE receipt[j]
        BY <2>2 DEF Bucket!Answer, BucketInv
      <3>6. DOMAIN receipt' = Callers BY <2>2 DEF Bucket!Answer, BucketInv
      <3>7. i \in DOMAIN mempool' BY <3>2
      <3>8. ReceiptIsOurs' BY <2>0, <3>4, <3>5, <3>6, <3>7 DEF BucketInv, ReceiptIsOurs
      <3>. QED BY <2>0, <3>2, <3>6, <3>8 DEF BucketInv
    <2>3. CASE (\E landed \in 0..1 : mempool' = [mempool EXCEPT ![i].unanswered = @ + landed]) /\ UNCHANGED receipt
      <3>0. PICK n \in 0..1 : mempool' = [mempool EXCEPT ![i].unanswered = @ + n] BY <2>3
      <3>1. \A j \in Callers : mempool[j].answered \in Nat /\ mempool[j].unanswered \in Nat BY DEF BucketInv, Creates
      <3>2. mempool' \in [Callers -> Creates]
        <4>1. mempool[i].unanswered + n \in Nat BY <3>0, <3>1
        <4>. QED BY <3>0, <4>1 DEF BucketInv, Creates
      <3>3. \A j \in Callers : /\ mempool'[j].answered = mempool[j].answered
                               /\ mempool'[j].unanswered >= mempool[j].unanswered
        BY <3>0, <3>1 DEF BucketInv, Creates
      <3>4. \A j \in Callers : mempool[j].answered + mempool[j].unanswered > 0 => mempool'[j].answered + mempool'[j].unanswered > 0
        BY <3>1, <3>2, <3>3 DEF Creates
      <3>5. DOMAIN mempool = Callers /\ DOMAIN mempool' = Callers BY <3>2 DEF BucketInv
      <3>6. ReceiptIsOurs' BY <2>0, <2>3, <3>4, <3>5 DEF BucketInv, ReceiptIsOurs
      <3>. QED BY <2>0, <2>3, <3>2, <3>6 DEF BucketInv
    <2>. QED BY <1>3, <2>1, <2>2, <2>3 DEF Bucket!BroadcastBucket
  <1>4. ASSUME NEW i \in Callers, Bucket!AfterUnknown(i) PROVE BucketInv'
    BY <1>4, BucketInspected DEF Bucket!AfterUnknown
  <1>5. ASSUME NEW i \in Callers, Bucket!IncludeBucket(i) PROVE BucketInv'
    <2>1. bucket' = (IF bucket = "absent" THEN "present" ELSE bucket) /\ UNCHANGED <<indexed, receipt>>
      BY <1>5 DEF Bucket!IncludeBucket
    <2>2. mempool' \in [Callers -> Creates]
      <3>1. PICK k \in {"answered", "unanswered"} : mempool[i][k] > 0 /\ mempool' = [mempool EXCEPT ![i][k] = @ - 1]
        BY <1>5 DEF Bucket!IncludeBucket
      <3>2. mempool[i] \in Creates /\ mempool[i][k] \in Nat /\ mempool[i][k] - 1 \in Nat BY <3>1 DEF BucketInv, Creates
      <3>3. [mempool[i] EXCEPT ![k] = mempool[i][k] - 1] \in Creates BY <3>2 DEF Creates
      <3>. QED BY <3>1, <3>3 DEF BucketInv
    <2>3. ReceiptIsOurs' BY <2>1 DEF BucketInv, ReceiptIsOurs
    <2>. QED BY <2>1, <2>2, <2>3 DEF BucketInv
  <1>6. CASE Bucket!IndexBucket BY <1>6 DEF Bucket!IndexBucket, BucketInv, ReceiptIsOurs
  <1>7. CASE Bucket!ForeignBucket BY <1>7 DEF Bucket!ForeignBucket, BucketInv, ReceiptIsOurs
  <1>8. CASE UNCHANGED Bucket!vars BY <1>1, <1>8 DEF Bucket!vars
  <1>. QED BY <1>2, <1>3, <1>4, <1>5, <1>6, <1>7, <1>8 DEF Bucket!Next

\* Of any number of adapter instances that broadcast, lose their answer or race another
\* owner, none reports a bucket that is not the publisher's (ensureCanaryBucket).
THEOREM ReceiptsAreOurs == Bucket!Spec => []ReceiptIsOurs
  <1>1. Bucket!Init => BucketInv BY DEF Bucket!Init, BucketInv, ReceiptIsOurs, Creates
  <1>2. BucketInv => ReceiptIsOurs BY DEF BucketInv
  <1>. QED BY <1>1, <1>2, BucketStep, PTL DEF Bucket!Spec

-----------------------------------------------------------------------------
(***************************************************************************)
(* Evidence of an authority.                                               *)
(*                                                                         *)
(* Every step the runner has passed leaves a fact that no adapter can take *)
(* back: an admitted input, a session with the policy asked for, an action *)
(* that went through under it, a revocation.                               *)
(***************************************************************************)

\* The attestors that exist.
AttestorsNamed == Attestors \subseteq {"simulation", "local-verifier", "authorized-live-adapter"}

Admitted == Phase!ActionWithinPolicy(input.policy, input.request, input.used, input.now) /\ input.attestor \in Attestors

EvidenceShape == /\ DOMAIN ev = {"status", "level", "policy", "expected", "session", "authority", "cp"}
                 /\ DOMAIN ev.session = {"policy", "handed"} /\ DOMAIN ev.cp = Phase!Steps

\* An action only goes through under the session that was granted.
WentThrough(x) == x.ok => session.granted <= x.at /\ x.at <= clock /\ (session.revoked # 0 => x.at <= session.revoked)

Shapes ==
  /\ clock \in Nat /\ EvidenceShape /\ \E T : attempts \in Seq(T)
  /\ DOMAIN session = {"policy", "granted", "revoked"} /\ session.granted \in Nat /\ session.revoked \in Nat
  /\ step \in Phase!Steps \cup {"start", "passed", "blocked"}
  /\ \A i \in DOMAIN attempts : attempts[i].at \in Nat

Acting == {"permitted_action_confirmed", "revocation_confirmed", "post_revocation_action_rejected"}

\* What the runner knows at each step.
StepInv ==
  /\ step \notin {"start", "blocked"} => Admitted
  /\ step \in {"session_handed_off"} \cup Acting => session.policy = input.policy
  /\ step \in Acting => ev.session.handed = input.destination
  /\ step \in {"revocation_confirmed", "post_revocation_action_rejected"} =>
       \E i \in DOMAIN attempts : attempts[i].ok /\ Phase!SameTotals(attempts[i].spends, input.request.spends)
  /\ step = "post_revocation_action_rejected" =>
       session.revoked # 0 /\ ev.cp["revocation_confirmed"].at = session.revoked
  /\ step \in Acting \cup {"passed", "blocked"} \/ attempts = <<>>
  /\ ev.status = "passed" => step = "passed" /\ PassedIsTrue

PhaseInv == Shapes /\ StepInv /\ \A i \in DOMAIN attempts : WentThrough(attempts[i])

LEMMA AttemptAdded ==
  ASSUME Shapes, NEW x, attempts' = Append(attempts, x)
  PROVE  /\ \E T : attempts' \in Seq(T)
         /\ \A i \in DOMAIN attempts : i \in DOMAIN attempts' /\ attempts'[i] = attempts[i]
         /\ \A i \in DOMAIN attempts' : i \in DOMAIN attempts \/ attempts'[i] = x
  <1>1. PICK T : attempts \in Seq(T) BY DEF Shapes
  <1>2. attempts \in Seq(T \cup {x}) BY <1>1
  <1>3. attempts' \in Seq(T \cup {x}) BY <1>2
  <1>4. /\ \A i \in DOMAIN attempts : i \in DOMAIN attempts' /\ attempts'[i] = attempts[i]
        /\ \A i \in DOMAIN attempts' : i \in DOMAIN attempts \/ attempts'[i] = x
    BY <1>2
  <1>. QED BY <1>3, <1>4

LEMMA PhaseAttempt == ASSUME PhaseInv, Phase!Attempt PROVE PhaseInv'
  <1>1. /\ UNCHANGED <<clock, input, session, step, ev>>
        /\ step \in {"permitted_action_confirmed", "post_revocation_action_rejected"}
    BY DEF Phase!Attempt
  <1>2. PICK ok \in BOOLEAN, hash \in BOOLEAN, r \in Actions :
          /\ ok => Phase!StatusAt(clock) = "active"
          /\ attempts' = Append(attempts, [at |-> clock, ok |-> ok, hash |-> hash, value |-> r.value, spends |-> r.spends])
    BY DEF Phase!Attempt
  <1>3. PICK x : x = [at |-> clock, ok |-> ok, hash |-> hash, value |-> r.value, spends |-> r.spends] OBVIOUS
  <1>4. /\ \E T : attempts' \in Seq(T)
        /\ \A i \in DOMAIN attempts : i \in DOMAIN attempts' /\ attempts'[i] = attempts[i]
        /\ \A i \in DOMAIN attempts' : i \in DOMAIN attempts \/ attempts'[i] = x
    BY <1>2, <1>3, AttemptAdded DEF PhaseInv
  <1>5. x.at = clock /\ x.ok = ok BY <1>3
  <1>6. WentThrough(x)
    <2>1. ok => /\ ~(session.granted = 0 \/ clock < session.granted)
                /\ ~(session.revoked # 0 /\ clock >= session.revoked)
      BY <1>2 DEF Phase!StatusAt
    <2>. QED BY <1>5, <2>1 DEF PhaseInv, Shapes, WentThrough
  <1>7. Shapes' BY <1>1, <1>4, <1>5 DEF PhaseInv, Shapes, EvidenceShape
  <1>8. \A i \in DOMAIN attempts' : (WentThrough(attempts[i]))'
    <2>1. ASSUME NEW i \in DOMAIN attempts' PROVE WentThrough(attempts'[i])
      BY <1>4, <1>6, <2>1 DEF PhaseInv
    <2>. QED BY <1>1, <2>1 DEF WentThrough
  <1>9. StepInv'
    <2>1. ev.status # "passed" BY <1>1 DEF PhaseInv, StepInv
    <2>2. Admitted' BY <1>1 DEF PhaseInv, StepInv, Admitted
    <2>3. step = "post_revocation_action_rejected" =>
            \E i \in DOMAIN attempts' : attempts'[i].ok /\ Phase!SameTotals(attempts'[i].spends, input.request.spends)
      BY <1>4 DEF PhaseInv, StepInv
    <2>4. step' \in Acting /\ step' # "revocation_confirmed" BY <1>1 DEF Acting
    <2>. QED BY <1>1, <2>1, <2>2, <2>3, <2>4 DEF PhaseInv, StepInv
  <1>. QED BY <1>7, <1>8, <1>9 DEF PhaseInv

LEMMA PhaseRevokeOnChain == ASSUME PhaseInv, Phase!RevokeOnChain PROVE PhaseInv'
  <1>1. /\ UNCHANGED <<clock, input, attempts, step, ev>> /\ step \notin {"passed", "blocked"}
        /\ session.revoked = 0 /\ session' = [session EXCEPT !.revoked = clock]
    BY DEF Phase!RevokeOnChain, Phase!Running
  <1>2. PICK s : s = session' OBVIOUS
  <1>3. s.policy = session.policy /\ s.granted = session.granted /\ s.revoked = clock /\ DOMAIN s = DOMAIN session
    BY <1>1, <1>2 DEF PhaseInv, Shapes
  <1>4. Shapes' BY <1>1, <1>2, <1>3 DEF PhaseInv, Shapes, EvidenceShape
  <1>5. ASSUME NEW i \in DOMAIN attempts' PROVE (WentThrough(attempts[i]))'
    BY <1>1, <1>2, <1>3 DEF PhaseInv, WentThrough
  <1>6. ev.status # "passed" /\ step # "post_revocation_action_rejected" BY <1>1 DEF PhaseInv, StepInv
  <1>7. Admitted = Admitted' BY <1>1 DEF Admitted
  <1>8. StepInv' BY <1>1, <1>2, <1>3, <1>6, <1>7 DEF PhaseInv, StepInv
  <1>. QED BY <1>4, <1>5, <1>8 DEF PhaseInv

LEMMA PhaseTick == ASSUME PhaseInv, Phase!Tick PROVE PhaseInv'
  <1>1. /\ UNCHANGED <<input, session, attempts, step, ev>> /\ step \notin {"passed", "blocked"}
        /\ clock' = clock + 1
    BY DEF Phase!Tick, Phase!Running
  <1>2. clock \in Nat /\ clock' \in Nat BY <1>1 DEF PhaseInv, Shapes
  <1>3. Shapes' BY <1>1, <1>2 DEF PhaseInv, Shapes, EvidenceShape
  <1>4. ASSUME NEW i \in DOMAIN attempts' PROVE (WentThrough(attempts[i]))'
    <2>1. attempts[i].at \in Nat /\ WentThrough(attempts[i]) BY <1>1, <1>4 DEF PhaseInv, Shapes
    <2>. QED BY <1>1, <1>2, <2>1 DEF WentThrough
  <1>5. ev.status # "passed" BY <1>1 DEF PhaseInv, StepInv
  <1>6. Admitted = Admitted' BY <1>1 DEF Admitted
  <1>7. StepInv' BY <1>1, <1>5, <1>6 DEF PhaseInv, StepInv
  <1>. QED BY <1>3, <1>4, <1>7 DEF PhaseInv

\* A step of the runner that leaves the chain alone.
LEMMA RunnerMoves ==
  ASSUME PhaseInv, UNCHANGED <<clock, session, attempts>>, EvidenceShape', StepInv',
         step' \in Phase!Steps \cup {"start", "passed", "blocked"}
  PROVE  PhaseInv'
  <1>1. Shapes' BY DEF PhaseInv, Shapes
  <1>2. ASSUME NEW i \in DOMAIN attempts' PROVE (WentThrough(attempts[i]))' BY <1>2 DEF PhaseInv, WentThrough
  <1>. QED BY <1>1, <1>2 DEF PhaseInv

\* The runner gives up.
LEMMA PhaseStops ==
  ASSUME PhaseInv, UNCHANGED <<clock, session, attempts>>, NEW e, NEW s \in Phase!Steps,
         DOMAIN e = DOMAIN ev, e.session = ev.session, DOMAIN e.cp = Phase!Steps,
         ev' = Phase!Failed(e, s), step' = "blocked"
  PROVE  PhaseInv'
  <1>1. EvidenceShape' /\ ev'.status = "blocked"
    <2>1. PICK cp : cp = [e.cp EXCEPT ![s] = [Phase!Empty EXCEPT !.state = "failed", !.at = clock]] OBVIOUS
    <2>2. PICK f : f = ev' OBVIOUS
    <2>3. f = [e EXCEPT !.status = "blocked", !.cp = cp] BY <2>1, <2>2 DEF Phase!Failed
    <2>4. DOMAIN f = DOMAIN ev /\ f.status = "blocked" /\ f.cp = cp /\ f.session = ev.session
      BY <2>3 DEF PhaseInv, Shapes, EvidenceShape
    <2>5. DOMAIN cp = Phase!Steps BY <2>1
    <2>. QED BY <2>2, <2>4, <2>5 DEF PhaseInv, Shapes, EvidenceShape
  <1>2. StepInv' BY <1>1 DEF StepInv, Acting
  <1>. QED BY <1>1, <1>2, RunnerMoves

LEMMA PhaseBlocked ==
  ASSUME PhaseInv, UNCHANGED <<clock, session, attempts>>, step \in Phase!Steps, Phase!Stop(step)
  PROVE  PhaseInv'
  BY PhaseStops DEF Phase!Stop, PhaseInv, Shapes, EvidenceShape

LEMMA TemplateShape ==
  /\ DOMAIN Phase!Template = {"status", "level", "policy", "expected", "session", "authority", "cp"}
  /\ DOMAIN Phase!Template.session = {"policy", "handed"} /\ DOMAIN Phase!Template.cp = Phase!Steps
  BY DEF Phase!Template

LEMMA PhaseBegin == ASSUME PhaseInv, Phase!Begin PROVE PhaseInv'
  <1>1. UNCHANGED <<clock, session, attempts>> /\ attempts = <<>>
    BY DEF Phase!Begin, PhaseInv, StepInv, Acting
  <1>2. PICK i : i = input' OBVIOUS
  <1>3. \/ /\ Phase!ActionWithinPolicy(i.policy, i.request, i.used, i.now) /\ i.attestor \in Attestors
           /\ step' = "policy_reviewed"
           /\ ev' = [Phase!Template EXCEPT !.status = "in_progress", !.policy = i.policy,
                       !.expected = [chain |-> i.policy.chain, request |-> i.request]]
        \/ ev' = Phase!Failed(Phase!Template, "policy_reviewed") /\ step' = "blocked"
    <2>1. PICK p \in Policies, r \in Actions, u \in Used, d \in Destinations, a \in Attestors :
            /\ input' = [policy |-> p, request |-> r, used |-> u, destination |-> d, attestor |-> a, now |-> clock]
            /\ \/ /\ Phase!ActionWithinPolicy(p, r, u, clock)
                  /\ ev' = [Phase!Template EXCEPT !.status = "in_progress", !.policy = p,
                              !.expected = [chain |-> p.chain, request |-> r]]
                  /\ step' = "policy_reviewed"
               \/ ev' = Phase!Failed(Phase!Template, "policy_reviewed") /\ step' = "blocked"
      BY ZenonT(60) DEF Phase!Begin
    <2>2. i.policy = p /\ i.request = r /\ i.used = u /\ i.attestor = a /\ i.now = clock BY <1>2, <2>1
    <2>. QED BY <2>1, <2>2
  <1>4. CASE ev' = Phase!Failed(Phase!Template, "policy_reviewed") /\ step' = "blocked"
    <2>1. EvidenceShape' /\ ev'.status = "blocked"
      BY <1>4, TemplateShape DEF Phase!Failed, EvidenceShape, Phase!Steps
    <2>2. StepInv' BY <1>1, <1>4, <2>1 DEF StepInv, Acting
    <2>. QED BY <1>1, <1>4, <2>1, <2>2, RunnerMoves
  <1>5. CASE ~(ev' = Phase!Failed(Phase!Template, "policy_reviewed") /\ step' = "blocked")
    <2>1. EvidenceShape' /\ ev'.status = "in_progress" BY <1>3, <1>5, TemplateShape DEF EvidenceShape
    <2>2. step' = "policy_reviewed" /\ Admitted' BY <1>2, <1>3, <1>5 DEF Admitted
    <2>3. StepInv' BY <1>1, <2>1, <2>2 DEF StepInv, Acting
    <2>. QED BY <1>1, <2>1, <2>2, <2>3, RunnerMoves DEF Phase!Steps
  <1>. QED BY <1>4, <1>5

\* The evidence with one checkpoint more.
Checked(s, c) == [ev EXCEPT !.status = "in_progress", !.cp[s] = c]

LEMMA CheckedShape ==
  ASSUME PhaseInv, NEW s \in Phase!Steps, NEW c
  PROVE  /\ DOMAIN Checked(s, c) = DOMAIN ev /\ Checked(s, c).status = "in_progress" /\ Checked(s, c).session = ev.session
         /\ DOMAIN Checked(s, c).cp = Phase!Steps /\ Checked(s, c).cp[s] = c
         /\ \A t \in Phase!Steps \ {s} : Checked(s, c).cp[t] = ev.cp[t]
         /\ Checked(s, c).level = ev.level
  <1>1. PICK cp : cp = [ev.cp EXCEPT ![s] = c] OBVIOUS
  <1>2. DOMAIN cp = Phase!Steps /\ cp[s] = c /\ \A t \in Phase!Steps \ {s} : cp[t] = ev.cp[t]
    BY <1>1 DEF PhaseInv, Shapes, EvidenceShape
  <1>3. PICK e : e = Checked(s, c) OBVIOUS
  <1>4. e = [ev EXCEPT !.status = "in_progress", !.cp = cp] BY <1>1, <1>3 DEF Checked
  <1>5. DOMAIN e = DOMAIN ev /\ e.status = "in_progress" /\ e.session = ev.session /\ e.cp = cp /\ e.level = ev.level
    BY <1>4 DEF PhaseInv, Shapes, EvidenceShape
  <1>. QED BY <1>2, <1>3, <1>5

LEMMA PhaseReview == ASSUME PhaseInv, Phase!Review PROVE PhaseInv'
  <1>1. /\ UNCHANGED <<clock, input, session, attempts>> /\ step = "policy_reviewed" /\ step' = "session_granted"
        /\ step \in Phase!Steps
    BY DEF Phase!Review, Phase!Steps
  <1>2. PICK e : e = ev' OBVIOUS
  <1>3. PICK c : e = Checked(step, c) BY <1>2 DEF Phase!Review, Phase!RecordCheckpoint, Checked
  <1>4. DOMAIN e = DOMAIN ev /\ e.status = "in_progress" /\ e.session = ev.session /\ DOMAIN e.cp = Phase!Steps
    BY <1>1, <1>3, CheckedShape
  <1>5. EvidenceShape' BY <1>2, <1>4 DEF EvidenceShape, PhaseInv, Shapes
  <1>6. StepInv' BY <1>1, <1>2, <1>4 DEF StepInv, Acting, PhaseInv, Admitted
  <1>. QED BY <1>1, <1>5, <1>6, RunnerMoves DEF Phase!Steps

LEMMA PhaseGrant == ASSUME PhaseInv, Phase!Grant PROVE PhaseInv'
  <1>1. UNCHANGED <<clock, input, attempts>> /\ step = "session_granted" /\ step \in Phase!Steps
    BY DEF Phase!Grant, Phase!Steps
  <1>2. attempts = <<>> BY <1>1 DEF PhaseInv, StepInv, Acting
  <1>3. PICK p : /\ session' = [policy |-> p, granted |-> clock, revoked |-> 0]
                 /\ \/ /\ p = input.policy /\ step' = "session_handed_off"
                       /\ ev' = [Phase!RecordCheckpoint(ev, step, clock) EXCEPT !.session.policy = p]
                    \/ Phase!Stop(step)
    BY DEF Phase!Grant
  <1>4. PICK s : s = session' OBVIOUS
  <1>5. DOMAIN s = {"policy", "granted", "revoked"} /\ s.policy = p /\ s.granted = clock /\ s.revoked = 0 BY <1>3, <1>4
  <1>6. clock \in Nat /\ EvidenceShape BY DEF PhaseInv, Shapes
  <1>7. ASSUME EvidenceShape', StepInv', step' \in {"session_handed_off", "blocked"} PROVE PhaseInv'
    <2>1. Shapes' BY <1>1, <1>2, <1>4, <1>5, <1>6, <1>7 DEF PhaseInv, Shapes, Phase!Steps
    <2>. QED BY <1>1, <1>2, <1>7, <2>1 DEF PhaseInv
  <1>8. CASE Phase!Stop(step)
    <2>1. EvidenceShape' /\ ev'.status = "blocked"
      <3>1. PICK cp : cp = [ev.cp EXCEPT ![step] = [Phase!Empty EXCEPT !.state = "failed", !.at = clock]] OBVIOUS
      <3>2. PICK f : f = ev' OBVIOUS
      <3>3. f = [ev EXCEPT !.status = "blocked", !.cp = cp] BY <1>8, <3>1, <3>2 DEF Phase!Failed, Phase!Stop
      <3>4. DOMAIN f = DOMAIN ev /\ f.status = "blocked" /\ f.cp = cp /\ f.session = ev.session
        BY <1>6, <3>3 DEF EvidenceShape
      <3>5. DOMAIN cp = Phase!Steps BY <1>6, <3>1 DEF EvidenceShape
      <3>. QED BY <1>6, <3>2, <3>4, <3>5 DEF EvidenceShape
    <2>2. StepInv' BY <1>8, <2>1 DEF StepInv, Acting, Phase!Stop
    <2>. QED BY <1>7, <1>8, <2>1, <2>2 DEF Phase!Stop
  <1>9. CASE /\ p = input.policy /\ step' = "session_handed_off"
             /\ ev' = [Phase!RecordCheckpoint(ev, step, clock) EXCEPT !.session.policy = p]
    <2>1. PICK e : e = Phase!RecordCheckpoint(ev, step, clock) OBVIOUS
    <2>2. PICK c : e = Checked(step, c) BY <2>1 DEF Phase!RecordCheckpoint, Checked
    <2>3. DOMAIN e = DOMAIN ev /\ e.status = "in_progress" /\ e.session = ev.session /\ DOMAIN e.cp = Phase!Steps
      BY <1>1, <2>2, CheckedShape
    <2>4. PICK f : f = ev' OBVIOUS
    <2>5. PICK h : h = [ev.session EXCEPT !.policy = p] OBVIOUS
    <2>6. f = [e EXCEPT !.session = h] BY <1>9, <2>1, <2>3, <2>4, <2>5 DEF EvidenceShape
    <2>7. DOMAIN f = DOMAIN ev /\ f.status = "in_progress" /\ f.session = h /\ f.cp = e.cp
      BY <1>6, <2>3, <2>6 DEF EvidenceShape
    <2>8. DOMAIN h = {"policy", "handed"} BY <1>6, <2>5 DEF EvidenceShape
    <2>9. EvidenceShape' BY <1>6, <2>3, <2>4, <2>7, <2>8 DEF EvidenceShape
    <2>10. StepInv' BY <1>1, <1>2, <1>4, <1>5, <1>9, <2>4, <2>7 DEF StepInv, Acting, PhaseInv, Admitted
    <2>. QED BY <1>7, <1>9, <2>9, <2>10
  <1>. QED BY <1>3, <1>8, <1>9

LEMMA PhaseHandoff == ASSUME PhaseInv, Phase!Handoff PROVE PhaseInv'
  <1>1. UNCHANGED <<clock, input, session, attempts>> /\ step = "session_handed_off" /\ step \in Phase!Steps
    BY DEF Phase!Handoff, Phase!Steps
  <1>2. CASE Phase!Stop(step) BY <1>1, <1>2, PhaseBlocked
  <1>3. CASE /\ step' = "permitted_action_confirmed"
             /\ ev' = [Phase!RecordCheckpoint(ev, step, clock) EXCEPT !.session.handed = input.destination]
    <2>0. EvidenceShape BY DEF PhaseInv, Shapes
    <2>1. PICK e : e = Phase!RecordCheckpoint(ev, step, clock) OBVIOUS
    <2>2. PICK c : e = Checked(step, c) BY <2>1 DEF Phase!RecordCheckpoint, Checked
    <2>3. DOMAIN e = DOMAIN ev /\ e.status = "in_progress" /\ e.session = ev.session /\ DOMAIN e.cp = Phase!Steps
      BY <1>1, <2>2, CheckedShape
    <2>4. PICK f : f = ev' OBVIOUS
    <2>5. PICK h : h = [ev.session EXCEPT !.handed = input.destination] OBVIOUS
    <2>6. f = [e EXCEPT !.session = h] BY <1>3, <2>1, <2>3, <2>4, <2>5 DEF EvidenceShape
    <2>7. DOMAIN f = DOMAIN ev /\ f.status = "in_progress" /\ f.session = h /\ f.cp = e.cp
      BY <2>0, <2>3, <2>6 DEF EvidenceShape
    <2>8. DOMAIN h = {"policy", "handed"} /\ h.handed = input.destination BY <2>0, <2>5 DEF EvidenceShape
    <2>9. EvidenceShape' BY <2>0, <2>3, <2>4, <2>7, <2>8 DEF EvidenceShape
    <2>10. StepInv' BY <1>1, <1>3, <2>4, <2>7, <2>8 DEF StepInv, Acting, PhaseInv, Admitted
    <2>. QED BY <1>1, <1>3, <2>9, <2>10, RunnerMoves DEF Phase!Steps
  <1>. QED BY <1>2, <1>3 DEF Phase!Handoff

LEMMA PhaseReadAuthority == ASSUME PhaseInv, Phase!ReadAuthority PROVE PhaseInv'
  <1>1. UNCHANGED <<clock, input, session, attempts>> /\ step = "permitted_action_confirmed" /\ step \in Phase!Steps
    BY DEF Phase!ReadAuthority, Phase!Steps
  <1>2. PICK obs : \/ ev' = [ev EXCEPT !.authority = obs] /\ step' = step
                   \/ Phase!Stop(step)
                   \/ ev' = Phase!Failed([ev EXCEPT !.authority = obs], step) /\ step' = "blocked"
    BY DEF Phase!ReadAuthority
  <1>3. PICK e : e = [ev EXCEPT !.authority = obs] OBVIOUS
  <1>4. DOMAIN e = DOMAIN ev /\ e.session = ev.session /\ e.cp = ev.cp /\ e.status = ev.status
    BY <1>3 DEF PhaseInv, Shapes, EvidenceShape
  <1>5. DOMAIN e.cp = Phase!Steps BY <1>4 DEF PhaseInv, Shapes, EvidenceShape
  <1>6. CASE Phase!Stop(step) BY <1>1, <1>6, PhaseBlocked
  <1>7. CASE ev' = Phase!Failed(e, step) /\ step' = "blocked" BY <1>1, <1>4, <1>5, <1>7, PhaseStops
  <1>8. CASE ev' = e /\ step' = step
    <2>1. EvidenceShape' BY <1>4, <1>8 DEF PhaseInv, Shapes, EvidenceShape
    <2>2. ev.status # "passed" BY <1>1 DEF PhaseInv, StepInv
    <2>3. StepInv' BY <1>1, <1>4, <1>8, <2>2 DEF StepInv, Acting, PhaseInv, Admitted
    <2>. QED BY <1>1, <1>8, <2>1, <2>3, RunnerMoves
  <1>. QED BY <1>2, <1>3, <1>6, <1>7, <1>8

LEMMA PhaseExecute == ASSUME PhaseInv, Phase!Execute PROVE PhaseInv'
  <1>1. UNCHANGED <<clock, input, session, attempts>> /\ step = "permitted_action_confirmed" /\ step \in Phase!Steps
    BY DEF Phase!Execute, Phase!Steps
  <1>2. CASE Phase!Stop(step) BY <1>1, <1>2, PhaseBlocked
  <1>3. CASE ~Phase!Stop(step)
    <2>1. PICK i \in DOMAIN attempts : /\ Phase!ActionAcceptable(attempts[i]) /\ attempts[i].ok
                                       /\ ev' = Phase!RecordAction(ev, step, attempts[i])
                                       /\ step' = "revocation_confirmed"
      BY <1>3 DEF Phase!Execute
    <2>2. Phase!SameTotals(attempts[i].spends, input.request.spends) BY <2>1 DEF Phase!ActionAcceptable
    <2>3. PICK e : e = ev' OBVIOUS
    <2>4. PICK c : e = Checked(step, c) BY <2>1, <2>3 DEF Phase!RecordAction, Checked
    <2>5. DOMAIN e = DOMAIN ev /\ e.status = "in_progress" /\ e.session = ev.session /\ DOMAIN e.cp = Phase!Steps
      BY <1>1, <2>4, CheckedShape
    <2>6. EvidenceShape' BY <2>3, <2>5 DEF PhaseInv, Shapes, EvidenceShape
    <2>7. StepInv' BY <1>1, <2>1, <2>2, <2>3, <2>5 DEF StepInv, Acting, PhaseInv, Admitted
    <2>. QED BY <1>1, <2>1, <2>6, <2>7, RunnerMoves DEF Phase!Steps
  <1>. QED BY <1>2, <1>3

LEMMA PhaseRevoke == ASSUME PhaseInv, Phase!Revoke PROVE PhaseInv'
  <1>1. /\ UNCHANGED <<clock, input, session, attempts>> /\ step = "revocation_confirmed" /\ step \in Phase!Steps
        /\ session.revoked # 0 /\ step' = "post_revocation_action_rejected"
    BY DEF Phase!Revoke, Phase!Steps
  <1>2. PICK hash : ev' = Phase!RecordRevocation(ev, session.revoked, hash) BY DEF Phase!Revoke
  <1>3. PICK e : e = ev' OBVIOUS
  <1>4. PICK c : c = [Phase!Empty EXCEPT !.state = "observed", !.at = session.revoked, !.hash = hash] OBVIOUS
  <1>5. c.at = session.revoked BY <1>4 DEF Phase!Empty
  <1>6. e = Checked(step, c) BY <1>1, <1>2, <1>3, <1>4 DEF Phase!RecordRevocation, Checked
  <1>7. DOMAIN e = DOMAIN ev /\ e.status = "in_progress" /\ e.session = ev.session /\ DOMAIN e.cp = Phase!Steps /\ e.cp[step] = c
    BY <1>1, <1>6, CheckedShape
  <1>8. EvidenceShape' BY <1>3, <1>7 DEF PhaseInv, Shapes, EvidenceShape
  <1>9. StepInv' BY <1>1, <1>3, <1>5, <1>7 DEF StepInv, Acting, PhaseInv, Admitted
  <1>. QED BY <1>1, <1>8, <1>9, RunnerMoves DEF Phase!Steps

LEMMA PhaseExecuteAfterRevocation ==
  ASSUME PhaseInv, Phase!ExecuteAfterRevocation, AttestorsNamed PROVE PhaseInv'
  <1>1. /\ UNCHANGED <<clock, input, session, attempts>> /\ step = "post_revocation_action_rejected"
        /\ step \in Phase!Steps
    BY DEF Phase!ExecuteAfterRevocation, Phase!Steps
  <1>2. CASE Phase!Stop(step) BY <1>1, <1>2, PhaseBlocked
  <1>3. CASE ~Phase!Stop(step)
    <2>1. PICK i \in DOMAIN attempts :
            /\ ~attempts[i].ok /\ Phase!Complete(Phase!RecordAction(ev, step, attempts[i]), input.attestor)
            /\ ev' = Phase!Finalized(Phase!RecordAction(ev, step, attempts[i]), input.attestor)
            /\ step' = "passed"
      BY <1>3 DEF Phase!ExecuteAfterRevocation
    <2>2. PICK e : e = Phase!RecordAction(ev, step, attempts[i]) OBVIOUS
    <2>3. PICK c : e = Checked(step, c) /\ c.at = attempts[i].at
      <3>1. PICK c : c = [state |-> Phase!ActionState(step, attempts[i].ok), at |-> attempts[i].at,
                          hash |-> attempts[i].hash, spends |-> attempts[i].spends]
        OBVIOUS
      <3>2. e = Checked(step, c) BY <2>2, <3>1 DEF Phase!RecordAction, Checked
      <3>. QED BY <3>1, <3>2
    <2>4. /\ DOMAIN e = DOMAIN ev /\ e.session = ev.session /\ DOMAIN e.cp = Phase!Steps /\ e.cp[step] = c
          /\ e.cp["revocation_confirmed"] = ev.cp["revocation_confirmed"]
      BY <1>1, <2>3, CheckedShape DEF Phase!Steps
    <2>5. PICK f : f = ev' OBVIOUS
    <2>6. /\ DOMAIN f = DOMAIN ev /\ f.session = ev.session /\ f.cp = e.cp /\ f.status = "passed"
          /\ f.level = Phase!Level(input.attestor)
      BY <2>1, <2>2, <2>4, <2>5 DEF Phase!Finalized, PhaseInv, Shapes, EvidenceShape
    <2>7. EvidenceShape' BY <2>4, <2>5, <2>6 DEF PhaseInv, Shapes, EvidenceShape
    <2>8. attempts[i].at >= session.revoked
      <3>1. e.cp["revocation_confirmed"].at <= e.cp["post_revocation_action_rejected"].at
        BY <2>1, <2>2 DEF Phase!Complete, Phase!Chronological
      <3>2. session.revoked \in Nat /\ attempts[i].at \in Nat BY DEF PhaseInv, Shapes
      <3>. QED BY <1>1, <2>3, <2>4, <3>1, <3>2 DEF PhaseInv, StepInv
    <2>9. f.level = "testnet" => input.attestor = "authorized-live-adapter" /\ input.destination # "local-test-only"
      <3>1. input.attestor \in {"simulation", "local-verifier", "authorized-live-adapter"}
        BY <1>1 DEF PhaseInv, StepInv, Admitted, AttestorsNamed
      <3>2. f.level = "testnet" => input.attestor = "authorized-live-adapter" BY <2>6, <3>1 DEF Phase!Level
      <3>3. input.attestor = "authorized-live-adapter" => e.session.handed # "local-test-only"
        BY <2>1, <2>2 DEF Phase!Complete, Phase!LiveComplete
      <3>. QED BY <1>1, <2>4, <3>2, <3>3 DEF PhaseInv, StepInv, Acting
    <2>10. session.policy = input.policy /\ session.revoked # 0 BY <1>1 DEF PhaseInv, StepInv, Acting
    <2>11. PICK k \in DOMAIN attempts : attempts[k].ok /\ Phase!SameTotals(attempts[k].spends, input.request.spends)
      BY <1>1 DEF PhaseInv, StepInv
    <2>12. session.granted <= attempts[k].at /\ attempts[k].at <= session.revoked
      BY <2>10, <2>11 DEF PhaseInv, WentThrough
    <2>13. ASSUME NEW b \in Phase!Buckets(attempts[k].spends)
           PROVE  Phase!Charged(input.used, b) + Phase!Charged(attempts[k].spends, b) <= session.policy.spend[b]
      <3>1. b \in Phase!Buckets(input.request.spends)
            /\ Phase!Charged(attempts[k].spends, b) = Phase!Charged(input.request.spends, b)
        BY <2>11 DEF Phase!SameTotals
      <3>2. Phase!WithinLimit(input.policy, input.used, input.request.spends, b)
        BY <1>1, <3>1 DEF PhaseInv, StepInv, Admitted, Phase!ActionWithinPolicy
      <3>. QED BY <2>10, <3>1, <3>2 DEF Phase!WithinLimit
    <2>14. PassedIsTrue'
      BY <1>1, <2>1, <2>5, <2>8, <2>9, <2>10, <2>11, <2>12, <2>13 DEF PassedIsTrue, Phase!PassedIsTrue
    <2>15. StepInv' BY <1>1, <2>1, <2>14 DEF StepInv, Acting, PhaseInv, Admitted
    <2>. QED BY <1>1, <2>1, <2>7, <2>15, RunnerMoves
  <1>. QED BY <1>2, <1>3

LEMMA PhaseStep == PhaseInv /\ AttestorsNamed /\ [Phase!Next]_(Phase!vars) => PhaseInv'
  <1> SUFFICES ASSUME PhaseInv, AttestorsNamed, [Phase!Next]_(Phase!vars) PROVE PhaseInv' OBVIOUS
  <1>1. CASE UNCHANGED Phase!vars
    <2>1. UNCHANGED <<clock, input, session, attempts, step, ev>> BY <1>1 DEF Phase!vars
    <2>2. PassedIsTrue = PassedIsTrue' BY <2>1 DEF PassedIsTrue, Phase!PassedIsTrue
    <2>3. Admitted = Admitted' BY <2>1 DEF Admitted
    <2>4. EvidenceShape' BY <2>1 DEF PhaseInv, Shapes, EvidenceShape
    <2>5. StepInv' BY <2>1, <2>2, <2>3 DEF PhaseInv, StepInv
    <2>. QED BY <2>1, <2>4, <2>5, RunnerMoves DEF PhaseInv, Shapes
  <1>2. CASE Phase!AdapterFails BY <1>2, PhaseBlocked DEF Phase!AdapterFails
  <1>. QED BY <1>1, <1>2, PhaseAttempt, PhaseRevokeOnChain, PhaseTick, PhaseBegin, PhaseReview, PhaseGrant, PhaseHandoff,
              PhaseReadAuthority, PhaseExecute, PhaseRevoke, PhaseExecuteAfterRevocation DEF Phase!Next

LEMMA PhaseStart == Phase!Init => PhaseInv
  <1> SUFFICES ASSUME Phase!Init PROVE PhaseInv OBVIOUS
  <1>1. attempts = <<>> /\ step = "start" /\ clock = 1 /\ ev = Phase!Template
        /\ session = [policy |-> "none", granted |-> 0, revoked |-> 0]
    BY DEF Phase!Init
  <1>2. EvidenceShape /\ ev.status = "not_run" BY <1>1, TemplateShape DEF EvidenceShape, Phase!Template
  <1>3. attempts \in Seq({}) BY <1>1
  <1>4. Shapes BY <1>1, <1>2, <1>3 DEF Shapes
  <1>5. StepInv BY <1>1, <1>2 DEF StepInv, Acting
  <1>. QED BY <1>1, <1>4, <1>5 DEF PhaseInv

\* Whatever the adapters answer, cache or retry, a report that is finalized as passed is
\* true of the chain (finalizePhaseZeroEvidence), for any policies, actions and limits.
THEOREM PassedReportsAreTrue == ASSUME AttestorsNamed PROVE Phase!Spec => []PassedIsTrue
  <1>1. PhaseInv => PassedIsTrue BY DEF PhaseInv, StepInv, PassedIsTrue, Phase!PassedIsTrue
  <1>2. PhaseInv /\ [Phase!Next]_(Phase!vars) => PhaseInv' BY PhaseStep
  <1>. QED BY <1>1, <1>2, PhaseStart, PTL DEF Phase!Spec

-----------------------------------------------------------------------------
(***************************************************************************)
(* Evidence of a settled job.                                              *)
(*                                                                         *)
(* Once a job is completed the marketplace changes nothing of it that the  *)
(* run is made of (SameCore), so every snapshot that passed validateFacts, *)
(* whenever it was taken, gives the same run; and every artifact told to   *)
(* anyone is the one in its evidence_objects row.                          *)
(***************************************************************************)

\* Missing is not a job and not the row of an evidence object.
NoEvidence == Missing # "7" /\ \A x, y : Missing # [artifact |-> x, binding |-> y]

FactFields == {"parent", "job", "result", "agent", "services"}
JobFields == {"id", "state", "binding", "client", "provider", "digest", "fund", "submit", "settle", "payload"}
AgentFields == {"id", "identity", "version", "category", "metadata", "pricing"}

FactsOK(f) == DOMAIN f = FactFields /\ DOMAIN f.job = JobFields /\ DOMAIN f.agent = AgentFields /\ f.job.id = "7"

\* Facts that differ at most in the category and the services of the agent.
SameCore(f, g) ==
  /\ f.parent = g.parent /\ f.job = g.job /\ f.result = g.result
  /\ \A k \in AgentFields \ {"category"} : f.agent[k] = g.agent[k]

SettledJob(f) == Frozen!AllSettled(f) /\ Frozen!BindingsAgree(f)

RunOf(f) == Frozen!expectedProjection(Frozen!runRows(f, Missing))

IsRun(r, f) == SettledJob(f) /\ r = RunOf(f)

OperatorOK(q, f) ==
  /\ DOMAIN q = {"at", "loaded", "env"}
  /\ q.at \in {"idle", "row", "frozen", "insert", "verify"}
  /\ q.at # "idle" => FactsOK(q.loaded) /\ (q.loaded.job.state = "completed" => SameCore(q.loaded, f))
  /\ q.at \in {"frozen", "insert", "verify"} => SettledJob(q.loaded)

FileOK(file, f) ==
  /\ file.type \in {"agent_profile", "run_bundle"}
  /\ file.type = "run_bundle" => IsRun(file.run, f)

RunsOK(run, ins, f) == (run # Missing => IsRun(run, f)) /\ (ins # Missing => IsRun(ins.row, f))

\* A run bundle on record repeats the run on record.
BundleOK(objs, run) ==
  /\ DOMAIN objs = {"agent_profile", "run_bundle"}
  /\ objs["run_bundle"] # Missing =>
       run # Missing /\ objs["run_bundle"].artifact.content.decision = run.decision

ReportOK(a, objs, f) ==
  \/ SettledJob(f) /\ a = [type |-> "agent_run", row |-> RunOf(f)]
  \/ /\ a.type \in {"agent_profile", "run_bundle"} /\ objs[a.type] # Missing
     /\ a = objs[a.type].artifact

EvidenceInv ==
  /\ FactsOK(facts) /\ RunsOK(agentRun, inserting, facts) /\ BundleOK(objects, agentRun)
  /\ DOMAIN proc = Callers /\ \A p \in Callers : OperatorOK(proc[p], facts)
  /\ \A file \in files : FileOK(file, facts)
  /\ \A a \in reported : ReportOK(a, objects, facts)

\* What the marketplace may do to the rows.
FactsMove(f, g) == FactsOK(g) /\ (f.job.state = "completed" => SameCore(f, g))

LEMMA CoreIsEnough ==
  ASSUME NEW f, NEW g, SameCore(f, g)
  PROVE  (SettledJob(f) => SettledJob(g)) /\ RunOf(f) = RunOf(g)
  <1>1. f.agent.id = g.agent.id /\ f.agent.identity = g.agent.identity /\ f.agent.version = g.agent.version
    BY DEF SameCore, AgentFields
  <1>2. SettledJob(f) => SettledJob(g)
    BY <1>1 DEF SameCore, SettledJob, Frozen!AllSettled, Frozen!BindingsAgree, Frozen!assertBindingEqual,
       Frozen!identityFromBinding, Frozen!identityFromRow
  <1>3. RunOf(f) = RunOf(g)
    BY <1>1 DEF SameCore, RunOf, Frozen!expectedProjection, Frozen!runRows, Frozen!inputSnapshot, Frozen!decisionSummary
  <1>. QED BY <1>2, <1>3

LEMMA RunKept ==
  ASSUME NEW f, NEW g, FactsMove(f, g), NEW r, IsRun(r, f) PROVE IsRun(r, g)
  <1>1. SameCore(f, g) BY DEF FactsMove, IsRun, SettledJob, Frozen!AllSettled
  <1>. QED BY <1>1, CoreIsEnough DEF IsRun

LEMMA OperatorKept ==
  ASSUME NEW f, NEW g, FactsMove(f, g), NEW q, OperatorOK(q, f) PROVE OperatorOK(q, g)
  <1>1. ASSUME SameCore(q.loaded, f), q.loaded.job.state = "completed" PROVE SameCore(q.loaded, g)
    <2>1. f.job.state = "completed" BY <1>1 DEF SameCore
    <2>2. SameCore(f, g) BY <2>1 DEF FactsMove
    <2>. QED BY <1>1, <2>2 DEF SameCore
  <1>. QED BY <1>1 DEF OperatorOK

\* What an operator or the marketplace may write.
EvidenceWrites ==
  /\ FactsMove(facts, facts')
  /\ proc' = proc \/ \E p \in Callers : \E q : proc' = [proc EXCEPT ![p] = q] /\ OperatorOK(q, facts')
  /\ RunsOK(agentRun', inserting', facts') /\ BundleOK(objects', agentRun')
  /\ \A file \in files' : file \in files \/ FileOK(file, facts')
  /\ \A t \in {"agent_profile", "run_bundle"} : objects[t] # Missing => objects'[t] = objects[t]
  /\ \A a \in reported' : a \in reported \/ ReportOK(a, objects', facts')

LEMMA EvidenceMoves == ASSUME EvidenceInv, EvidenceWrites PROVE EvidenceInv'
  <1>1. PICK g : g = facts' OBVIOUS
  <1>2. FactsMove(facts, g) /\ FactsOK(g) BY <1>1 DEF EvidenceWrites, FactsMove
  <1>3. DOMAIN proc' = Callers /\ \A p \in Callers : OperatorOK(proc'[p], g)
    <2>1. CASE proc' = proc BY <1>2, <2>1, OperatorKept DEF EvidenceInv
    <2>2. CASE \E p \in Callers : \E q : proc' = [proc EXCEPT ![p] = q] /\ OperatorOK(q, g)
      <3>1. PICK p \in Callers : \E q : proc' = [proc EXCEPT ![p] = q] /\ OperatorOK(q, g) BY <2>2
      <3>2. PICK q : proc' = [proc EXCEPT ![p] = q] /\ OperatorOK(q, g) BY <3>1
      <3>3. DOMAIN proc' = Callers /\ \A r \in Callers : proc'[r] = IF r = p THEN q ELSE proc[r]
        BY <3>2 DEF EvidenceInv
      <3>. QED BY <1>2, <3>2, <3>3, OperatorKept DEF EvidenceInv
    <2>. QED BY <1>1, <2>1, <2>2 DEF EvidenceWrites
  <1>4. \A file \in files' : FileOK(file, g)
    <2>1. \A file \in files : FileOK(file, g) BY <1>2, RunKept DEF EvidenceInv, FileOK
    <2>. QED BY <1>1, <2>1 DEF EvidenceWrites
  <1>5. \A a \in reported' : ReportOK(a, objects', g)
    <2>1. ASSUME NEW a \in reported PROVE ReportOK(a, objects', g)
      <3>1. CASE SettledJob(facts) /\ a = [type |-> "agent_run", row |-> RunOf(facts)]
        <4>1. IsRun(RunOf(facts), g) BY <1>2, <3>1, RunKept DEF IsRun
        <4>. QED BY <3>1, <4>1 DEF ReportOK, IsRun
      <3>2. CASE /\ a.type \in {"agent_profile", "run_bundle"} /\ objects[a.type] # Missing
                 /\ a = objects[a.type].artifact
        BY <3>2 DEF EvidenceWrites, ReportOK
      <3>. QED BY <2>1, <3>1, <3>2 DEF EvidenceInv, ReportOK
    <2>. QED BY <1>1, <2>1 DEF EvidenceWrites
  <1>. QED BY <1>1, <1>2, <1>3, <1>4, <1>5 DEF EvidenceInv, EvidenceWrites

LEMMA FactsStay == ASSUME EvidenceInv, facts' = facts PROVE FactsMove(facts, facts')
  BY DEF EvidenceInv, FactsMove, SameCore

\* A step that leaves the records alone.
LEMMA OperatorMoves ==
  ASSUME EvidenceInv, UNCHANGED <<facts, agentRun, inserting, files, objects, reported>>,
         NEW p \in Callers, NEW q, proc' = [proc EXCEPT ![p] = q], OperatorOK(q, facts)
  PROVE  EvidenceInv'
  <1>1. EvidenceWrites BY FactsStay DEF EvidenceWrites, EvidenceInv
  <1>. QED BY <1>1, EvidenceMoves

LEMMA ExpectedIsRun ==
  ASSUME EvidenceInv, NEW p \in Callers, proc[p].at \in {"frozen", "insert", "verify"}
  PROVE  IsRun(Frozen!Expected(p), facts)
  <1>1. SettledJob(proc[p].loaded) /\ SameCore(proc[p].loaded, facts)
    BY DEF EvidenceInv, OperatorOK, SettledJob, Frozen!AllSettled
  <1>2. Frozen!Expected(p) = RunOf(proc[p].loaded)
    BY DEF Frozen!Expected, RunOf, Frozen!expectedProjection, Frozen!runRows
  <1>. QED BY <1>1, <1>2, CoreIsEnough DEF IsRun

LEMMA IdleOK == OperatorOK(Frozen!Idle, facts) BY DEF OperatorOK, Frozen!Idle

LEMMA EvidenceMarketplace == ASSUME EvidenceInv, Frozen!Marketplace PROVE EvidenceInv'
  <1>1. UNCHANGED <<agentRun, inserting, proc, files, objects, reported>> BY DEF Frozen!Marketplace
  <1>2. FactsOK(facts) BY DEF EvidenceInv
  <1>3. PICK g : g = facts' OBVIOUS
  <1>4. FactsMove(facts, g)
    <2>1. CASE Frozen!Fund
      <3>1. PICK job : job = [facts.job EXCEPT !.state = "funded", !.fund = "f"] OBVIOUS
      <3>2. PICK parent : parent = [facts.parent EXCEPT !.fund = Frozen!Coalesce(@, "f"), !.status = "funded"] OBVIOUS
      <3>3. DOMAIN job = JobFields /\ job.id = "7" BY <1>2, <3>1 DEF FactsOK, JobFields
      <3>4. g = [facts EXCEPT !.job = job, !.parent = parent]
        BY <1>2, <1>3, <2>1, <3>1, <3>2 DEF Frozen!Fund, FactsOK, FactFields
      <3>5. DOMAIN g = FactFields /\ g.job = job /\ g.agent = facts.agent BY <1>2, <3>4 DEF FactsOK, FactFields
      <3>. QED BY <1>2, <2>1, <3>3, <3>5 DEF FactsMove, FactsOK, Frozen!Fund
    <2>2. CASE Frozen!Submit
      <3>1. PICK job : job = [facts.job EXCEPT !.state = "submitted", !.submit = "s", !.digest = "d"] OBVIOUS
      <3>2. PICK parent : parent = [facts.parent EXCEPT !.submit = Frozen!Coalesce(@, "s"), !.status = "submitted"] OBVIOUS
      <3>3. DOMAIN job = JobFields /\ job.id = "7" BY <1>2, <3>1 DEF FactsOK, JobFields
      <3>4. PICK result : g = [facts EXCEPT !.job = job, !.parent = parent, !.result = result]
        <4>1. PICK result : result = [state |-> "submitted", binding |-> facts.job.binding, client |-> facts.job.client,
                                      provider |-> facts.job.provider, digest |-> "d", submit |-> "s",
                                      settle |-> Missing, payload |-> facts.job.payload]
          OBVIOUS
        <4>2. g = [facts EXCEPT !.job = job, !.parent = parent, !.result = result]
          BY <1>2, <1>3, <2>2, <3>1, <3>2, <4>1 DEF Frozen!Submit, FactsOK, FactFields
        <4>. QED BY <4>2
      <3>5. DOMAIN g = FactFields /\ g.job = job /\ g.agent = facts.agent BY <1>2, <3>4 DEF FactsOK, FactFields
      <3>. QED BY <1>2, <2>2, <3>3, <3>5 DEF FactsMove, FactsOK, Frozen!Submit
    <2>3. CASE Frozen!Settle
      <3>1. PICK job : job = [facts.job EXCEPT !.state = "completed", !.settle = "c"] OBVIOUS
      <3>2. PICK parent : parent = [facts.parent EXCEPT !.settle = Frozen!Coalesce(@, "c"), !.status = "settled"] OBVIOUS
      <3>3. PICK result : result = [facts.result EXCEPT !.state = "settled", !.settle = "c"] OBVIOUS
      <3>4. DOMAIN job = JobFields /\ job.id = "7" BY <1>2, <3>1 DEF FactsOK, JobFields
      <3>5. g = [facts EXCEPT !.job = job, !.parent = parent, !.result = result]
        BY <1>2, <1>3, <2>3, <3>1, <3>2, <3>3 DEF Frozen!Settle, FactsOK, FactFields
      <3>6. DOMAIN g = FactFields /\ g.job = job /\ g.agent = facts.agent BY <1>2, <3>5 DEF FactsOK, FactFields
      <3>. QED BY <1>2, <2>3, <3>4, <3>6 DEF FactsMove, FactsOK, Frozen!Settle
    <2>4. CASE Frozen!Recategorise("swap")
      <3>1. PICK agent : agent = [facts.agent EXCEPT !.category = "swap"] OBVIOUS
      <3>2. DOMAIN agent = AgentFields /\ \A k \in AgentFields \ {"category"} : facts.agent[k] = agent[k]
        BY <1>2, <3>1 DEF FactsOK
      <3>3. g = [facts EXCEPT !.agent = agent] BY <1>3, <2>4, <3>1 DEF Frozen!Recategorise
      <3>4. DOMAIN g = FactFields /\ g.agent = agent /\ g.parent = facts.parent /\ g.job = facts.job /\ g.result = facts.result
        BY <1>2, <3>3 DEF FactsOK, FactFields
      <3>. QED BY <1>2, <3>2, <3>4 DEF FactsMove, FactsOK, SameCore
    <2>5. CASE Frozen!AddService("https")
      <3>1. PICK ss : g = [facts EXCEPT !.services = ss] BY <1>3, <2>5 DEF Frozen!AddService
      <3>2. DOMAIN g = FactFields /\ g.agent = facts.agent /\ g.parent = facts.parent /\ g.job = facts.job
            /\ g.result = facts.result
        BY <1>2, <3>1 DEF FactsOK, FactFields
      <3>. QED BY <1>2, <3>2 DEF FactsMove, FactsOK, SameCore
    <2>. QED BY <2>1, <2>2, <2>3, <2>4, <2>5 DEF Frozen!Marketplace
  <1>5. RunsOK(agentRun, inserting, g) BY <1>4, RunKept DEF EvidenceInv, RunsOK
  <1>6. EvidenceWrites BY <1>1, <1>3, <1>4, <1>5 DEF EvidenceWrites, EvidenceInv
  <1>. QED BY <1>6, EvidenceMoves

LEMMA EvidenceLoadRow ==
  ASSUME EvidenceInv, NEW p \in Callers, NEW env, Frozen!LoadRow(p, env) PROVE EvidenceInv'
  <1>1. UNCHANGED <<facts, agentRun, inserting, files, objects, reported>> BY DEF Frozen!LoadRow
  <1>2. PICK q : q = [at |-> "row", loaded |-> facts, env |-> env] OBVIOUS
  <1>3. OperatorOK(q, facts) BY <1>2 DEF OperatorOK, EvidenceInv, SameCore
  <1>4. proc' = [proc EXCEPT ![p] = q] BY <1>2 DEF Frozen!LoadRow
  <1>. QED BY <1>1, <1>3, <1>4, OperatorMoves

LEMMA EvidenceLoadServices ==
  ASSUME EvidenceInv, NEW p \in Callers, Frozen!LoadServices(p) PROVE EvidenceInv'
  <1>1. UNCHANGED <<facts, agentRun, inserting, files, objects, reported>> /\ proc[p].at = "row" BY DEF Frozen!LoadServices
  <1>2. OperatorOK(proc[p], facts) BY DEF EvidenceInv
  <1>3. PICK f : f = [proc[p].loaded EXCEPT !.services = facts.services] OBVIOUS
  <1>4. FactsOK(f) /\ f.job = proc[p].loaded.job /\ SameCore(f, proc[p].loaded)
    BY <1>1, <1>2, <1>3 DEF OperatorOK, FactsOK, FactFields, SameCore
  <1>5. f.job.state = "completed" => SameCore(f, facts) BY <1>1, <1>2, <1>4 DEF OperatorOK, SameCore
  <1>6. PICK q : /\ proc' = [proc EXCEPT ![p] = q]
                 /\ \/ q = Frozen!Idle
                    \/ q = [at |-> "frozen", loaded |-> f, env |-> proc[p].env] /\ Frozen!CanFreeze(f, proc[p].env)
    BY <1>3 DEF Frozen!LoadServices
  <1>7. OperatorOK(q, facts)
    <2>1. CASE q = Frozen!Idle BY <2>1, IdleOK
    <2>2. CASE q = [at |-> "frozen", loaded |-> f, env |-> proc[p].env] /\ Frozen!CanFreeze(f, proc[p].env)
      <3>1. SettledJob(f) BY <2>2 DEF Frozen!CanFreeze, Frozen!validateFacts, SettledJob
      <3>2. DOMAIN q = {"at", "loaded", "env"} /\ q.at = "frozen" /\ q.loaded = f BY <2>2
      <3>. QED BY <1>4, <1>5, <3>1, <3>2 DEF OperatorOK
    <2>. QED BY <1>6, <2>1, <2>2
  <1>. QED BY <1>1, <1>6, <1>7, OperatorMoves

LEMMA EvidenceExport ==
  ASSUME EvidenceInv, NEW p \in Callers, NEW kind, Frozen!Export(p, kind) PROVE EvidenceInv'
  <1>1. UNCHANGED <<facts, agentRun, inserting, objects, reported>> /\ proc[p].at = "frozen"
        /\ proc' = [proc EXCEPT ![p] = Frozen!Idle]
    BY DEF Frozen!Export
  <1>2. PICK file : /\ files' = files \cup {file}
                    /\ \/ file = Frozen!profileRows(proc[p].loaded, proc[p].env)
                       \/ file = Frozen!runRows(proc[p].loaded, proc[p].env)
    BY DEF Frozen!Export
  <1>3. FileOK(file, facts)
    <2>1. CASE file = Frozen!profileRows(proc[p].loaded, proc[p].env) BY <2>1 DEF FileOK, Frozen!profileRows
    <2>2. CASE file = Frozen!runRows(proc[p].loaded, proc[p].env)
      <3>1. file.type = "run_bundle" BY <2>2 DEF Frozen!runRows
      <3>2. file.run = Frozen!Expected(p) BY <2>2 DEF Frozen!Expected, Frozen!expectedProjection
      <3>. QED BY <1>1, <3>1, <3>2, ExpectedIsRun DEF FileOK
    <2>. QED BY <1>2, <2>1, <2>2
  <1>4. EvidenceWrites BY <1>1, <1>2, <1>3, IdleOK, FactsStay DEF EvidenceWrites, EvidenceInv
  <1>. QED BY <1>4, EvidenceMoves

LEMMA ToldOK ==
  ASSUME EvidenceInv, NEW p \in Callers, proc[p].at \in {"frozen", "insert", "verify"}, NEW row
  PROVE  \A a \in Frozen!Told(p, row) : a \in reported \/ ReportOK(a, objects, facts)
  BY ExpectedIsRun DEF Frozen!Told, IsRun, ReportOK

LEMMA EvidenceProjectSelect ==
  ASSUME EvidenceInv, NEW p \in Callers, Frozen!ProjectSelect(p) PROVE EvidenceInv'
  <1>1. UNCHANGED <<facts, agentRun, inserting, files, objects>> /\ proc[p].at = "frozen" BY DEF Frozen!ProjectSelect
  <1>2. CASE proc' = [proc EXCEPT ![p].at = "insert"] /\ UNCHANGED reported
    <2>1. PICK q : q = [proc[p] EXCEPT !.at = "insert"] OBVIOUS
    <2>2. OperatorOK(proc[p], facts) BY DEF EvidenceInv
    <2>3. DOMAIN q = {"at", "loaded", "env"} /\ q.at = "insert" /\ q.loaded = proc[p].loaded BY <2>1, <2>2 DEF OperatorOK
    <2>4. OperatorOK(q, facts) BY <1>1, <2>2, <2>3 DEF OperatorOK
    <2>5. proc' = [proc EXCEPT ![p] = q] BY <1>2, <2>1
    <2>. QED BY <1>1, <1>2, <2>4, <2>5, OperatorMoves
  <1>3. CASE proc' = [proc EXCEPT ![p] = Frozen!Idle] /\ reported' = Frozen!Told(p, agentRun)
    <2>1. EvidenceWrites BY <1>1, <1>3, IdleOK, FactsStay, ToldOK DEF EvidenceWrites, EvidenceInv
    <2>. QED BY <2>1, EvidenceMoves
  <1>. QED BY <1>2, <1>3 DEF Frozen!ProjectSelect

LEMMA EvidenceProjectInsert ==
  ASSUME EvidenceInv, NEW p \in Callers, Frozen!ProjectInsert(p) PROVE EvidenceInv'
  <1>1. /\ UNCHANGED <<facts, agentRun, files, objects, reported>> /\ proc[p].at = "insert"
        /\ proc' = [proc EXCEPT ![p].at = "verify"]
        /\ inserting' = inserting \/ inserting' = [by |-> p, row |-> Frozen!Expected(p)]
    BY DEF Frozen!ProjectInsert
  <1>2. PICK q : q = [proc[p] EXCEPT !.at = "verify"] OBVIOUS
  <1>3. OperatorOK(proc[p], facts) BY DEF EvidenceInv
  <1>4. DOMAIN q = {"at", "loaded", "env"} /\ q.at = "verify" /\ q.loaded = proc[p].loaded BY <1>2, <1>3 DEF OperatorOK
  <1>5. OperatorOK(q, facts) BY <1>1, <1>3, <1>4 DEF OperatorOK
  <1>6. proc' = [proc EXCEPT ![p] = q] BY <1>1, <1>2
  <1>7. RunsOK(agentRun, inserting', facts)
    <2>1. PICK i : i = inserting' OBVIOUS
    <2>2. i = inserting \/ i.row = Frozen!Expected(p) BY <1>1, <2>1
    <2>. QED BY <1>1, <2>1, <2>2, ExpectedIsRun DEF EvidenceInv, RunsOK
  <1>8. EvidenceWrites BY <1>1, <1>5, <1>6, <1>7, FactsStay DEF EvidenceWrites, EvidenceInv
  <1>. QED BY <1>8, EvidenceMoves

LEMMA EvidenceProjectVerify ==
  ASSUME EvidenceInv, NEW p \in Callers, Frozen!ProjectVerify(p) PROVE EvidenceInv'
  <1>1. UNCHANGED <<facts, files, objects>> /\ proc[p].at = "verify" /\ proc' = [proc EXCEPT ![p] = Frozen!Idle]
    BY DEF Frozen!ProjectVerify
  <1>2. PICK row : /\ agentRun' = row /\ reported' = Frozen!Told(p, row)
                   /\ \/ row = agentRun /\ inserting' = inserting
                      \/ inserting # Missing /\ row = inserting.row /\ inserting' = Missing
    BY DEF Frozen!ProjectVerify
  <1>3. RunsOK(row, inserting', facts) BY <1>2 DEF EvidenceInv, RunsOK
  <1>4. BundleOK(objects, row)
    <2>1. agentRun # Missing => row = agentRun BY <1>2 DEF EvidenceInv, RunsOK, IsRun
    <2>. QED BY <2>1 DEF EvidenceInv, BundleOK
  <1>5. EvidenceWrites BY <1>1, <1>2, <1>3, <1>4, IdleOK, FactsStay, ToldOK DEF EvidenceWrites, EvidenceInv
  <1>. QED BY <1>5, EvidenceMoves

LEMMA EvidenceStop == ASSUME EvidenceInv, NEW p \in Callers, Frozen!Stop(p) PROVE EvidenceInv'
  <1>1. /\ UNCHANGED <<facts, agentRun, files, objects, reported>> /\ proc' = [proc EXCEPT ![p] = Frozen!Idle]
        /\ inserting' = inserting \/ inserting' = Missing
    BY DEF Frozen!Stop
  <1>2. RunsOK(agentRun, inserting', facts) BY <1>1 DEF EvidenceInv, RunsOK
  <1>3. EvidenceWrites BY <1>1, <1>2, IdleOK, FactsStay DEF EvidenceWrites, EvidenceInv
  <1>. QED BY <1>3, EvidenceMoves

\* A run bundle repeats the decision of the run it was built from.
LEMMA BundleRepeats ==
  ASSUME NEW file, IsRun(file.run, facts), FactsOK(facts)
  PROVE  /\ Frozen!buildRunBundleArtifact(file).content.decision = file.run.decision
         /\ file.run.input.job = "7"
  <1>1. PICK r : r = Frozen!publicResult(facts.result.payload) OBVIOUS
  <1>2. file.run.decision = [result |-> r, submit |-> facts.result.submit, settle |-> facts.result.settle]
    BY <1>1 DEF IsRun, RunOf, Frozen!expectedProjection, Frozen!runRows, Frozen!decisionSummary
  <1>3. Frozen!artifactResult(r) = r
    <2>1. CASE r = [status |-> "unknown"] BY <2>1 DEF Frozen!artifactResult
    <2>2. CASE r = [shown |-> facts.result.payload.shown] BY <2>2 DEF Frozen!artifactResult
    <2>. QED BY <1>1, <2>1, <2>2 DEF Frozen!publicResult
  <1>4. [file.run.decision EXCEPT !.result = Frozen!artifactResult(@)] = file.run.decision BY <1>2, <1>3
  <1>5. file.run.input.job = facts.parent.job
    BY DEF IsRun, RunOf, Frozen!expectedProjection, Frozen!runRows, Frozen!inputSnapshot
  <1>6. facts.parent.job = "7" BY DEF IsRun, SettledJob, Frozen!BindingsAgree, FactsOK
  <1>. QED BY <1>4, <1>5, <1>6 DEF Frozen!buildRunBundleArtifact

LEMMA EvidencePublish ==
  ASSUME EvidenceInv, NoEvidence, NEW file \in files, NEW config, NEW asRows \in BOOLEAN,
         Frozen!Publish(file, config, asRows)
  PROVE  EvidenceInv'
  <1>1. UNCHANGED <<facts, agentRun, inserting, proc, files>> BY DEF Frozen!Publish
  <1>2. FileOK(file, facts) BY DEF EvidenceInv
  <1>3. PICK artifact : artifact = Frozen!Artifact(file) OBVIOUS
  <1>4. PICK binding : binding = Frozen!ArtifactBinding(file) OBVIOUS
  <1>5. /\ reported' = reported \cup {artifact}
        /\ \/ /\ objects[file.type] = Missing /\ Frozen!RunExists(binding)
              /\ objects' = [objects EXCEPT ![file.type] = [artifact |-> artifact, binding |-> binding]]
           \/ /\ objects[file.type] # Missing /\ objects[file.type].artifact = artifact
              /\ objects' = objects
    <2>1. Frozen!artifactFromArgs(file, asRows) = binding
      BY <1>4 DEF Frozen!Publish, Frozen!requireLiveWrite, Frozen!artifactFromArgs
    <2>. QED BY <1>3, <2>1 DEF Frozen!Publish, Frozen!compareImmutableObject
  <1>6. artifact.type = file.type
    BY <1>2, <1>3 DEF FileOK, Frozen!Artifact, Frozen!buildAgentProfileArtifact, Frozen!buildRunBundleArtifact
  <1>7. CASE objects' = objects /\ objects[file.type] # Missing /\ objects[file.type].artifact = artifact
    <2>1. ReportOK(artifact, objects, facts) BY <1>2, <1>6, <1>7 DEF ReportOK, FileOK
    <2>2. EvidenceWrites BY <1>1, <1>5, <1>7, <2>1, FactsStay DEF EvidenceWrites, EvidenceInv
    <2>. QED BY <2>2, EvidenceMoves
  <1>8. CASE /\ objects[file.type] = Missing /\ Frozen!RunExists(binding)
             /\ objects' = [objects EXCEPT ![file.type] = [artifact |-> artifact, binding |-> binding]]
    <2>1. PICK o : o = [artifact |-> artifact, binding |-> binding] OBVIOUS
    <2>2. o # Missing /\ o.artifact = artifact BY <2>1 DEF NoEvidence
    <2>3. /\ DOMAIN objects' = {"agent_profile", "run_bundle"}
          /\ \A t \in {"agent_profile", "run_bundle"} : objects'[t] = IF t = file.type THEN o ELSE objects[t]
      BY <1>8, <2>1 DEF EvidenceInv, BundleOK
    <2>4. BundleOK(objects', agentRun)
      <3>1. CASE file.type # "run_bundle" BY <2>3, <3>1 DEF EvidenceInv, BundleOK
      <3>2. CASE file.type = "run_bundle"
        <4>1. IsRun(file.run, facts) BY <1>2, <3>2 DEF FileOK
        <4>2. /\ Frozen!buildRunBundleArtifact(file).content.decision = file.run.decision
              /\ file.run.input.job = "7"
          BY <4>1, BundleRepeats DEF EvidenceInv
        <4>3. binding.run = "7" BY <1>4, <3>2, <4>2 DEF Frozen!ArtifactBinding
        <4>4. agentRun # Missing BY <1>8, <4>3 DEF Frozen!RunExists, NoEvidence
        <4>5. agentRun = file.run BY <4>1, <4>4 DEF EvidenceInv, RunsOK, IsRun
        <4>6. artifact.content.decision = file.run.decision BY <1>3, <3>2, <4>2 DEF Frozen!Artifact
        <4>. QED BY <2>2, <2>3, <3>2, <4>4, <4>5, <4>6 DEF BundleOK
      <3>. QED BY <3>1, <3>2
    <2>5. ReportOK(artifact, objects', facts) BY <1>2, <1>6, <2>2, <2>3 DEF ReportOK, FileOK
    <2>6. EvidenceWrites BY <1>1, <1>5, <1>8, <2>3, <2>4, <2>5, FactsStay DEF EvidenceWrites, EvidenceInv
    <2>. QED BY <2>6, EvidenceMoves
  <1>. QED BY <1>5, <1>7, <1>8

LEMMA EvidenceStep == EvidenceInv /\ NoEvidence /\ [Frozen!Next]_(Frozen!evidenceVars) => EvidenceInv'
  <1> SUFFICES ASSUME EvidenceInv, NoEvidence, [Frozen!Next]_(Frozen!evidenceVars) PROVE EvidenceInv' OBVIOUS
  <1>1. CASE UNCHANGED Frozen!evidenceVars
    <2>1. UNCHANGED <<facts, agentRun, inserting, proc, files, objects, reported>> BY <1>1 DEF Frozen!evidenceVars
    <2>. QED BY <2>1 DEF EvidenceInv
  <1>2. CASE Frozen!Next
    BY <1>2, EvidenceMarketplace, EvidenceLoadRow, EvidenceLoadServices, EvidenceExport, EvidenceProjectSelect,
       EvidenceProjectInsert, EvidenceProjectVerify, EvidenceStop, EvidencePublish DEF Frozen!Next
  <1>. QED BY <1>1, <1>2

LEMMA EvidenceStart == Frozen!Init => EvidenceInv
  <1> SUFFICES ASSUME Frozen!Init PROVE EvidenceInv OBVIOUS
  <1>1. /\ facts \in Frozen!Seeds /\ agentRun = Missing /\ inserting = Missing /\ files = {} /\ reported = {}
        /\ proc = [p \in Callers |-> Frozen!Idle]
        /\ objects = [t \in {"agent_profile", "run_bundle"} |-> Missing]
    BY DEF Frozen!Init
  <1>2. FactsOK(facts)
    BY <1>1 DEF Frozen!Seeds, Frozen!SoundFacts, Frozen!Binding, Frozen!Stored, FactsOK, FactFields, JobFields, AgentFields
  <1>. QED BY <1>1, <1>2, IdleOK DEF EvidenceInv, RunsOK, BundleOK

\* Whatever the marketplace writes meanwhile, in whatever order operators load, export,
\* project and publish, and wherever they stop, the evidence of a job is one story.
THEOREM OneStory == ASSUME NoEvidence PROVE Frozen!Spec => []EvidenceIsSettled
  <1>1. EvidenceInv => EvidenceIsSettled
    <2> SUFFICES ASSUME EvidenceInv PROVE EvidenceIsSettled OBVIOUS
    <2>1. agentRun # Missing => Frozen!AllSettled(facts) /\ agentRun = RunOf(facts)
      BY DEF EvidenceInv, RunsOK, IsRun, SettledJob
    <2>2. ASSUME NEW a \in reported, NEW b \in reported, a.type = b.type PROVE a = b
      <3>1. ReportOK(a, objects, facts) /\ ReportOK(b, objects, facts) BY DEF EvidenceInv
      <3>. QED BY <2>2, <3>1 DEF ReportOK
    <2>. QED BY <2>1, <2>2 DEF EvidenceIsSettled, Frozen!EvidenceIsSettled, EvidenceInv, BundleOK, RunOf
  <1>2. EvidenceInv /\ [Frozen!Next]_(Frozen!evidenceVars) => EvidenceInv' BY EvidenceStep
  <1>. QED BY <1>1, <1>2, EvidenceStart, PTL DEF Frozen!Spec
=============================================================================
