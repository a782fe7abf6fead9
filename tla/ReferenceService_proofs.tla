---------------------- MODULE ReferenceService_proofs ----------------------
(***************************************************************************)
(* ReferenceService satisfies SubmittedOnce: for any number of tasks,      *)
(* workers, slots, crashes and lost sessions, a submission is broadcast at *)
(* most once, and only after its hash is stored.                           *)
(*                                                                         *)
(* Two processes may believe to be the only worker.  What keeps them apart *)
(* is the slot: a worker signs only after it has moved the slot from       *)
(* claimed to signing, and no statement makes a slot claimed again.  What  *)
(* keeps the hash ahead of the broadcast is the operation: whoever takes a *)
(* slot away from the worker that signs has seen its operation leave       *)
(* awaiting_signature first, and without that status nothing is sent.      *)
(***************************************************************************)
EXTENDS ReferenceService, TLAPS

\* The bounds are numbers.
Parameters == MaxDrafts \in Nat /\ QuoteLife \in Nat

Row == O!OperationRow

JobRow == [task : Tasks, expires : Nat, state : {"draft", "funded", "submitted"}]

Slot == [job : Ids, hash : BOOLEAN,
         state : {"reserved", "claimed", "signing", "unknown", "submitted", "blocked", "reconciled"}]

\* Where a worker has signed the submission and may still send it.
Signing == {"signed", "stored", "send"}

\* Where a worker has seen the operation of its job.
Bound == Signing \cup {"recover", "bounded", "wait", "confirm", "late", "record"}

Process == [pc : Bound \cup {"off", "loop", "receipt", "get", "reserve"}, job : Nat,
            status : O!OperationStatus \cup {"none"}]

TypeInv ==
  /\ now \in Nat
  /\ jobs \in Seq(JobRow) /\ Len(jobs) <= MaxDrafts
  /\ slots \in Seq(Slot)
  /\ slotOps \in [Ids -> Row]
  /\ sent \in [Ids -> Nat]
  /\ proc \in [Workers -> Process]

\* Nobody has signed for the slot yet.
Fresh(s) == s.state \in {"reserved", "claimed"}

\* The operation no longer waits for a signature.
Left(r) == r.status \notin {"absent", "awaiting_signature"}

\* A slot per job; one without a hash has sent nothing.
SlotInv ==
  /\ \A i \in DOMAIN slots : slots[i].job <= Len(jobs)
  /\ \A i, k \in DOMAIN slots : slots[i].job = slots[k].job => i = k
  /\ \A i \in DOMAIN slots : Fresh(slots[i]) => sent[slots[i].job] = 0
  /\ \A i \in DOMAIN slots : Fresh(slots[i]) \/ slots[i].state = "signing" => ~slots[i].hash
  /\ \A j \in Ids : (\A i \in DOMAIN slots : slots[i].job # j) => sent[j] = 0

OperationInv == \A j \in Ids : ~Left(slotOps[j]) => slotOps[j].hash = None

\* What a worker knows of the job it works on.
Knows(p, ss, rs) ==
  /\ p.pc \notin {"off", "loop"} => \E i \in DOMAIN ss : ss[i].job = p.job
  /\ p.pc \in Bound => O!Present(rs[p.job])
  /\ p.pc = "record" => Left(rs[p.job])

\* What a worker that has signed relies on.
MaySend(p, s, r) ==
  /\ ~Fresh(s)
  /\ p.pc = "signed" => s.state = "signing" \/ Left(r)
  /\ p.pc = "stored" => s.hash \/ Left(r)
  /\ p.pc = "send" => s.hash /\ r.hash = p.job

WorkerInv ==
  /\ \A w \in Workers : Knows(proc[w], slots, slotOps)
  /\ \A w \in Workers : \A i \in DOMAIN slots :
       proc[w].pc \in Signing /\ slots[i].job = proc[w].job
         => sent[proc[w].job] = 0 /\ MaySend(proc[w], slots[i], slotOps[proc[w].job])
  /\ \A v, w \in Workers : proc[v].pc \in Signing /\ proc[w].pc \in Signing /\ proc[v].job = proc[w].job => v = w

Inv == TypeInv /\ SlotInv /\ OperationInv /\ WorkerInv /\ SubmittedOnce

-----------------------------------------------------------------------------
(* The statements on an operation. *)

\* What no statement undoes.
Later(r, q, j) ==
  /\ q \in Row
  /\ O!Present(r) => O!Present(q)
  /\ Left(r) => Left(q)
  /\ r.hash = j => q.hash = j
  /\ ~Left(q) => q.hash = None

LEMMA OperationLater ==
  ASSUME NEW j \in Ids, NEW r \in Row, ~Left(r) => r.hash = None
  PROVE  /\ Later(r, r, j)
         /\ Later(r, O!Reserve(r, TRUE), j) /\ O!Present(O!Reserve(r, TRUE))
         /\ Later(r, O!MarkManualReview(r), j) /\ (O!Present(r) => Left(O!MarkManualReview(r)))
         /\ Later(r, O!MarkUnknown(r), j) /\ (O!Present(r) => Left(O!MarkUnknown(r)))
         /\ \A st \in {"confirmed", "reverted"} : Later(r, O!MarkReceipt(r, st, j, 1), j)
         /\ Later(r, O!MarkSubmitted(r, j), j) /\ (O!Present(r) => Left(O!MarkSubmitted(r, j)))
         /\ Later(r, O!Reconcile(r, "reconciled"), j)
  <1> USE DEF Row, O!OperationRow, O!OperationStatus, O!FailureCode, Later, Left, O!Present
  <1>1. Later(r, r, j) OBVIOUS
  <1>2. Later(r, O!Reserve(r, TRUE), j) /\ O!Present(O!Reserve(r, TRUE)) BY DEF O!Reserve, O!AbsentRow
  <1>3. Later(r, O!MarkManualReview(r), j) /\ (O!Present(r) => Left(O!MarkManualReview(r))) BY DEF O!MarkManualReview
  <1>4. Later(r, O!MarkUnknown(r), j) /\ (O!Present(r) => Left(O!MarkUnknown(r))) BY DEF O!MarkUnknown
  <1>5. \A st \in {"confirmed", "reverted"} : Later(r, O!MarkReceipt(r, st, j, 1), j)
    <2> TAKE st \in {"confirmed", "reverted"}
    <2> DEFINE f == IF st = "confirmed" THEN "none" ELSE "other"
               q == [r EXCEPT !.status = st, !.hash = j, !.block = 1, !.failure = f]
    <2>1. f \in O!FailureCode /\ st \in O!OperationStatus /\ st \notin {"absent", "awaiting_signature"} OBVIOUS
    <2>2. O!MarkReceipt(r, st, j, 1) = IF O!CanReceive(r) THEN q ELSE r BY DEF O!MarkReceipt
    <2> HIDE DEF f
    <2>3. Later(r, q, j) BY <2>1
    <2>. QED BY <1>1, <2>2, <2>3
  <1>6. Later(r, O!MarkSubmitted(r, j), j) /\ (O!Present(r) => Left(O!MarkSubmitted(r, j)))
    BY DEF O!MarkSubmitted, O!CanSubmit
  <1>7. Later(r, O!Reconcile(r, "reconciled"), j) BY DEF O!Reconcile
  <1>. QED BY <1>1, <1>2, <1>3, <1>4, <1>5, <1>6, <1>7

LEMMA RecoveredLater ==
  ASSUME TypeInv, OperationInv, NEW j \in Ids
  PROVE  Later(slotOps[j], Recovered(j), j) /\ (O!Present(slotOps[j]) => Left(Recovered(j)))
  <1> DEFINE r == slotOps[j]
             q == O!MarkReceipt(r, "confirmed", j, 1)
  <1>1. r \in Row /\ (~Left(r) => r.hash = None) BY DEF TypeInv, OperationInv
  <1>2. CASE r.status \in {"confirmed", "reconciled", "reverted", "manual_review"}
    BY <1>1, <1>2, OperationLater DEF Recovered, Left
  <1>3. CASE r.status \notin {"confirmed", "reconciled", "reverted", "manual_review"} /\ r.hash = None
    BY <1>1, <1>3, OperationLater DEF Recovered
  <1>4. CASE r.status \notin {"confirmed", "reconciled", "reverted", "manual_review"} /\ r.hash # None
    <2>1. Left(r) BY <1>1, <1>4
    <2>2. Later(r, q, j) /\ Later(r, O!MarkReceipt(r, "reverted", j, 1), j) BY <1>1, OperationLater
    <2>3. q \in Row /\ (~Left(q) => q.hash = None) BY <2>2 DEF Later
    <2>4. Later(q, O!Reconcile(q, "reconciled"), j) BY <2>3, OperationLater
    <2>5. Later(r, O!MarkUnknown(r), j) BY <1>1, OperationLater
    <2>6. Recovered(j) \in {O!Reconcile(q, "reconciled"), O!MarkReceipt(r, "reverted", j, 1), O!MarkUnknown(r)}
      BY <1>4 DEF Recovered
    <2>. QED BY <2>1, <2>2, <2>4, <2>5, <2>6 DEF Later
  <1>. QED BY <1>2, <1>3, <1>4

-----------------------------------------------------------------------------
(* Steps in which nobody signs or sends. *)

\* What such a step may do to a slot.
SlotLater(s, t, r) ==
  /\ t.job = s.job
  /\ s.hash => t.hash
  /\ ~Fresh(s) => ~Fresh(t)
  /\ Fresh(t) \/ t.state = "signing" => ~t.hash
  /\ s.state = "signing" => t.state = "signing" \/ Left(r)

LEMMA StayInv ==
  ASSUME Inv,
         now' \in Nat, jobs' \in Seq(JobRow), Len(jobs') = Len(jobs),
         slots' \in Seq(Slot), DOMAIN slots' = DOMAIN slots,
         \A i \in DOMAIN slots : SlotLater(slots[i], slots'[i], slotOps'[slots[i].job]),
         slotOps' \in [Ids -> Row], \A j \in Ids : Later(slotOps[j], slotOps'[j], j),
         sent' = sent,
         proc' \in [Workers -> Process],
         \A w \in Workers : proc'[w] = proc[w] \/ (proc'[w].pc \notin Signing /\ Knows(proc'[w], slots', slotOps'))
  PROVE  Inv'
  <1> USE DEF Inv
  <1>1. TypeInv' BY DEF TypeInv
  <1>2. \A i \in DOMAIN slots : slots[i] \in Slot /\ slots[i].job \in Ids /\ slots'[i] \in Slot
                                /\ slots'[i].job = slots[i].job
    <2> TAKE i \in DOMAIN slots
    <2>1. slots[i] \in Slot /\ slots'[i] \in Slot BY DEF TypeInv
    <2>2. slots[i].job \in Ids BY <2>1 DEF Slot
    <2>. QED BY <2>1, <2>2 DEF SlotLater
  <1>3. \A j \in Ids : slotOps[j] \in Row /\ slotOps'[j] \in Row BY DEF TypeInv
  <1>4. SlotInv'
    <2>1. \A i \in DOMAIN slots' : slots'[i].job <= Len(jobs)' BY <1>2 DEF SlotInv
    <2>2. \A i, k \in DOMAIN slots' : slots'[i].job = slots'[k].job => i = k BY <1>2 DEF SlotInv
    <2>3. \A i \in DOMAIN slots' : Fresh(slots'[i]) => sent'[slots'[i].job] = 0 BY <1>2 DEF SlotInv, SlotLater
    <2>4. \A i \in DOMAIN slots' : Fresh(slots'[i]) \/ slots'[i].state = "signing" => ~slots'[i].hash
      BY DEF SlotLater
    <2>5. \A j \in Ids : (\A i \in DOMAIN slots' : slots'[i].job # j) => sent'[j] = 0 BY <1>2 DEF SlotInv
    <2>. QED BY <2>1, <2>2, <2>3, <2>4, <2>5 DEF SlotInv
  <1>5. OperationInv' BY DEF OperationInv, Later
  <1>6. SubmittedOnce' BY <1>2 DEF SubmittedOnce, SlotLater, Later
  <1>7. WorkerInv'
    <2>1. \A w \in Workers : Knows(proc'[w], slots', slotOps')
      <3> SUFFICES ASSUME NEW w \in Workers, proc'[w] = proc[w] PROVE Knows(proc'[w], slots', slotOps') OBVIOUS
      <3>1. Knows(proc[w], slots, slotOps) BY DEF WorkerInv
      <3>2. proc[w].pc \notin {"off", "loop"} => proc[w].job \in Ids BY <1>2, <3>1 DEF Knows
      <3>3. proc[w].pc \in Bound => O!Present(slotOps'[proc[w].job]) BY <3>1, <3>2 DEF Knows, Bound, Signing, Later
      <3>4. proc[w].pc = "record" => Left(slotOps'[proc[w].job]) BY <3>1, <3>2 DEF Knows, Later
      <3>5. proc[w].pc \notin {"off", "loop"} => \E i \in DOMAIN slots' : slots'[i].job = proc[w].job
        BY <1>2, <3>1 DEF Knows
      <3>. QED BY <3>3, <3>4, <3>5 DEF Knows
    <2>2. \A w \in Workers : proc'[w].pc \in Signing => proc'[w] = proc[w] OBVIOUS
    <2>3. ASSUME NEW w \in Workers, NEW i \in DOMAIN slots', proc'[w].pc \in Signing, slots'[i].job = proc'[w].job
          PROVE  sent'[proc'[w].job] = 0 /\ MaySend(proc'[w], slots'[i], slotOps'[proc'[w].job])
      <3>1. proc'[w] = proc[w] /\ slots[i].job = proc[w].job /\ proc[w].job \in Ids BY <1>2, <2>2, <2>3
      <3>2. sent[proc[w].job] = 0 /\ MaySend(proc[w], slots[i], slotOps[proc[w].job])
        BY <2>3, <3>1 DEF WorkerInv
      <3>3. SlotLater(slots[i], slots'[i], slotOps'[proc[w].job]) BY <2>3, <3>1
      <3>4. Later(slotOps[proc[w].job], slotOps'[proc[w].job], proc[w].job) BY <3>1
      <3>5. MaySend(proc[w], slots'[i], slotOps'[proc[w].job])
        BY <3>2, <3>3, <3>4 DEF MaySend, SlotLater, Later
      <3>. QED BY <3>1, <3>2, <3>5
    <2>4. \A v, w \in Workers : proc'[v].pc \in Signing /\ proc'[w].pc \in Signing /\ proc'[v].job = proc'[w].job => v = w
      BY <2>2 DEF WorkerInv
    <2>. QED BY <2>1, <2>3, <2>4 DEF WorkerInv
  <1>. QED BY <1>1, <1>4, <1>5, <1>6, <1>7

\* The worker's own slot is the only one of its job.
LEMMA MySlot ==
  ASSUME Inv, NEW w \in Workers, proc[w].pc \notin {"off", "loop"}
  PROVE  /\ proc[w].job \in Ids /\ slotOps[proc[w].job] \in Row
         /\ SlotOf(proc[w].job) \in DOMAIN slots
         /\ slots[SlotOf(proc[w].job)].job = proc[w].job
         /\ \A i \in DOMAIN slots : slots[i].job = proc[w].job => i = SlotOf(proc[w].job)
  <1>1. PICK i \in DOMAIN slots : slots[i].job = proc[w].job BY DEF Inv, WorkerInv, Knows
  <1>2. slots[i] \in Slot BY DEF Inv, TypeInv
  <1>3. proc[w].job \in Ids BY <1>1, <1>2 DEF Slot
  <1>4. slotOps[proc[w].job] \in Row BY <1>3 DEF Inv, TypeInv
  <1>5. \A k \in DOMAIN slots : slots[k].job = proc[w].job => k = i BY <1>1 DEF Inv, SlotInv
  <1>6. SlotOf(proc[w].job) = i BY <1>1, <1>5 DEF SlotOf
  <1>. QED BY <1>1, <1>3, <1>4, <1>5, <1>6

LEMMA SameLater ==
  ASSUME Inv
  PROVE  /\ \A i \in DOMAIN slots : \A r : SlotLater(slots[i], slots[i], r)
         /\ \A j \in Ids : Later(slotOps[j], slotOps[j], j)
  <1>1. \A j \in Ids : slotOps[j] \in Row /\ (~Left(slotOps[j]) => slotOps[j].hash = None)
    BY DEF Inv, TypeInv, OperationInv
  <1>2. \A j \in Ids : Later(slotOps[j], slotOps[j], j) BY <1>1, OperationLater
  <1>. QED BY <1>2 DEF Inv, SlotInv, SlotLater

\* A worker goes on with its slots and operations changed as above.
LEMMA MoveInv ==
  ASSUME Inv, NEW w \in Workers, NEW x \in Process, x.pc \notin Signing,
         now' = now, jobs' \in Seq(JobRow), Len(jobs') = Len(jobs),
         slots' \in Seq(Slot), DOMAIN slots' = DOMAIN slots,
         \A i \in DOMAIN slots : SlotLater(slots[i], slots'[i], slotOps'[slots[i].job]),
         slotOps' \in [Ids -> Row], \A j \in Ids : Later(slotOps[j], slotOps'[j], j),
         sent' = sent,
         proc' = [proc EXCEPT ![w] = x],
         x.pc \notin {"off", "loop"} => \E i \in DOMAIN slots : slots[i].job = x.job,
         x.pc \in Bound => O!Present(slotOps'[x.job]),
         x.pc = "record" => Left(slotOps'[x.job])
  PROVE  Inv'
  <1>1. now' \in Nat /\ proc \in [Workers -> Process] BY DEF Inv, TypeInv
  <1>2. proc' \in [Workers -> Process] BY <1>1
  <1>3. Knows(x, slots', slotOps') BY DEF Knows, SlotLater
  <1>4. \A v \in Workers : proc'[v] = proc[v] \/ (proc'[v].pc \notin Signing /\ Knows(proc'[v], slots', slotOps'))
    BY <1>1, <1>3
  <1>. QED BY <1>1, <1>2, <1>4, StayInv

\* A worker goes on and changes nothing.
LEMMA GoOn ==
  ASSUME Inv, NEW w \in Workers, NEW x \in Process, x.pc \notin Signing,
         UNCHANGED <<now, jobs, slots, slotOps, sent>>,
         proc' = [proc EXCEPT ![w] = x],
         x.pc \notin {"off", "loop"} => \E i \in DOMAIN slots : slots[i].job = x.job,
         x.pc \in Bound => O!Present(slotOps[x.job]),
         x.pc = "record" => Left(slotOps[x.job])
  PROVE  Inv'
  <1>1. /\ jobs' \in Seq(JobRow) /\ Len(jobs') = Len(jobs) /\ slots' \in Seq(Slot) /\ DOMAIN slots' = DOMAIN slots
        /\ slotOps' \in [Ids -> Row]
    BY DEF Inv, TypeInv
  <1>2. /\ \A i \in DOMAIN slots : SlotLater(slots[i], slots'[i], slotOps'[slots[i].job])
        /\ \A j \in Ids : Later(slotOps[j], slotOps'[j], j)
    BY SameLater
  <1>. QED BY <1>1, <1>2, MoveInv

\* The state of one slot changes.
LEMMA SlotChange ==
  ASSUME Inv, NEW i \in DOMAIN slots, NEW t \in Slot, NEW ss, ss = [slots EXCEPT ![i] = t],
         SlotLater(slots[i], t, slotOps[slots[i].job])
  PROVE  /\ ss \in Seq(Slot) /\ DOMAIN ss = DOMAIN slots
         /\ \A k \in DOMAIN slots : SlotLater(slots[k], ss[k], slotOps[slots[k].job])
  <1>1. slots \in Seq(Slot) BY DEF Inv, TypeInv
  <1>2. ss \in Seq(Slot) /\ DOMAIN ss = DOMAIN slots BY <1>1
  <1>3. \A k \in DOMAIN slots : ss[k] = IF k = i THEN t ELSE slots[k] BY <1>1
  <1>. QED BY <1>2, <1>3, SameLater

\* One operation changes.
LEMMA OperationChange ==
  ASSUME Inv, NEW j \in Ids, NEW q, Later(slotOps[j], q, j), slotOps' = [slotOps EXCEPT ![j] = q]
  PROVE  /\ slotOps' \in [Ids -> Row] /\ slotOps'[j] = q
         /\ \A k \in Ids : Later(slotOps[k], slotOps'[k], k)
         /\ \A i \in DOMAIN slots : SlotLater(slots[i], slots[i], slotOps'[slots[i].job])
  <1>1. slotOps \in [Ids -> Row] /\ q \in Row BY DEF Inv, TypeInv, Later
  <1>. QED BY <1>1, SameLater

Places == Bound \cup {"off", "loop", "receipt", "get", "reserve"}

LEMMA SetProcFacts ==
  ASSUME Inv, NEW w \in Workers, NEW pc \in Places, SetProc(w, pc)
  PROVE  \E x \in Process : x.pc = pc /\ x.job = proc[w].job /\ proc' = [proc EXCEPT ![w] = x]
  <1> DEFINE x == [proc[w] EXCEPT !.pc = pc]
  <1>1. proc \in [Workers -> Process] BY DEF Inv, TypeInv
  <1>2. x \in Process /\ x.pc = pc /\ x.job = proc[w].job BY <1>1 DEF Process, Places
  <1>3. proc' = [proc EXCEPT ![w] = x] BY <1>1 DEF SetProc
  <1>. QED BY <1>2, <1>3

\* A worker that has nothing to lose goes to pc.
LEMMA GoTo ==
  ASSUME Inv, NEW w \in Workers, NEW pc \in Places \ Signing, SetProc(w, pc),
         UNCHANGED <<now, jobs, slots, slotOps, sent>>,
         pc \notin {"off", "loop"} => proc[w].pc \notin {"off", "loop"},
         pc \in Bound => O!Present(slotOps[proc[w].job]),
         pc = "record" => Left(slotOps[proc[w].job])
  PROVE  Inv'
  <1>1. PICK x \in Process : x.pc = pc /\ x.job = proc[w].job /\ proc' = [proc EXCEPT ![w] = x] BY SetProcFacts
  <1>2. x.pc \notin {"off", "loop"} => \E i \in DOMAIN slots : slots[i].job = x.job BY <1>1, MySlot
  <1>. QED BY <1>1, <1>2, GoOn

LEMMA OffInv ==
  ASSUME Inv, NEW w \in Workers, UNCHANGED <<now, jobs, slots, slotOps, sent>>, proc' = [proc EXCEPT ![w] = Off]
  PROVE  Inv'
  <1>1. Off \in Process /\ Off.pc = "off" BY DEF Off, Process
  <1>2. Off.pc \notin Signing \cup Bound BY <1>1 DEF Bound, Signing
  <1>. QED BY <1>1, <1>2, GoOn

LEMMA IdleInv ==
  ASSUME Inv, now' \in Nat, UNCHANGED <<jobs, slots, slotOps, sent, proc>>
  PROVE  Inv'
  <1>1. /\ jobs' \in Seq(JobRow) /\ Len(jobs') = Len(jobs) /\ slots' \in Seq(Slot) /\ DOMAIN slots' = DOMAIN slots
        /\ slotOps' \in [Ids -> Row] /\ proc' \in [Workers -> Process]
    BY DEF Inv, TypeInv
  <1>2. /\ \A i \in DOMAIN slots : SlotLater(slots[i], slots'[i], slotOps'[slots[i].job])
        /\ \A j \in Ids : Later(slotOps[j], slotOps'[j], j)
    BY SameLater
  <1>. QED BY <1>1, <1>2, StayInv

-----------------------------------------------------------------------------
(* The steps of a worker that signs nothing. *)

LEMMA LoopInv ==
  ASSUME Inv, NEW w \in Workers,
         Start(w) \/ Heartbeat(w) \/ Stop(w) \/ Crash(w) \/ LoseSession(w)
  PROVE  Inv'
  <1>1. CASE Start(w)
    <2>1. "loop" \in Places \ Signing /\ "loop" \notin Bound BY DEF Places, Signing, Bound
    <2>. QED BY <1>1, <2>1, GoTo DEF Start
  <1>2. CASE Heartbeat(w) \/ LoseSession(w)
    <2>1. now' \in Nat BY <1>2 DEF Heartbeat, LoseSession, Inv, TypeInv
    <2>. QED BY <1>2, <2>1, IdleInv DEF Heartbeat, LoseSession
  <1>3. CASE Stop(w) \/ Crash(w) BY <1>3, OffInv DEF Stop, Crash
  <1>. QED BY <1>1, <1>2, <1>3

LEMMA TickPendingInv ==
  ASSUME Inv, NEW w \in Workers, TickPending(w)
  PROVE  Inv'
  <1>1. PICK i \in First(Pending) :
          proc' = [proc EXCEPT ![w] = [pc |-> IF slots[i].hash THEN "receipt" ELSE "get",
                                       job |-> slots[i].job, status |-> "none"]]
    BY DEF TickPending
  <1> DEFINE x == [pc |-> IF slots[i].hash THEN "receipt" ELSE "get", job |-> slots[i].job, status |-> "none"]
  <1>2. i \in DOMAIN slots BY DEF First, Pending
  <1>3. slots[i].job \in Nat
    <2>1. slots[i] \in Slot BY <1>2 DEF Inv, TypeInv
    <2>. QED BY <2>1 DEF Slot, Ids
  <1>4. x \in Process /\ x.pc \in {"receipt", "get"} /\ x.job = slots[i].job BY <1>3 DEF Process
  <1>5. x.pc \notin Signing /\ x.pc \notin Bound /\ x.pc # "record" BY <1>4 DEF Bound, Signing
  <1>6. UNCHANGED <<now, jobs, slots, slotOps, sent>> /\ proc' = [proc EXCEPT ![w] = x] BY <1>1 DEF TickPending
  <1> HIDE DEF x
  <1>. QED BY <1>2, <1>4, <1>5, <1>6, GoOn

LEMMA TickClaimInv ==
  ASSUME Inv, NEW w \in Workers, TickClaim(w)
  PROVE  Inv'
  <1>1. PICK i \in First(Claimable) : slots' = [slots EXCEPT ![i].state = "claimed"] BY DEF TickClaim
  <1> DEFINE t == [slots[i] EXCEPT !.state = "claimed"]
  <1>2. i \in DOMAIN slots /\ slots[i].state = "reserved" BY DEF First, Claimable
  <1>3. slots \in Seq(Slot) /\ slots[i] \in Slot BY <1>2 DEF Inv, TypeInv
  <1>4. ~slots[i].hash BY <1>2 DEF Inv, SlotInv, Fresh
  <1>5. /\ t \in Slot /\ t.job = slots[i].job /\ t.hash = slots[i].hash /\ t.state = "claimed"
    BY <1>3 DEF Slot
  <1>6. slots' = [slots EXCEPT ![i] = t] BY <1>1, <1>2, <1>3
  <1> HIDE DEF t
  <1>7. SlotLater(slots[i], t, slotOps[slots[i].job]) BY <1>2, <1>4, <1>5 DEF SlotLater, Fresh
  <1>8. PICK ss : ss = slots' OBVIOUS
  <1>9. /\ ss \in Seq(Slot) /\ DOMAIN ss = DOMAIN slots
        /\ \A k \in DOMAIN slots : SlotLater(slots[k], ss[k], slotOps[slots[k].job])
    BY <1>2, <1>5, <1>6, <1>7, <1>8, SlotChange
  <1>10. UNCHANGED <<now, jobs, slotOps, sent, proc>> BY DEF TickClaim
  <1>11. /\ now' \in Nat /\ jobs' \in Seq(JobRow) /\ Len(jobs') = Len(jobs)
         /\ slotOps' \in [Ids -> Row] /\ proc' \in [Workers -> Process]
    BY <1>10 DEF Inv, TypeInv
  <1>12. \A j \in Ids : Later(slotOps[j], slotOps'[j], j) BY <1>10, SameLater
  <1>. QED BY <1>8, <1>9, <1>10, <1>11, <1>12, StayInv

\* A receipt is recorded where the hash is.
LEMMA ReceiptFacts ==
  ASSUME Inv, NEW w \in Workers, proc[w].pc \notin {"off", "loop"}, NEW ss, ss = RecordReceipt(proc[w].job)
  PROVE  /\ ss \in Seq(Slot) /\ DOMAIN ss = DOMAIN slots
         /\ \A k \in DOMAIN slots : SlotLater(slots[k], ss[k], slotOps[slots[k].job])
  <1> DEFINE i == SlotOf(proc[w].job)
             st == IF tx[proc[w].job] = "success" THEN "submitted" ELSE "blocked"
             t == [slots[i] EXCEPT !.state = st]
  <1>1. i \in DOMAIN slots BY MySlot
  <1>2. slots \in Seq(Slot) /\ slots[i] \in Slot BY <1>1 DEF Inv, TypeInv
  <1>3. CASE ~slots[i].hash
    <2>1. ss = slots BY <1>3 DEF RecordReceipt
    <2>. QED BY <1>2, <2>1, SameLater
  <1>4. CASE slots[i].hash
    <2>1. st \in {"submitted", "blocked"} OBVIOUS
    <2>2. ss = [slots EXCEPT ![i].state = st] BY <1>4 DEF RecordReceipt
    <2> HIDE DEF st, i
    <2>3. t \in Slot /\ t.job = slots[i].job /\ t.hash /\ t.state = st BY <1>2, <1>4, <2>1 DEF Slot
    <2>4. ss = [slots EXCEPT ![i] = t] BY <1>1, <1>2, <2>2
    <2>5. slots[i].state # "signing" BY <1>1, <1>4 DEF Inv, SlotInv
    <2> HIDE DEF t
    <2>6. SlotLater(slots[i], t, slotOps[slots[i].job]) BY <2>1, <2>3, <2>5 DEF SlotLater, Fresh
    <2>. QED BY <1>1, <2>3, <2>4, <2>6, SlotChange
  <1>. QED BY <1>3, <1>4

LEMMA ReceiptInv ==
  ASSUME Inv, NEW w \in Workers, TickReceipt(w) \/ BoundedReceipt(w)
  PROVE  Inv'
  <1>1. /\ proc[w].pc \in {"receipt", "wait"} /\ UNCHANGED <<now, jobs, slotOps, sent>>
        /\ slots' = slots \/ slots' = RecordReceipt(proc[w].job)
    BY DEF TickReceipt, BoundedReceipt, At
  <1>2. PICK pc \in {"get", "loop", "confirm", "late"} : SetProc(w, pc) /\ (pc \in {"confirm", "late"} => proc[w].pc = "wait")
    BY DEF TickReceipt, BoundedReceipt, At
  <1>3. pc \in Places \ Signing /\ (pc \in Bound => proc[w].pc \in Bound) /\ pc # "record"
    BY <1>1, <1>2 DEF Places, Bound, Signing
  <1>4. PICK x \in Process : x.pc = pc /\ x.job = proc[w].job /\ proc' = [proc EXCEPT ![w] = x]
    BY <1>2, <1>3, SetProcFacts
  <1>5. PICK ss : ss = slots' OBVIOUS
  <1>6. /\ ss \in Seq(Slot) /\ DOMAIN ss = DOMAIN slots
        /\ \A k \in DOMAIN slots : SlotLater(slots[k], ss[k], slotOps[slots[k].job])
    <2>1. CASE slots' = slots BY <1>5, <2>1, SameLater DEF Inv, TypeInv
    <2>2. CASE slots' = RecordReceipt(proc[w].job) BY <1>1, <1>5, <2>2, ReceiptFacts
    <2>. QED BY <1>1, <2>1, <2>2
  <1>7. /\ jobs' \in Seq(JobRow) /\ Len(jobs') = Len(jobs) /\ slotOps' \in [Ids -> Row]
    BY <1>1 DEF Inv, TypeInv
  <1>8. \A j \in Ids : Later(slotOps[j], slotOps'[j], j) BY <1>1, SameLater
  <1>9. \E i \in DOMAIN slots : slots[i].job = x.job BY <1>1, <1>4, MySlot
  <1>10. Knows(proc[w], slots, slotOps) BY DEF Inv, WorkerInv
  <1>11. x.pc \in Bound => O!Present(slotOps'[x.job]) BY <1>1, <1>3, <1>4, <1>10 DEF Knows
  <1>. QED BY <1>1, <1>3, <1>4, <1>5, <1>6, <1>7, <1>8, <1>9, <1>11, MoveInv

LEMMA TickRecordInv ==
  ASSUME Inv, NEW w \in Workers, TickRecord(w)
  PROVE  Inv'
  <1> DEFINE j == proc[w].job
             i == SlotOf(j)
  <1>1. proc[w].pc = "record" /\ SetProc(w, "loop") /\ UNCHANGED <<now, jobs, slotOps, sent>>
    BY DEF TickRecord, At
  <1>2. /\ i \in DOMAIN slots /\ slots[i].job = j /\ Left(slotOps[j]) /\ slots \in Seq(Slot) /\ slots[i] \in Slot
    BY <1>1, MySlot DEF Inv, TypeInv, WorkerInv, Knows
  <1>3. slots' = slots \/ \E st \in {"reconciled", "blocked", "unknown"} : slots' = [slots EXCEPT ![i].state = st]
    BY DEF TickRecord
  <1>4. PICK ss : ss = slots' OBVIOUS
  <1>5. /\ ss \in Seq(Slot) /\ DOMAIN ss = DOMAIN slots
        /\ \A k \in DOMAIN slots : SlotLater(slots[k], ss[k], slotOps[slots[k].job])
    <2>1. CASE slots' = slots BY <1>2, <1>4, <2>1, SameLater
    <2>2. CASE \E st \in {"reconciled", "blocked", "unknown"} : slots' = [slots EXCEPT ![i].state = st]
      <3>1. PICK st \in {"reconciled", "blocked", "unknown"} : ss = [slots EXCEPT ![i].state = st] BY <1>4, <2>2
      <3> DEFINE t == [slots[i] EXCEPT !.state = st]
      <3> HIDE DEF i, j
      <3>2. t \in Slot /\ t.job = slots[i].job /\ t.hash = slots[i].hash /\ t.state = st BY <1>2, <3>1 DEF Slot
      <3>3. ss = [slots EXCEPT ![i] = t] BY <1>2, <3>1
      <3> HIDE DEF t
      <3>4. SlotLater(slots[i], t, slotOps[slots[i].job]) BY <1>2, <3>1, <3>2 DEF SlotLater, Fresh
      <3>. QED BY <1>2, <3>2, <3>3, <3>4, SlotChange
    <2>. QED BY <1>3, <2>1, <2>2
  <1>6. "loop" \in Places /\ "loop" \notin Bound /\ "loop" \notin Signing BY DEF Places, Bound, Signing
  <1>7. PICK x \in Process : x.pc = "loop" /\ x.job = j /\ proc' = [proc EXCEPT ![w] = x]
    BY <1>1, <1>6, SetProcFacts
  <1>8. jobs' \in Seq(JobRow) /\ Len(jobs') = Len(jobs) /\ slotOps' \in [Ids -> Row]
    BY <1>1 DEF Inv, TypeInv
  <1>9. \A n \in Ids : Later(slotOps[n], slotOps'[n], n) BY <1>1, SameLater
  <1>. QED BY <1>1, <1>4, <1>5, <1>6, <1>7, <1>8, <1>9, MoveInv

-----------------------------------------------------------------------------
(* Steps on the operation. *)

LEMMA JobState ==
  ASSUME Inv, NEW j \in DOMAIN jobs, NEW st \in {"draft", "funded", "submitted"}, NEW js,
         js = [jobs EXCEPT ![j].state = st]
  PROVE  js \in Seq(JobRow) /\ Len(js) = Len(jobs)
  <1> DEFINE t == [jobs[j] EXCEPT !.state = st]
  <1>1. jobs \in Seq(JobRow) /\ jobs[j] \in JobRow BY DEF Inv, TypeInv
  <1>2. t \in JobRow BY <1>1 DEF JobRow
  <1>3. js = [jobs EXCEPT ![j] = t] BY <1>1
  <1> HIDE DEF t
  <1>. QED BY <1>1, <1>2, <1>3

\* One statement on the operation of the worker's job.
LEMMA OperationStep ==
  ASSUME Inv, NEW w \in Workers, proc[w].pc \notin {"off", "loop"},
         NEW q, Later(slotOps[proc[w].job], q, proc[w].job), SetOp(proc[w].job, q),
         UNCHANGED <<now, slots, sent>>,
         jobs' = jobs \/ \E st \in {"draft", "funded", "submitted"} : jobs' = [jobs EXCEPT ![proc[w].job].state = st],
         NEW x \in Process, x.pc \notin Signing, x.job = proc[w].job, proc' = [proc EXCEPT ![w] = x],
         x.pc \in Bound => O!Present(q), x.pc = "record" => Left(q)
  PROVE  Inv'
  <1> DEFINE j == proc[w].job
  <1>1. j \in Ids /\ SlotOf(j) \in DOMAIN slots /\ slots[SlotOf(j)].job = j BY MySlot
  <1>2. j \in DOMAIN jobs
    <2>1. j <= Len(jobs) /\ jobs \in Seq(JobRow) BY <1>1 DEF Inv, SlotInv, TypeInv
    <2>. QED BY <1>1, <2>1 DEF Ids
  <1>3. jobs' \in Seq(JobRow) /\ Len(jobs') = Len(jobs)
    <2>1. CASE jobs' = jobs BY <2>1 DEF Inv, TypeInv
    <2>2. CASE \E st \in {"draft", "funded", "submitted"} : jobs' = [jobs EXCEPT ![j].state = st]
      <3>1. PICK js : js = jobs' OBVIOUS
      <3>2. PICK st \in {"draft", "funded", "submitted"} : js = [jobs EXCEPT ![j].state = st] BY <2>2, <3>1
      <3> HIDE DEF j
      <3>3. js \in Seq(JobRow) /\ Len(js) = Len(jobs) BY <1>2, <3>2, JobState
      <3>. QED BY <3>1, <3>3
    <2>. QED BY <2>1, <2>2
  <1>4. /\ slotOps' \in [Ids -> Row] /\ slotOps'[j] = q
        /\ \A k \in Ids : Later(slotOps[k], slotOps'[k], k)
        /\ \A i \in DOMAIN slots : SlotLater(slots[i], slots[i], slotOps'[slots[i].job])
    BY <1>1, OperationChange DEF SetOp
  <1>5. slots' \in Seq(Slot) BY DEF Inv, TypeInv
  <1>. QED BY <1>1, <1>3, <1>4, <1>5, MoveInv

LEMMA RunInv ==
  ASSUME Inv, NEW w \in Workers, RunGet(w) \/ RunReserve(w) \/ BoundedLate(w)
  PROVE  Inv'
  <1> DEFINE j == proc[w].job
             r == slotOps[j]
  <1>1. proc[w].pc \notin {"off", "loop"} /\ (BoundedLate(w) => proc[w].pc = "late")
    BY DEF RunGet, RunReserve, BoundedLate, At
  <1>2. j \in Ids /\ r \in Row /\ (~Left(r) => r.hash = None) BY <1>1, MySlot DEF Inv, OperationInv
  <1>3. CASE RunGet(w)
    <2>1. PICK e \in RunDefects : SetProc(w, Then(e, j)) BY <1>3 DEF RunGet
    <2>2. Then(e, j) \in {"loop", "recover", "reserve"} /\ (Then(e, j) = "recover" => O!Present(r)) BY DEF Then
    <2>3. Then(e, j) \in Places \ Signing /\ (Then(e, j) \in Bound => Then(e, j) = "recover")
      BY <2>2 DEF Places, Bound, Signing
    <2>4. Then(e, j) # "record" BY <2>2
    <2>. QED BY <1>1, <1>3, <2>1, <2>2, <2>3, <2>4, GoTo DEF RunGet
  <1>4. CASE RunReserve(w)
    <2> DEFINE pc == IF O!Present(r) THEN "recover" ELSE "bounded"
    <2>1. pc \in {"recover", "bounded"} OBVIOUS
    <2>2. SetProc(w, pc) /\ SetOp(j, O!Reserve(r, TRUE)) /\ UNCHANGED <<now, jobs, slots, sent>>
      BY <1>4 DEF RunReserve
    <2> HIDE DEF pc
    <2>3. pc \in Places \ Signing /\ pc # "record" BY <2>1 DEF Places, Bound, Signing
    <2>4. PICK x \in Process : x.pc = pc /\ x.job = j /\ proc' = [proc EXCEPT ![w] = x] BY <2>2, <2>3, SetProcFacts
    <2>5. Later(r, O!Reserve(r, TRUE), j) /\ O!Present(O!Reserve(r, TRUE)) BY <1>2, OperationLater
    <2>. QED BY <1>1, <2>2, <2>3, <2>4, <2>5, OperationStep
  <1>5. CASE BoundedLate(w)
    <2>1. SetProc(w, "recover") /\ SetOp(j, O!MarkManualReview(r)) /\ UNCHANGED <<now, jobs, slots, sent>>
      BY <1>5 DEF BoundedLate
    <2>2. "recover" \in Places \ Signing BY DEF Places, Bound, Signing
    <2>3. PICK x \in Process : x.pc = "recover" /\ x.job = j /\ proc' = [proc EXCEPT ![w] = x]
      BY <2>1, <2>2, SetProcFacts
    <2>4. Later(r, O!MarkManualReview(r), j) BY <1>2, OperationLater
    <2>5. O!Present(r) BY <1>1, <1>5 DEF Inv, WorkerInv, Knows, Bound
    <2>6. O!Present(O!MarkManualReview(r)) BY <2>4, <2>5 DEF Later
    <2>7. x.pc \notin Signing /\ x.pc # "record" BY <2>2, <2>3
    <2>. QED BY <1>1, <2>1, <2>3, <2>4, <2>6, <2>7, OperationStep
  <1>. QED BY <1>3, <1>4, <1>5

LEMMA RefusedInv ==
  ASSUME Inv, NEW w \in Workers, proc[w].pc \in Bound, Refused(w), UNCHANGED <<now, jobs, slots, sent>>
  PROVE  Inv'
  <1> DEFINE j == proc[w].job
             r == slotOps[j]
  <1>1. proc[w].pc \notin {"off", "loop"} BY DEF Bound, Signing
  <1>2. j \in Ids /\ r \in Row /\ (~Left(r) => r.hash = None) BY <1>1, MySlot DEF Inv, OperationInv
  <1>3. PICK pc \in {"recover", "loop"} : SetProc(w, pc) BY DEF Refused
  <1>4. pc \in Places \ Signing /\ pc # "record" BY DEF Places, Bound, Signing
  <1>5. PICK x \in Process : x.pc = pc /\ x.job = j /\ proc' = [proc EXCEPT ![w] = x] BY <1>3, <1>4, SetProcFacts
  <1>6. Later(r, O!MarkManualReview(r), j) BY <1>2, OperationLater
  <1>7. O!Present(r) BY DEF Inv, WorkerInv, Knows
  <1>8. O!Present(O!MarkManualReview(r)) BY <1>6, <1>7 DEF Later
  <1>9. SetOp(j, O!MarkManualReview(r)) BY DEF Refused
  <1>. QED BY <1>1, <1>4, <1>5, <1>6, <1>8, <1>9, OperationStep

\* The status of the operation is what the worker records next.
LEMMA OutcomeInv ==
  ASSUME Inv, NEW w \in Workers, proc[w].pc \in Bound, NEW q, Later(slotOps[proc[w].job], q, proc[w].job),
         Left(q), SetOp(proc[w].job, q), UNCHANGED <<now, slots, sent>>, NEW c \in BOOLEAN,
         jobs' = [jobs EXCEPT ![proc[w].job].state = IF c THEN "submitted" ELSE @],
         proc' = [proc EXCEPT ![w].pc = "record", ![w].status = q.status]
  PROVE  Inv'
  <1> DEFINE j == proc[w].job
             x == [proc[w] EXCEPT !.pc = "record", !.status = q.status]
             st == IF c THEN "submitted" ELSE jobs[j].state
  <1>1. proc[w].pc \notin {"off", "loop"} BY DEF Bound, Signing
  <1>2. proc[w] \in Process /\ proc \in [Workers -> Process] BY DEF Inv, TypeInv
  <1>3. q \in Row /\ q.status \in O!OperationStatus BY DEF Later, Row, O!OperationRow
  <1>4. x \in Process /\ x.pc = "record" /\ x.job = j BY <1>2, <1>3 DEF Process, Bound
  <1>5. proc' = [proc EXCEPT ![w] = x] BY <1>2
  <1>6. j \in DOMAIN jobs
    <2>1. j \in Ids /\ SlotOf(j) \in DOMAIN slots /\ slots[SlotOf(j)].job = j BY <1>1, MySlot
    <2>2. j <= Len(jobs) /\ jobs \in Seq(JobRow) BY <2>1 DEF Inv, SlotInv, TypeInv
    <2>. QED BY <2>1, <2>2 DEF Ids
  <1>7. jobs[j] \in JobRow BY <1>6 DEF Inv, TypeInv
  <1>8. st \in {"draft", "funded", "submitted"} BY <1>7 DEF JobRow
  <1>9. jobs' = [jobs EXCEPT ![j].state = st] BY <1>6
  <1>10. x.pc \notin Signing /\ O!Present(q) BY <1>4 DEF Signing, Left, O!Present
  <1> HIDE DEF x, st
  <1>11. \E s \in {"draft", "funded", "submitted"} : jobs' = [jobs EXCEPT ![j].state = s] BY <1>8, <1>9
  <1>. QED BY <1>1, <1>4, <1>5, <1>10, <1>11, OperationStep

LEMMA RecoverInv ==
  ASSUME Inv, NEW w \in Workers, Recover(w) \/ BoundedConfirm(w)
  PROVE  Inv'
  <1> DEFINE j == proc[w].job
             r == slotOps[j]
             m == O!MarkSubmitted(r, j)
             q == O!MarkReceipt(m, "confirmed", j, 1)
  <1>1. proc[w].pc \in {"recover", "confirm"} BY DEF Recover, BoundedConfirm, At
  <1>2. proc[w].pc \in Bound /\ proc[w].pc \notin {"off", "loop"} BY <1>1 DEF Bound
  <1>3. j \in Ids /\ r \in Row /\ (~Left(r) => r.hash = None) /\ O!Present(r)
    BY <1>2, MySlot DEF Inv, OperationInv, WorkerInv, Knows
  <1>4. CASE Recover(w)
    <2>1. Later(r, Recovered(j), j) /\ Left(Recovered(j)) BY <1>3, RecoveredLater DEF Inv
    <2> DEFINE c == Recovered(j).status = "reconciled"
    <2>2. c \in BOOLEAN OBVIOUS
    <2>3. jobs' = [jobs EXCEPT ![j].state = IF c THEN "submitted" ELSE @] BY <1>4 DEF Recover
    <2>4. /\ SetOp(j, Recovered(j)) /\ UNCHANGED <<now, slots, sent>>
          /\ proc' = [proc EXCEPT ![w].pc = "record", ![w].status = Recovered(j).status]
      BY <1>4 DEF Recover
    <2> HIDE DEF c
    <2>. QED BY <1>2, <2>1, <2>2, <2>3, <2>4, OutcomeInv
  <1>5. CASE BoundedConfirm(w)
    <2>1. Later(r, m, j) /\ Left(m) BY <1>3, OperationLater
    <2>2. m \in Row /\ (~Left(m) => m.hash = None) BY <2>1 DEF Later
    <2>3. \A st \in {"confirmed", "reverted"} : Later(m, O!MarkReceipt(m, st, j, 1), j) BY <1>3, <2>2, OperationLater
    <2>4. Later(m, q, j) BY <2>3
    <2>5. Later(r, q, j) /\ Left(q) BY <2>1, <2>4 DEF Later
    <2> DEFINE c == q.status = "confirmed"
    <2>6. c \in BOOLEAN OBVIOUS
    <2>7. jobs' = [jobs EXCEPT ![j].state = IF c THEN "submitted" ELSE @] BY <1>5 DEF BoundedConfirm
    <2>8. /\ SetOp(j, q) /\ UNCHANGED <<now, slots, sent>>
          /\ proc' = [proc EXCEPT ![w].pc = "record", ![w].status = q.status]
      BY <1>5 DEF BoundedConfirm
    <2> HIDE DEF c, q
    <2>. QED BY <1>2, <2>5, <2>6, <2>7, <2>8, OutcomeInv
  <1>. QED BY <1>4, <1>5

-----------------------------------------------------------------------------
(* Signing and sending. *)

\* The one worker that may sign for its job takes a step to x, and its slot becomes t.
SignerStep(w, x, t) ==
  /\ x.job = proc[w].job /\ proc' = [proc EXCEPT ![w] = x]
  /\ UNCHANGED <<now, jobs>>
  /\ slots' = [slots EXCEPT ![SlotOf(proc[w].job)] = t] /\ t.job = proc[w].job
  /\ slots[SlotOf(proc[w].job)].hash => t.hash
  /\ ~Fresh(t)
  /\ t.state = "signing" => ~t.hash
  /\ slotOps' \in [Ids -> Row] /\ \A j \in Ids : Later(slotOps[j], slotOps'[j], j)
  /\ sent' \in [Ids -> Nat] /\ \A k \in Ids : k # proc[w].job => sent'[k] = sent[k]
  /\ sent'[proc[w].job] <= 1
  /\ sent'[proc[w].job] = 1 => t.hash /\ slotOps'[proc[w].job].hash = proc[w].job
  /\ x.pc \in Signing => sent'[proc[w].job] = 0 /\ MaySend(x, t, slotOps'[proc[w].job])
  /\ \A v \in Workers : v # w /\ proc[v].pc \in Signing => proc[v].job # proc[w].job
  /\ O!Present(slotOps'[proc[w].job])
  /\ x.pc # "record"

LEMMA SignerInv ==
  ASSUME Inv, NEW w \in Workers, proc[w].pc \notin {"off", "loop"},
         NEW x \in Process, NEW t \in Slot, SignerStep(w, x, t)
  PROVE  Inv'
  <1> USE DEF SignerStep
  <1> DEFINE j == proc[w].job
             i == SlotOf(j)
  <1>1. /\ j \in Ids /\ i \in DOMAIN slots /\ slots[i].job = j
        /\ \A k \in DOMAIN slots : slots[k].job = j => k = i
    BY MySlot
  <1>2. slots \in Seq(Slot) /\ proc \in [Workers -> Process] /\ slotOps \in [Ids -> Row] /\ sent \in [Ids -> Nat]
    BY DEF Inv, TypeInv
  <1> HIDE DEF i
  <1>3. slots' \in Seq(Slot) /\ DOMAIN slots' = DOMAIN slots /\ slots'[i] = t BY <1>1, <1>2 DEF i
  <1>4. \A k \in DOMAIN slots : k # i => slots'[k] = slots[k] BY <1>1, <1>2 DEF i
  <1>5. \A k \in DOMAIN slots : slots'[k].job = slots[k].job BY <1>1, <1>3, <1>4
  <1>6. \A k \in DOMAIN slots : slots[k].job \in Ids
    <2> TAKE k \in DOMAIN slots
    <2>1. slots[k] \in Slot BY <1>2
    <2>. QED BY <2>1 DEF Slot
  <1>7. proc' \in [Workers -> Process] /\ proc'[w] = x /\ \A v \in Workers : v # w => proc'[v] = proc[v] BY <1>2
  <1>8. TypeInv' BY <1>3, <1>7 DEF Inv, TypeInv
  <1>9. SlotInv'
    <2>1. \A k \in DOMAIN slots' : slots'[k].job <= Len(jobs)' BY <1>3, <1>5 DEF Inv, SlotInv
    <2>2. \A k, l \in DOMAIN slots' : slots'[k].job = slots'[l].job => k = l BY <1>3, <1>5 DEF Inv, SlotInv
    <2>3. \A k \in DOMAIN slots' : Fresh(slots'[k]) => sent'[slots'[k].job] = 0
      <3> SUFFICES ASSUME NEW k \in DOMAIN slots, Fresh(slots'[k]) PROVE sent'[slots'[k].job] = 0 BY <1>3
      <3>1. k # i BY <1>3
      <3>2. slots'[k] = slots[k] /\ slots[k].job # j /\ slots[k].job \in Ids BY <1>1, <1>4, <1>6, <3>1
      <3>. QED BY <3>2 DEF Inv, SlotInv
    <2>4. \A k \in DOMAIN slots' : Fresh(slots'[k]) \/ slots'[k].state = "signing" => ~slots'[k].hash
      BY <1>3, <1>4 DEF Inv, SlotInv
    <2>5. \A k \in Ids : (\A l \in DOMAIN slots' : slots'[l].job # k) => sent'[k] = 0
      BY <1>1, <1>3, <1>5 DEF Inv, SlotInv
    <2>. QED BY <2>1, <2>2, <2>3, <2>4, <2>5 DEF SlotInv
  <1>10. OperationInv' BY DEF OperationInv, Later
  <1>11. SubmittedOnce'
    <2> SUFFICES ASSUME NEW k \in DOMAIN slots
                 PROVE  /\ sent'[slots'[k].job] <= 1
                        /\ sent'[slots'[k].job] = 1 => slots'[k].hash /\ slotOps'[slots'[k].job].hash = slots'[k].job
      BY <1>3 DEF SubmittedOnce
    <2>1. CASE k = i BY <1>3, <2>1
    <2>2. CASE k # i
      <3>1. slots'[k] = slots[k] /\ slots[k].job # j /\ slots[k].job \in Ids BY <1>1, <1>4, <1>6, <2>2
      <3>2. sent'[slots[k].job] = sent[slots[k].job] BY <3>1
      <3>. QED BY <3>1, <3>2 DEF Inv, SubmittedOnce, Later
    <2>. QED BY <2>1, <2>2
  <1>12. WorkerInv'
    <2>1. ASSUME NEW v \in Workers PROVE Knows(proc'[v], slots', slotOps')
      <3>1. CASE v = w BY <1>1, <1>3, <1>7, <3>1 DEF Knows
      <3>2. CASE v # w
        <4>1. proc'[v] = proc[v] /\ Knows(proc[v], slots, slotOps) BY <1>7, <3>2 DEF Inv, WorkerInv
        <4>2. proc[v].pc \notin {"off", "loop"} => \E k \in DOMAIN slots' : slots'[k].job = proc[v].job
          BY <1>3, <1>5, <4>1 DEF Knows
        <4>3. proc[v].pc \notin {"off", "loop"} => proc[v].job \in Ids BY <1>6, <4>1 DEF Knows
        <4>4. proc[v].pc \in Bound => proc[v].pc \notin {"off", "loop"} BY DEF Bound, Signing
        <4>5. proc[v].pc \in Bound => O!Present(slotOps'[proc[v].job]) BY <4>1, <4>3, <4>4 DEF Knows, Later
        <4>6. proc[v].pc = "record" => Left(slotOps'[proc[v].job]) BY <4>1, <4>3 DEF Knows, Later
        <4>. QED BY <4>1, <4>2, <4>5, <4>6 DEF Knows
      <3>. QED BY <3>1, <3>2
    <2>2. ASSUME NEW v \in Workers, NEW k \in DOMAIN slots', proc'[v].pc \in Signing, slots'[k].job = proc'[v].job
          PROVE  sent'[proc'[v].job] = 0 /\ MaySend(proc'[v], slots'[k], slotOps'[proc'[v].job])
      <3>1. CASE v = w
        <4>1. k = i BY <1>1, <1>3, <1>5, <1>7, <2>2, <3>1
        <4>. QED BY <1>3, <1>7, <2>2, <3>1, <4>1
      <3>2. CASE v # w
        <4>1. proc'[v] = proc[v] /\ slots[k].job = proc[v].job /\ proc[v].job # j /\ proc[v].job \in Ids
          BY <1>3, <1>5, <1>6, <1>7, <2>2, <3>2
        <4>2. k # i BY <1>1, <4>1
        <4>3. slots'[k] = slots[k] /\ sent'[proc[v].job] = sent[proc[v].job] BY <1>3, <1>4, <4>1, <4>2
        <4>4. sent[proc[v].job] = 0 /\ MaySend(proc[v], slots[k], slotOps[proc[v].job])
          BY <1>3, <2>2, <4>1 DEF Inv, WorkerInv
        <4>5. MaySend(proc[v], slots[k], slotOps'[proc[v].job]) BY <4>1, <4>4 DEF MaySend, Later
        <4>. QED BY <4>1, <4>3, <4>4, <4>5
      <3>. QED BY <3>1, <3>2
    <2>3. \A u, v \in Workers : proc'[u].pc \in Signing /\ proc'[v].pc \in Signing /\ proc'[u].job = proc'[v].job => u = v
      BY <1>7 DEF Inv, WorkerInv
    <2>. QED BY <2>1, <2>2, <2>3 DEF WorkerInv
  <1>. QED BY <1>8, <1>9, <1>10, <1>11, <1>12 DEF Inv

\* What a worker that has signed knows.
LEMMA SignerFacts ==
  ASSUME Inv, NEW w \in Workers, proc[w].pc \in Signing
  PROVE  /\ proc[w].pc \in Bound /\ proc[w].pc \notin {"off", "loop"}
         /\ sent[proc[w].job] = 0
         /\ MaySend(proc[w], slots[SlotOf(proc[w].job)], slotOps[proc[w].job])
         /\ \A v \in Workers : v # w /\ proc[v].pc \in Signing => proc[v].job # proc[w].job
         /\ O!Present(slotOps[proc[w].job])
         /\ slots[SlotOf(proc[w].job)] \in Slot
  <1>1. proc[w].pc \in Bound /\ proc[w].pc \notin {"off", "loop"} BY DEF Bound, Signing
  <1>2. SlotOf(proc[w].job) \in DOMAIN slots /\ slots[SlotOf(proc[w].job)].job = proc[w].job BY <1>1, MySlot
  <1>3. slots[SlotOf(proc[w].job)] \in Slot BY <1>2 DEF Inv, TypeInv
  <1>4. O!Present(slotOps[proc[w].job]) BY <1>1 DEF Inv, WorkerInv, Knows
  <1>5. sent[proc[w].job] = 0 /\ MaySend(proc[w], slots[SlotOf(proc[w].job)], slotOps[proc[w].job])
    BY <1>2 DEF Inv, WorkerInv
  <1>6. \A v \in Workers : v # w /\ proc[v].pc \in Signing => proc[v].job # proc[w].job BY DEF Inv, WorkerInv
  <1>. QED BY <1>1, <1>3, <1>4, <1>5, <1>6

LEMMA ClaimInv ==
  ASSUME Inv, NEW w \in Workers, BoundedClaim(w)
  PROVE  Inv'
  <1> DEFINE j == proc[w].job
             i == SlotOf(j)
             t == [slots[i] EXCEPT !.state = "signing"]
  <1>1. proc[w].pc = "bounded" /\ UNCHANGED <<now, jobs, sent>> BY DEF BoundedClaim, At
  <1>2. proc[w].pc \in Bound /\ proc[w].pc \notin {"off", "loop"} BY <1>1 DEF Bound
  <1>3. CASE Refused(w) /\ slots' = slots BY <1>1, <1>2, <1>3, RefusedInv
  <1>4. CASE MaySign(slots[i]) /\ SetSlot(j, "signing") /\ SetProc(w, "signed") /\ slotOps' = slotOps
    <2>1. j \in Ids /\ i \in DOMAIN slots /\ slots[i].job = j BY <1>2, MySlot
    <2>2. slots \in Seq(Slot) /\ slots[i] \in Slot /\ sent \in [Ids -> Nat] /\ slotOps \in [Ids -> Row]
      BY <2>1 DEF Inv, TypeInv
    <2>3. slots' = [slots EXCEPT ![i].state = "signing"] BY <1>4 DEF SetSlot
    <2>4. Fresh(slots[i]) /\ slots[i].hash = FALSE BY <1>4, <2>2 DEF MaySign, Fresh, Slot
    <2>5. sent[j] = 0 BY <2>1, <2>4 DEF Inv, SlotInv
    <2>6. \A v \in Workers : v # w /\ proc[v].pc \in Signing => proc[v].job # j
      BY <2>1, <2>4 DEF Inv, WorkerInv, MaySend
    <2>7. O!Present(slotOps[j]) BY <1>2 DEF Inv, WorkerInv, Knows
    <2>8. "signed" \in Places /\ "signed" \in Signing BY DEF Places, Bound, Signing
    <2>9. PICK x \in Process : x.pc = "signed" /\ x.job = j /\ proc' = [proc EXCEPT ![w] = x]
      BY <1>4, <2>8, SetProcFacts
    <2> HIDE DEF i, j
    <2>10. t \in Slot /\ t.job = slots[i].job /\ t.hash = slots[i].hash /\ t.state = "signing" BY <2>2 DEF Slot
    <2>11. slots' = [slots EXCEPT ![i] = t] BY <2>1, <2>2, <2>3
    <2> HIDE DEF t
    <2>12. ~Fresh(t) /\ MaySend(x, t, slotOps[j]) BY <2>9, <2>10 DEF Fresh, MaySend
    <2>13. \A k \in Ids : Later(slotOps[k], slotOps[k], k) BY SameLater
    <2>14. ~slots[i].hash /\ ~t.hash BY <2>4, <2>10
    <2>15. /\ slotOps' \in [Ids -> Row] /\ \A k \in Ids : Later(slotOps[k], slotOps'[k], k)
           /\ O!Present(slotOps'[j])
           /\ MaySend(x, t, slotOps'[j])
      BY <1>4, <2>2, <2>7, <2>9, <2>12, <2>13
    <2>16. sent' \in [Ids -> Nat] /\ sent'[j] = 0 /\ \A k \in Ids : k # j => sent'[k] = sent[k]
      BY <1>1, <2>2, <2>5
    <2>17. x.pc # "record" /\ t.job = j /\ ~Fresh(t) BY <2>1, <2>9, <2>10, <2>12
    <2>18. SignerStep(w, x, t) BY <1>1, <2>6, <2>9, <2>10, <2>11, <2>14, <2>15, <2>16, <2>17 DEF SignerStep, i, j
    <2>. QED BY <1>2, <2>10, <2>18, SignerInv
  <1>. QED BY <1>3, <1>4 DEF BoundedClaim

LEMMA PersistInv ==
  ASSUME Inv, NEW w \in Workers, BoundedPersist(w)
  PROVE  Inv'
  <1> DEFINE j == proc[w].job
             i == SlotOf(j)
             s == slots[i]
             t == IF s.state = "signing" THEN [s EXCEPT !.state = "unknown", !.hash = TRUE] ELSE s
  <1>1. proc[w].pc = "signed" /\ SetProc(w, "stored") /\ UNCHANGED <<now, jobs, slotOps, sent>>
    BY DEF BoundedPersist, At
  <1>2. "signed" \in Signing /\ "stored" \in Signing /\ "stored" \in Places BY DEF Places, Bound, Signing
  <1>3. /\ proc[w].pc \notin {"off", "loop"} /\ sent[j] = 0 /\ MaySend(proc[w], s, slotOps[j])
        /\ \A v \in Workers : v # w /\ proc[v].pc \in Signing => proc[v].job # j
        /\ O!Present(slotOps[j]) /\ s \in Slot
    BY <1>1, <1>2, SignerFacts
  <1>4. j \in Ids /\ i \in DOMAIN slots /\ s.job = j BY <1>3, MySlot
  <1>5. slots \in Seq(Slot) /\ sent \in [Ids -> Nat] /\ slotOps \in [Ids -> Row] BY DEF Inv, TypeInv
  <1>6. PICK x \in Process : x.pc = "stored" /\ x.job = j /\ proc' = [proc EXCEPT ![w] = x]
    BY <1>1, <1>2, SetProcFacts
  <1>7. slots' = IF s.state = "signing" THEN [slots EXCEPT ![i].state = "unknown", ![i].hash = TRUE] ELSE slots
    BY DEF BoundedPersist
  <1>8. ~Fresh(s) /\ (s.state = "signing" \/ Left(slotOps[j])) BY <1>1, <1>3 DEF MaySend
  <1>9. s = slots[i] OBVIOUS
  <1> HIDE DEF i, j, s
  <1>10. slots' = [slots EXCEPT ![i] = t]
    <2>1. CASE s.state = "signing"
      <3>1. t = [s EXCEPT !.state = "unknown", !.hash = TRUE] BY <2>1
      <3>2. slots' = [slots EXCEPT ![i].state = "unknown", ![i].hash = TRUE] BY <1>7, <2>1
      <3> HIDE DEF t
      <3>. QED BY <1>4, <1>5, <1>9, <3>1, <3>2
    <2>2. CASE s.state # "signing" BY <1>4, <1>5, <1>7, <1>9, <2>2
    <2>. QED BY <2>1, <2>2
  <1>11. t \in Slot /\ t.job = s.job /\ (s.hash => t.hash) /\ t.state # "signing" BY <1>3 DEF Slot
  <1>12. ~Fresh(t) /\ (t.hash \/ Left(slotOps[j])) BY <1>3, <1>8 DEF Fresh, Slot
  <1> HIDE DEF t
  <1>13. MaySend(x, t, slotOps[j]) BY <1>6, <1>12 DEF MaySend
  <1>14. \A k \in Ids : Later(slotOps[k], slotOps[k], k) BY SameLater
  <1>15. slots[i].hash => t.hash BY <1>9, <1>11
  <1>16. /\ slotOps' \in [Ids -> Row] /\ \A k \in Ids : Later(slotOps[k], slotOps'[k], k)
         /\ O!Present(slotOps'[j])
         /\ MaySend(x, t, slotOps'[j])
    BY <1>1, <1>3, <1>5, <1>6, <1>13, <1>14
  <1>17. sent' \in [Ids -> Nat] /\ sent'[j] = 0 /\ \A k \in Ids : k # j => sent'[k] = sent[k]
    BY <1>1, <1>3, <1>5
  <1>18. x.pc # "record" /\ t.job = j BY <1>4, <1>6, <1>11
  <1>19. UNCHANGED <<now, jobs>> BY <1>1
  <1>20. SignerStep(w, x, t)
    BY <1>3, <1>6, <1>10, <1>11, <1>12, <1>15, <1>16, <1>17, <1>18, <1>19 DEF SignerStep, i, j
  <1>. QED BY <1>3, <1>6, <1>11, <1>20, SignerInv DEF j

LEMMA MarkInv ==
  ASSUME Inv, NEW w \in Workers, BoundedMark(w)
  PROVE  Inv'
  <1> DEFINE j == proc[w].job
             i == SlotOf(j)
             r == slotOps[j]
             q == [r EXCEPT !.status = "unknown", !.hash = j, !.failure = "other"]
  <1>1. proc[w].pc = "stored" /\ UNCHANGED <<now, jobs, slots, sent>> BY DEF BoundedMark, At
  <1>2. "stored" \in Signing /\ "send" \in Places BY DEF Places, Bound, Signing
  <1>3. /\ proc[w].pc \in Bound /\ proc[w].pc \notin {"off", "loop"} /\ sent[j] = 0 /\ MaySend(proc[w], slots[i], r)
        /\ \A v \in Workers : v # w /\ proc[v].pc \in Signing => proc[v].job # j
        /\ slots[i] \in Slot
    BY <1>1, <1>2, SignerFacts
  <1>4. CASE Refused(w) BY <1>1, <1>3, <1>4, RefusedInv
  <1>5. CASE r.status = "awaiting_signature" /\ SetOp(j, q) /\ SetProc(w, "send")
    <2>1. j \in Ids /\ r \in Row /\ i \in DOMAIN slots /\ slots[i].job = j BY <1>3, MySlot
    <2>2. slots \in Seq(Slot) /\ sent \in [Ids -> Nat] BY DEF Inv, TypeInv
    <2>3. PICK x \in Process : x.pc = "send" /\ x.job = j /\ proc' = [proc EXCEPT ![w] = x]
      BY <1>2, <1>5, SetProcFacts
    <2>4. slots[i].hash /\ ~Fresh(slots[i]) BY <1>1, <1>3, <1>5 DEF MaySend, Left
    <2>5. slots[i].state = "signing" => ~slots[i].hash BY <2>1 DEF Inv, SlotInv
    <2> HIDE DEF i, j, r
    <2>6. q \in Row /\ q.hash = j /\ Left(q) /\ O!Present(q)
      BY <2>1 DEF Row, O!OperationRow, O!OperationStatus, O!FailureCode, Left, O!Present
    <2> HIDE DEF q
    <2>7. Later(slotOps[j], q, j) BY <2>6 DEF Later
    <2>8. /\ slotOps' \in [Ids -> Row] /\ slotOps'[j] = q
          /\ \A k \in Ids : Later(slotOps[k], slotOps'[k], k)
      BY <1>5, <2>1, <2>7, OperationChange DEF SetOp
    <2>9. MaySend(x, slots[i], slotOps'[j]) BY <2>3, <2>4, <2>6, <2>8 DEF MaySend
    <2>10. slots' = [slots EXCEPT ![i] = slots[i]] BY <1>1, <2>2
    <2>11. sent' \in [Ids -> Nat] /\ sent'[j] = 0 /\ \A k \in Ids : k # j => sent'[k] = sent[k]
      BY <1>1, <1>3, <2>2 DEF j
    <2>12. x.pc # "record" /\ O!Present(slotOps'[j]) BY <2>3, <2>6, <2>8
    <2>13. \A v \in Workers : v # w /\ proc[v].pc \in Signing => proc[v].job # j BY <1>3 DEF j
    <2>14. UNCHANGED <<now, jobs>> /\ slots[i].job = j BY <1>1, <2>1
    <2>15. sent'[j] <= 1 /\ sent'[j] # 1 BY <2>11
    <2>16. SignerStep(w, x, slots[i])
      BY <2>3, <2>4, <2>5, <2>8, <2>9, <2>10, <2>11, <2>12, <2>13, <2>14, <2>15 DEF SignerStep, i, j
    <2>. QED BY <1>3, <2>16, SignerInv DEF i, j
  <1>. QED BY <1>4, <1>5 DEF BoundedMark

LEMMA SendInv ==
  ASSUME Inv, NEW w \in Workers, BoundedSend(w)
  PROVE  Inv'
  <1> DEFINE j == proc[w].job
             i == SlotOf(j)
  <1>1. proc[w].pc = "send" /\ UNCHANGED <<now, jobs, slots, slotOps>> BY DEF BoundedSend, At
  <1>2. "send" \in Signing /\ "wait" \in Places \ Signing /\ "late" \in Places \ Signing BY DEF Places, Bound, Signing
  <1>3. /\ proc[w].pc \notin {"off", "loop"} /\ sent[j] = 0 /\ MaySend(proc[w], slots[i], slotOps[j])
        /\ \A v \in Workers : v # w /\ proc[v].pc \in Signing => proc[v].job # j
        /\ slots[i] \in Slot /\ O!Present(slotOps[j])
    BY <1>1, <1>2, SignerFacts
  <1>4. CASE SetProc(w, "late") /\ sent' = sent BY <1>1, <1>2, <1>3, <1>4, GoTo
  <1>5. CASE sent' = [sent EXCEPT ![j] = @ + 1] /\ SetProc(w, "wait")
    <2>1. j \in Ids /\ i \in DOMAIN slots /\ slots[i].job = j BY <1>3, MySlot
    <2>2. slots \in Seq(Slot) /\ sent \in [Ids -> Nat] /\ slotOps \in [Ids -> Row] BY DEF Inv, TypeInv
    <2>3. PICK x \in Process : x.pc = "wait" /\ x.job = j /\ proc' = [proc EXCEPT ![w] = x]
      BY <1>2, <1>5, SetProcFacts
    <2>4. slots[i].hash /\ slotOps[j].hash = j /\ ~Fresh(slots[i]) BY <1>1, <1>3 DEF MaySend
    <2>5. slots[i].state = "signing" => ~slots[i].hash BY <2>1 DEF Inv, SlotInv
    <2>6. sent' = [sent EXCEPT ![j] = 1] BY <1>3, <1>5
    <2>7. sent' \in [Ids -> Nat] /\ sent'[j] = 1 /\ \A k \in Ids : k # j => sent'[k] = sent[k] BY <2>1, <2>2, <2>6
    <2>8. slots' = [slots EXCEPT ![i] = slots[i]] BY <1>1, <2>2
    <2>9. /\ slotOps' \in [Ids -> Row] /\ \A k \in Ids : Later(slotOps[k], slotOps'[k], k)
          /\ O!Present(slotOps'[j]) /\ slotOps'[j].hash = j
      BY <1>1, <1>3, <2>2, <2>4, SameLater
    <2>10. x.pc # "record" /\ x.pc \notin Signing BY <1>2, <2>3
    <2>11. UNCHANGED <<now, jobs>> /\ slots[i].job = j BY <1>1, <2>1
    <2>12. sent'[j] <= 1 BY <2>7
    <2>13. \A v \in Workers : v # w /\ proc[v].pc \in Signing => proc[v].job # j BY <1>3
    <2>14. SignerStep(w, x, slots[i])
      BY <2>3, <2>4, <2>5, <2>7, <2>8, <2>9, <2>10, <2>11, <2>12, <2>13 DEF SignerStep
    <2>. QED BY <1>3, <2>14, SignerInv
  <1>. QED BY <1>4, <1>5 DEF BoundedSend

-----------------------------------------------------------------------------
(* Quotes and the whole next-state relation. *)

LEMMA HireInv ==
  ASSUME Inv, NEW j \in DOMAIN jobs, NEW d, Hire(j, d)
  PROVE  Inv'
  <1>1. PICK js : js = jobs' OBVIOUS
  <1>2. js = [jobs EXCEPT ![j].state = "funded"] /\ UNCHANGED <<now, slots, slotOps, sent, proc>>
    BY <1>1 DEF Hire
  <1>3. js \in Seq(JobRow) /\ Len(js) = Len(jobs) BY <1>2, JobState
  <1>4. /\ now' \in Nat /\ slots' \in Seq(Slot) /\ DOMAIN slots' = DOMAIN slots
        /\ slotOps' \in [Ids -> Row] /\ proc' \in [Workers -> Process]
    BY <1>2 DEF Inv, TypeInv
  <1>5. /\ \A i \in DOMAIN slots : SlotLater(slots[i], slots'[i], slotOps'[slots[i].job])
        /\ \A k \in Ids : Later(slotOps[k], slotOps'[k], k)
    BY <1>2, SameLater
  <1>. QED BY <1>1, <1>2, <1>3, <1>4, <1>5, StayInv

\* A quote inserts its job and its slot together.
LEMMA QuoteInv ==
  ASSUME Parameters, Inv, NEW t \in Tasks, NEW d, Quote(t, d)
  PROVE  Inv'
  <1> DEFINE n == Len(jobs) + 1
             s == [job |-> n, hash |-> FALSE, state |-> "reserved"]
             m == Len(slots) + 1
             row == [task |-> t, expires |-> now + QuoteLife, state |-> "draft"]
  <1>1. /\ jobs \in Seq(JobRow) /\ slots \in Seq(Slot) /\ now \in Nat /\ slotOps \in [Ids -> Row]
        /\ sent \in [Ids -> Nat] /\ proc \in [Workers -> Process] /\ QuoteLife \in Nat
    BY DEF Inv, TypeInv, Parameters
  <1>2. n \in Nat /\ n \in Ids
    <2>1. MaxDrafts \in Nat BY DEF Parameters
    <2>2. Len(jobs) < MaxDrafts BY DEF Quote
    <2>3. Len(jobs) \in Nat BY <1>1
    <2>. QED BY <2>1, <2>2, <2>3 DEF Ids
  <1>3. s \in Slot BY <1>2 DEF Slot
  <1>4. slots' = Append(slots, s) BY DEF Quote, Reserved
  <1>5. row \in JobRow BY <1>1 DEF JobRow
  <1>6. jobs' = Append(jobs, row) /\ UNCHANGED <<now, slotOps, sent, proc>> BY DEF Quote
  <1>7. s.job = n /\ s.state = "reserved" /\ s.hash = FALSE OBVIOUS
  <1> HIDE DEF s, row
  <1>8. /\ slots' \in Seq(Slot) /\ DOMAIN slots' = 1 .. m /\ DOMAIN slots = 1 .. m - 1 /\ m \in Nat \ {0}
        /\ slots'[m] = s /\ \A i \in 1 .. m - 1 : slots'[i] = slots[i]
    BY <1>1, <1>3, <1>4
  <1>9. jobs' \in Seq(JobRow) /\ Len(jobs') = n BY <1>1, <1>5, <1>6
  <1>10. \A i \in DOMAIN slots' : i = m \/ (i # m /\ i \in DOMAIN slots /\ slots'[i] = slots[i]) BY <1>8
  <1>11. \A i \in DOMAIN slots : slots[i].job \in Ids /\ slots[i].job <= Len(jobs)
    <2> TAKE i \in DOMAIN slots
    <2>1. slots[i] \in Slot BY <1>1
    <2>2. slots[i].job \in Ids BY <2>1 DEF Slot
    <2>. QED BY <2>2 DEF Inv, SlotInv
  <1>12. \A i \in DOMAIN slots : slots[i].job # n /\ slots[i].job <= n
    <2> TAKE i \in DOMAIN slots
    <2>1. slots[i].job \in Nat /\ slots[i].job <= Len(jobs) BY <1>11 DEF Ids
    <2>2. Len(jobs) \in Nat BY <1>1
    <2>. QED BY <2>1, <2>2
  <1>13. sent[n] = 0 BY <1>2, <1>12 DEF Inv, SlotInv
  <1> HIDE DEF m, n
  <1>14. TypeInv'
    <2>1. Len(jobs') <= MaxDrafts BY <1>2, <1>9 DEF Ids
    <2>. QED BY <1>1, <1>6, <1>8, <1>9, <2>1 DEF TypeInv
  <1>15. SlotInv'
    <2>1. \A i \in DOMAIN slots' : slots'[i].job <= Len(jobs') BY <1>2, <1>7, <1>8, <1>9, <1>10, <1>12
    <2>2. \A i, k \in DOMAIN slots' : slots'[i].job = slots'[k].job => i = k
      BY <1>7, <1>8, <1>10, <1>12 DEF Inv, SlotInv
    <2>3. \A i \in DOMAIN slots' : Fresh(slots'[i]) => sent'[slots'[i].job] = 0
      BY <1>6, <1>7, <1>8, <1>10, <1>13 DEF Inv, SlotInv
    <2>4. \A i \in DOMAIN slots' : Fresh(slots'[i]) \/ slots'[i].state = "signing" => ~slots'[i].hash
      BY <1>7, <1>8, <1>10 DEF Inv, SlotInv
    <2>5. \A j \in Ids : (\A i \in DOMAIN slots' : slots'[i].job # j) => sent'[j] = 0
      <3>1. DOMAIN slots \subseteq DOMAIN slots' /\ \A i \in DOMAIN slots : slots'[i] = slots[i] BY <1>8
      <3>. QED BY <1>6, <3>1 DEF Inv, SlotInv
    <2>. QED BY <2>1, <2>2, <2>3, <2>4, <2>5 DEF SlotInv
  <1>16. OperationInv' BY <1>6 DEF Inv, OperationInv
  <1>17. SubmittedOnce'
    <2> SUFFICES ASSUME NEW i \in DOMAIN slots'
                 PROVE  /\ sent'[slots'[i].job] <= 1
                        /\ sent'[slots'[i].job] = 1 => slots'[i].hash /\ slotOps'[slots'[i].job].hash = slots'[i].job
      BY DEF SubmittedOnce
    <2>1. CASE i = m BY <1>6, <1>7, <1>8, <1>13, <2>1
    <2>2. CASE i # m BY <1>6, <1>10, <2>2 DEF Inv, SubmittedOnce
    <2>. QED BY <2>1, <2>2
  <1>18. WorkerInv'
    <2>1. ASSUME NEW w \in Workers PROVE Knows(proc'[w], slots', slotOps')
      <3>1. Knows(proc[w], slots, slotOps) BY DEF Inv, WorkerInv
      <3>2. DOMAIN slots \subseteq DOMAIN slots' /\ \A i \in DOMAIN slots : slots'[i] = slots[i] BY <1>8
      <3>. QED BY <1>6, <3>1, <3>2 DEF Knows
    <2>2. ASSUME NEW w \in Workers, NEW i \in DOMAIN slots', proc'[w].pc \in Signing, slots'[i].job = proc'[w].job
          PROVE  sent'[proc'[w].job] = 0 /\ MaySend(proc'[w], slots'[i], slotOps'[proc'[w].job])
      <3>1. proc'[w] = proc[w] BY <1>6
      <3>2. proc[w].pc \notin {"off", "loop"} BY <2>2, <3>1 DEF Signing
      <3>3. \E k \in DOMAIN slots : slots[k].job = proc[w].job BY <3>2 DEF Inv, WorkerInv, Knows
      <3>4. i # m BY <1>7, <1>8, <1>12, <2>2, <3>1, <3>3
      <3>. QED BY <1>6, <1>10, <2>2, <3>1, <3>4 DEF Inv, WorkerInv
    <2>3. \A v, w \in Workers : proc'[v].pc \in Signing /\ proc'[w].pc \in Signing /\ proc'[v].job = proc'[w].job => v = w
      BY <1>6 DEF Inv, WorkerInv
    <2>. QED BY <2>1, <2>2, <2>3 DEF WorkerInv
  <1>. QED BY <1>14, <1>15, <1>16, <1>17, <1>18 DEF Inv

LEMMA InitInv ==
  ASSUME Parameters, Init
  PROVE  Inv
  <1>1. slots = <<>> /\ jobs = <<>> /\ \A j \in Ids : sent[j] = 0 BY DEF Init
  <1>2. \A w \in Workers : proc[w].pc = "off" BY DEF Init, Off
  <1>3. O!AbsentRow \in Row /\ O!AbsentRow.hash = None
    BY DEF O!AbsentRow, Row, O!OperationRow, O!OperationStatus, O!FailureCode
  <1>4. Off \in Process BY DEF Off, Process
  <1>5. TypeInv BY <1>3, <1>4 DEF Init, TypeInv, Parameters
  <1>6. DOMAIN slots = {} BY <1>1
  <1>7. SlotInv BY <1>1, <1>6 DEF SlotInv
  <1>8. OperationInv BY <1>3 DEF Init, OperationInv
  <1>9. WorkerInv BY <1>2, <1>6 DEF WorkerInv, Knows, Signing, Bound
  <1>10. SubmittedOnce BY <1>6 DEF SubmittedOnce
  <1>. QED BY <1>5, <1>7, <1>8, <1>9, <1>10 DEF Inv

LEMMA NextInv ==
  ASSUME Parameters, Inv, [Next]_vars
  PROVE  Inv'
  <1>1. CASE UNCHANGED vars
    <2>1. UNCHANGED <<now, jobs, slots, slotOps, sent, proc>> BY <1>1 DEF vars
    <2>2. now' \in Nat BY <2>1 DEF Inv, TypeInv
    <2>. QED BY <2>1, <2>2, IdleInv
  <1>2. CASE \E t \in Tasks, d \in Defects : Quote(t, d) BY <1>2, QuoteInv
  <1>3. CASE \E j \in DOMAIN jobs, d \in Defects : Hire(j, d) BY <1>3, HireInv
  <1>4. CASE (\E j \in Ids : Mine(j)) \/ Tick
    <2>1. UNCHANGED <<jobs, slots, slotOps, sent, proc>> /\ (now' = now \/ now' = now + 1) BY <1>4 DEF Mine, Tick
    <2>2. now' \in Nat BY <2>1 DEF Inv, TypeInv
    <2>. QED BY <2>1, <2>2, IdleInv
  <1>5. ASSUME NEW w \in Workers, WorkerStep(w) PROVE Inv'
    BY <1>5, LoopInv, TickPendingInv, TickClaimInv, ReceiptInv, TickRecordInv, RunInv, RecoverInv,
       ClaimInv, PersistInv, MarkInv, SendInv DEF WorkerStep
  <1>. QED BY <1>1, <1>2, <1>3, <1>4, <1>5 DEF Next

(* Over every behaviour of the bounded provider a slot's submission is
   broadcast at most once, after its hash is stored on the slot and on the
   operation (t5-reference-service.ts boundedSubmit). *)
THEOREM SubmissionsAreSentOnce ==
  ASSUME Parameters
  PROVE  Spec => []SubmittedOnce
  <1>1. Init => Inv BY InitInv
  <1>2. Inv /\ [Next]_vars => Inv' BY NextInv
  <1>3. Inv => SubmittedOnce BY DEF Inv
  <1>. QED BY <1>1, <1>2, <1>3, PTL DEF Spec
=============================================================================
