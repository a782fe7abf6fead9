--------------------------- MODULE EoaHire_proofs ---------------------------
(***************************************************************************)
(* Type correctness of the browser hire, that no step of a hire is sent    *)
(* twice, that the database says confirmed and funded only of what the     *)
(* chain says, and that the hire implements HireProtocol: for any number   *)
(* of tabs, concurrent requests, steps and failures.                       *)
(***************************************************************************)
EXTENDS EoaHire, TLAPS

\* A slot that works on an operation knows its step, and its hash where it uses one.
SlotOK(y) ==
  /\ y.pc \notin {"free", "throw", "reply"} => y.step \in Steps
  /\ y.pc \in {"markSubmitted", "verify", "markReceipt", "persist", "createJob"} =>
       y.hash \in Hashes

TabOK(w) ==
  /\ w.pc # "idle" => w.step \in Steps
  /\ w.pc = "loading" => w.hash \in Hashes

WellFormed ==
  /\ TypeOK
  /\ \A r \in Slots : SlotOK(h[r])
  /\ \A t \in Tabs : TabOK(tab[t])

\* A record a handler step may leave in its slot: well formed, and no release that
\* nobody asked for.
Fine(y) == y \in SlotRecord /\ SlotOK(y) /\ y.pc # "release"

\* The step has left the states in which it may be claimed.
Taken(row) == row.status \notin {"absent", "awaiting_signature"}

-----------------------------------------------------------------------------
(* The statements of Erc8183Operations. *)

\* Each statement of PostgresErc8183OperationRepository keeps rows well typed.
LEMMA RowTypes ==
  ASSUME NEW row \in OperationRow, NEW x \in Hashes, NEW known \in BOOLEAN,
         NEW outcome \in {"confirmed", "reverted"}
  PROVE  /\ Reserve(row, known) \in OperationRow
         /\ MarkSubmitted(row, x) \in OperationRow
         /\ AttachJobId(row) \in OperationRow
         /\ ClaimExternalDispatch(row) \in OperationRow
         /\ ReleaseExternalDispatch(row) \in OperationRow
         /\ MarkReceipt(row, outcome, x, 0) \in OperationRow
         /\ MarkUnknown(row) \in OperationRow
         /\ MarkManualReview(row) \in OperationRow
  <1> USE DEF OperationRow, OperationStatus, FailureCode
  <1>1. Reserve(row, known) \in OperationRow BY DEF Reserve, AbsentRow
  <1>2. MarkSubmitted(row, x) \in OperationRow BY DEF MarkSubmitted
  <1>3. AttachJobId(row) \in OperationRow BY DEF AttachJobId
  <1>4. ClaimExternalDispatch(row) \in OperationRow BY DEF ClaimExternalDispatch
  <1>5. ReleaseExternalDispatch(row) \in OperationRow BY DEF ReleaseExternalDispatch
  <1>6. MarkReceipt(row, outcome, x, 0) \in OperationRow BY DEF MarkReceipt
  <1>7. MarkUnknown(row) \in OperationRow BY DEF MarkUnknown
  <1>8. MarkManualReview(row) \in OperationRow BY DEF MarkManualReview
  <1>. QED BY <1>1, <1>2, <1>3, <1>4, <1>5, <1>6, <1>7, <1>8

\* Only a release takes a step back to where it may be claimed.
LEMMA TakenStays ==
  ASSUME NEW row \in OperationRow, Taken(row), NEW x \in Hashes, NEW known \in BOOLEAN,
         NEW outcome \in {"confirmed", "reverted"}
  PROVE  /\ Taken(Reserve(row, known))
         /\ Taken(MarkSubmitted(row, x))
         /\ Taken(AttachJobId(row))
         /\ Taken(ClaimExternalDispatch(row))
         /\ Taken(MarkReceipt(row, outcome, x, 0))
         /\ Taken(MarkUnknown(row))
         /\ Taken(MarkManualReview(row))
  BY DEF OperationRow, Taken, Present, Reserve, MarkSubmitted, AttachJobId,
         ClaimExternalDispatch, MarkReceipt, MarkUnknown, MarkManualReview

\* A claim that wins finds the step open and leaves it taken.
LEMMA ClaimTakes ==
  ASSUME NEW row \in OperationRow, CanClaim(row)
  PROVE  ~Taken(row) /\ Taken(ClaimExternalDispatch(row))
  BY DEF OperationRow, Taken, CanClaim, ClaimExternalDispatch

\* A reservation starts from a row of the table.
LEMMA AbsentRowType == AbsentRow \in OperationRow
  BY DEF AbsentRow, OperationRow, OperationStatus, FailureCode

-----------------------------------------------------------------------------
(* The records handlers and tabs move between. *)

\* What confirmEoa keeps of a row it has read.
LEMMA ReadType == ASSUME NEW row \in OperationRow PROVE Read(row) \in Snapshot
  BY DEF Read, Snapshot, OperationRow

\* A slot without a request is fine.
LEMMA FreeSlotFine == Fine(FreeSlot)
  BY AbsentRowType, ReadType DEF Fine, FreeSlot, NothingRead, SlotRecord, SlotPc, ErrorCode, SlotOK

\* A request that has just arrived.
LEMMA RequestType ==
  ASSUME NEW pc \in SlotPc \ {"markSubmitted", "verify", "markReceipt", "persist", "createJob"},
         NEW s \in Steps, NEW x \in Hashes \cup {NoHash}, NEW t \in Tabs \cup {NoTab}
  PROVE  /\ Request(pc, s, x, t) \in SlotRecord /\ SlotOK(Request(pc, s, x, t))
         /\ Request(pc, s, x, t).pc = pc /\ Request(pc, s, x, t).step = s
         /\ Request(pc, s, x, t).hash = x
  BY FreeSlotFine DEF Fine, FreeSlot, Request, SlotRecord, SlotOK

\* Returning to the caller, or to the route.
LEMMA ReturnFine ==
  ASSUME NEW y \in SlotRecord, NEW n \in Steps \cup {0}, NEW b \in BOOLEAN
  PROVE  Fine(Return(y, n, b))
  <1>1. NothingRead \in Snapshot BY AbsentRowType, ReadType DEF NothingRead
  <1> DEFINE z == [y EXCEPT !.pc = "reply", !.step = 0, !.op = NothingRead, !.hash = NoHash,
                            !.err = "none", !.next = n, !.settled = b]
  <1>2. "reply" \in SlotPc /\ "none" \in ErrorCode BY DEF SlotPc, ErrorCode
  <1>3. z \in SlotRecord BY <1>1, <1>2 DEF SlotRecord
  <1>4. z.pc = "reply" BY DEF SlotRecord
  <1>5. Fine(z) BY <1>3, <1>4 DEF Fine, SlotOK
  <1>. QED BY <1>5, FreeSlotFine DEF Return

\* Throwing to the caller, or to the route.
LEMMA ThrowFine ==
  ASSUME NEW y \in SlotRecord, NEW code \in ErrorCode
  PROVE  Fine(Throw(y, code))
  <1>1. NothingRead \in Snapshot BY AbsentRowType, ReadType DEF NothingRead
  <1>2. Fine([y EXCEPT !.pc = "throw", !.step = 0, !.op = NothingRead, !.hash = NoHash,
                       !.err = code, !.next = 0, !.settled = FALSE])
    BY <1>1 DEF Fine, SlotRecord, SlotPc, SlotOK
  <1>. QED BY <1>2, FreeSlotFine DEF Throw

\* Leaving a try block of confirmEoa.
LEMMA PopType ==
  ASSUME NEW y \in SlotRecord, y.frames # <<>>
  PROVE  Pop(y) \in SlotRecord /\ Last(y.frames) \in Frame /\ Pop(y).pc = y.pc
  <1>1. y.frames \in Seq(Frame) BY DEF SlotRecord
  <1>2. Len(y.frames) \in Nat \ {0} BY <1>1
  <1>3. SubSeq(y.frames, 1, Len(y.frames) - 1) \in Seq(Frame) BY <1>1, <1>2
  <1>4. Last(y.frames) \in Frame BY <1>1, <1>2 DEF Last
  <1>. QED BY <1>3, <1>4 DEF Pop, SlotRecord

\* Entering the try block of confirmEoa.
LEMMA EnterTryFine ==
  ASSUME NEW y \in SlotRecord, y.step \in Steps, NEW op \in OperationRow,
         NEW status \in OperationStatus, NEW x \in Hashes
  PROVE  Fine(EnterTry(y, op, status, x))
  <1> DEFINE f == [step |-> y.step, status |-> status, hash |-> x]
  <1>1. f \in Frame BY DEF Frame
  <1>2. y.frames \in Seq(Frame) BY DEF SlotRecord
  <1>3. Append(y.frames, f) \in Seq(Frame) BY <1>1, <1>2
  <1>. QED BY <1>3, ReadType DEF Fine, EnterTry, SlotRecord, SlotPc, SlotOK

\* Every early return of confirmEoa.
LEMMA ConfirmFine ==
  ASSUME NEW y \in SlotRecord, y.step \in Steps, NEW op \in OperationRow,
         NEW supplied \in Hashes \cup {NoHash}
  PROVE  Fine(ConfirmEoa(y, op, supplied))
  <1> DEFINE x == IF supplied # NoHash THEN supplied ELSE op.hash
  <1>1. x \in Hashes \cup {NoHash} /\ op.status \in OperationStatus BY DEF OperationRow
  <1>2. Fine([y EXCEPT !.pc = "advance", !.hash = NoHash])
    BY DEF Fine, SlotRecord, SlotPc, SlotOK
  <1>3. Fine([y EXCEPT !.pc = "markUnknown"])
    BY DEF Fine, SlotRecord, SlotPc, SlotOK
  <1>4. x # NoHash => Fine([y EXCEPT !.pc = "markSubmitted", !.op = Read(op), !.hash = x])
    BY <1>1, ReadType DEF Fine, SlotRecord, SlotPc, SlotOK
  <1>5. x # NoHash => Fine(EnterTry(y, op, op.status, x)) BY <1>1, EnterTryFine
  <1>6. DispatchFor(y.step, op) \in Steps \cup {0} BY DEF DispatchFor
  <1>7. Fine(Return(y, DispatchFor(y.step, op), FALSE)) BY <1>6, ReturnFine
  <1>8. Fine(Throw(y, "other")) BY ThrowFine DEF ErrorCode
  <1>. QED BY <1>2, <1>3, <1>4, <1>5, <1>7, <1>8 DEF ConfirmEoa

\* Every early return of attachExternalExecution.
LEMMA AttachFine ==
  ASSUME TypeOK, NEW y \in SlotRecord, y.step \in Steps
  PROVE  Fine(AttachExternalExecution(y))
  <1>1. rows[y.step] \in OperationRow BY DEF TypeOK
  <1>2. y.hash \in Hashes \cup {NoHash} BY DEF SlotRecord
  <1>3. Fine(ConfirmEoa(y, rows[y.step], y.hash)) BY <1>1, <1>2, ConfirmFine
  <1>4. Fine([y EXCEPT !.pc = "markUnknown"]) BY DEF Fine, SlotRecord, SlotPc, SlotOK
  <1>5. Fine(Return(y, 0, Settled(rows[y.step]))) BY ReturnFine DEF Settled
  <1>. QED BY <1>3, <1>4, <1>5 DEF AttachExternalExecution

\* What confirmEoa does once the receipt is recorded.
LEMMA AfterReceiptFine ==
  ASSUME NEW y \in SlotRecord, y.step \in Steps, y.hash \in Hashes, NEW op
  PROVE  Fine(AfterReceipt(y, op))
  BY AbsentRowType, ReadType DEF AfterReceipt, NothingRead, Fine, SlotRecord, SlotPc, SlotOK

\* Going on to advanceEoa.
LEMMA AdvanceFine ==
  ASSUME NEW y \in SlotRecord, y.step \in Steps
  PROVE  Fine(Advance(y))
  BY DEF Advance, Fine, SlotRecord, SlotPc, SlotOK

\* The tab record after any answer is well formed and asks for no signature.
LEMMA TabMoves ==
  ASSUME NEW w \in TabRecord, TabOK(w), NEW y \in SlotRecord
  PROVE  /\ TabFailed(w) \in TabRecord /\ TabOK(TabFailed(w))
         /\ TabFailed(w).pc # "signing"
         /\ TabAnswered(w, y) \in TabRecord /\ TabOK(TabAnswered(w, y))
         /\ TabAnswered(w, y).pc # "signing"
  BY DEF TabFailed, TabAnswered, IdleTab, TabRecord, TabPc, TabOK, SlotRecord
-----------------------------------------------------------------------------
(* Type correctness. *)

\* A hire whose draft was just written is well formed.
LEMMA InitWellFormed == Init => WellFormed
  <1> SUFFICES ASSUME Init PROVE WellFormed OBVIOUS
  <1>1. 0 .. MaxFaults = {i \in Int : 0 <= i /\ i <= MaxFaults} /\ 0 \in 0 .. MaxFaults
    BY BoundsAssumption
  <1>2. TypeOK
    BY <1>1, AbsentRowType, FreeSlotFine
    DEF Init, TypeOK, Fine, Outcome, IdleTab, TabRecord, TabPc
  <1>3. \A r \in Slots : SlotOK(h[r]) BY FreeSlotFine DEF Init, Fine
  <1>4. \A t \in Tabs : TabOK(tab[t]) BY DEF Init, TabOK, IdleTab
  <1>. QED BY <1>2, <1>3, <1>4 DEF WellFormed

\* The rows stay well typed and no taken step becomes open again.
RowsKept ==
  /\ rows' \in [Steps -> OperationRow]
  /\ \A s \in Steps : Taken(rows[s]) => Taken(rows'[s])

\* What every step but the claim, the release, the rejection and the two sends
\* guarantees: it sends nothing, opens nothing, and gives nobody a signature prompt
\* or a release.
Harmless ==
  /\ WellFormed'
  /\ sends' = sends
  /\ RowsKept
  /\ \A q \in Slots : h'[q].pc = "release" => h[q].pc = "release" /\ h'[q].step = h[q].step
  /\ \A t \in Tabs : tab'[t].pc = "signing" =>
                       tab[t].pc = "signing" /\ tab'[t].step = tab[t].step

\* A step without a statement keeps the rows.
LEMMA RowsSame == ASSUME WellFormed, UNCHANGED rows PROVE RowsKept
  BY DEF WellFormed, TypeOK, RowsKept

\* A step that updates one row, and not by a release, keeps the rows.
LEMMA RowUpdate ==
  ASSUME WellFormed, NEW s, NEW v, rows' = [rows EXCEPT ![s] = v],
         s \in Steps => v \in OperationRow /\ (Taken(rows[s]) => Taken(v))
  PROVE  RowsKept
  BY DEF WellFormed, TypeOK, RowsKept

\* The count of faults stays within its bound.
LEMMA FaultType ==
  ASSUME WellFormed, Fault \/ UNCHANGED faults PROVE faults' \in 0 .. MaxFaults
  BY BoundsAssumption DEF WellFormed, TypeOK, Fault

\* A step that replaces the record of slot r by a fine one and leaves the tabs alone.
LEMMA SlotStep ==
  ASSUME WellFormed, NEW r \in Slots, NEW y, Fine(y), Step(r, y), RowsKept,
         parent' \in [status : {"draft", "negotiating", "funded"}, hash : Hashes \cup {NoHash}],
         job' \in Hashes \cup {NoHash}, Fault \/ UNCHANGED faults,
         ChainUnchanged, TabsUnchanged
  PROVE  Harmless
  <1>1. h' = [h EXCEPT ![r] = y] /\ h \in [Slots -> SlotRecord] /\ y \in SlotRecord
    BY DEF Step, WellFormed, TypeOK, Fine
  <1>2. h' \in [Slots -> SlotRecord] BY <1>1
  <1>3. TypeOK'
    BY <1>2, FaultType DEF WellFormed, TypeOK, ChainUnchanged, TabsUnchanged, RowsKept
  <1>4. (\A q \in Slots : SlotOK(h[q]))' BY <1>1 DEF WellFormed, Fine, SlotOK
  <1>5. (\A t \in Tabs : TabOK(tab[t]))' BY DEF WellFormed, TabsUnchanged, TabOK
  <1>6. WellFormed' BY <1>3, <1>4, <1>5 DEF WellFormed
  <1>7. \A q \in Slots : h'[q].pc = "release" => h[q].pc = "release" /\ h'[q].step = h[q].step
    BY <1>1 DEF Fine
  <1>. QED BY <1>6, <1>7 DEF Harmless, ChainUnchanged, TabsUnchanged

\* The same for a step that leaves the parent and the job alone.
LEMMA QuietSlotStep ==
  ASSUME WellFormed, NEW r \in Slots, NEW y, Fine(y), Step(r, y), RowsKept,
         UNCHANGED <<parent, job>>, Fault \/ UNCHANGED faults, ChainUnchanged, TabsUnchanged
  PROVE  Harmless
  <1>1. parent' \in [status : {"draft", "negotiating", "funded"}, hash : Hashes \cup {NoHash}]
    BY DEF WellFormed, TypeOK
  <1>2. job' \in Hashes \cup {NoHash} BY DEF WellFormed, TypeOK
  <1>. QED BY <1>1, <1>2, SlotStep

\* A request is over and its tab, if one waits, gets record w.
LEMMA TabAnswerStep ==
  ASSUME WellFormed, NEW r \in Slots, Step(r, FreeSlot), DbUnchanged, ChainUnchanged,
         Fault \/ UNCHANGED faults, saved' \in [Steps -> Hashes \cup {NoHash}],
         \/ tab' = tab
         \/ \E t \in Tabs, w \in TabRecord :
              TabOK(w) /\ w.pc # "signing" /\ tab' = [tab EXCEPT ![t] = w]
  PROVE  Harmless
  <1>1. h' = [h EXCEPT ![r] = FreeSlot] /\ h \in [Slots -> SlotRecord]
    BY DEF Step, WellFormed, TypeOK
  <1>2. h' \in [Slots -> SlotRecord] BY <1>1, FreeSlotFine DEF Fine
  <1>3. tab' \in [Tabs -> TabRecord] BY DEF WellFormed, TypeOK
  <1>4. TypeOK' BY <1>2, <1>3, FaultType DEF WellFormed, TypeOK, DbUnchanged, ChainUnchanged
  <1>5. (\A q \in Slots : SlotOK(h[q]))' BY <1>1, FreeSlotFine DEF WellFormed, Fine, SlotOK
  <1>6. (\A t \in Tabs : TabOK(tab[t]))' BY DEF WellFormed, TypeOK, TabOK
  <1>7. WellFormed' BY <1>4, <1>5, <1>6 DEF WellFormed
  <1>8. \A q \in Slots : h'[q].pc = "release" => h[q].pc = "release" /\ h'[q].step = h[q].step
    BY <1>1, FreeSlotFine DEF Fine
  <1>9. \A t \in Tabs : tab'[t].pc = "signing" =>
                        tab[t].pc = "signing" /\ tab'[t].step = tab[t].step
    BY DEF WellFormed, TypeOK
  <1>10. RowsKept BY RowsSame DEF DbUnchanged
  <1>. QED BY <1>7, <1>8, <1>9, <1>10 DEF Harmless, ChainUnchanged

\* A step of tab t alone, or with the requests it waits for detached.
LEMMA TabOnlyStep ==
  ASSUME WellFormed, NEW t \in Tabs, NEW w \in TabRecord, TabOK(w), w.pc # "signing",
         tab' = [tab EXCEPT ![t] = w], DbUnchanged, ChainUnchanged, UNCHANGED saved,
         Fault \/ UNCHANGED faults,
         \/ UNCHANGED h
         \/ h' = [r \in Slots |-> IF h[r].tab = t THEN [h[r] EXCEPT !.tab = NoTab] ELSE h[r]]
  PROVE  Harmless
  <1> DEFINE detached(r) == [h[r] EXCEPT !.tab = NoTab]
  <1>0. ASSUME NEW r \in Slots
        PROVE  /\ detached(r) \in SlotRecord /\ detached(r).pc = h[r].pc
               /\ detached(r).step = h[r].step /\ detached(r).hash = h[r].hash
    <2>1. h[r] \in SlotRecord BY DEF WellFormed, TypeOK
    <2>. QED BY <2>1 DEF SlotRecord
  <1> HIDE DEF detached
  <1>h. \/ h' = h
        \/ h' = [r \in Slots |-> IF h[r].tab = t THEN detached(r) ELSE h[r]]
    BY DEF detached
  <1>1. h' \in [Slots -> SlotRecord] BY <1>0, <1>h DEF WellFormed, TypeOK
  <1>2. tab' \in [Tabs -> TabRecord] BY DEF WellFormed, TypeOK
  <1>3. TypeOK' BY <1>1, <1>2, FaultType DEF WellFormed, TypeOK, DbUnchanged, ChainUnchanged
  <1>4. \A r \in Slots : h'[r].pc = h[r].pc /\ h'[r].step = h[r].step /\ h'[r].hash = h[r].hash
    BY <1>0, <1>h
  <1>5. (\A r \in Slots : SlotOK(h[r]))' BY <1>4 DEF WellFormed, SlotOK
  <1>6. (\A u \in Tabs : TabOK(tab[u]))' BY DEF WellFormed, TypeOK, TabOK
  <1>7. WellFormed' BY <1>3, <1>5, <1>6 DEF WellFormed
  <1>8. \A u \in Tabs : tab'[u].pc = "signing" =>
                        tab[u].pc = "signing" /\ tab'[u].step = tab[u].step
    BY DEF WellFormed, TypeOK
  <1>9. RowsKept BY RowsSame DEF DbUnchanged
  <1>. QED BY <1>4, <1>7, <1>8, <1>9 DEF Harmless, ChainUnchanged

\* A fetch of tab t for step s.
LEMMA PostType ==
  ASSUME WellFormed, NEW t \in Tabs, NEW s \in Steps, NEW x \in Hashes \cup {NoHash},
         NEW pc \in {"resolveFund", "claim", "attach", "release"},
         NEW tabPc \in {"claiming", "attaching", "recovering", "loading", "rejecting"},
         tabPc = "loading" => x \in Hashes,
         Post(t, pc, s, x, tabPc), DbUnchanged, ChainUnchanged, UNCHANGED saved,
         Fault \/ UNCHANGED faults
  PROVE  WellFormed' /\ RowsKept /\ sends' = sends
  <1>1. PICK r \in Slots : /\ h[r].pc = "free"
                           /\ h' = [h EXCEPT ![r] = Request(pc, s, x, t)]
                           /\ tab' = [tab EXCEPT ![t] = [pc |-> tabPc, step |-> s, hash |-> x]]
    BY DEF Post
  <1>2. Request(pc, s, x, t) \in SlotRecord /\ SlotOK(Request(pc, s, x, t))
    BY RequestType DEF SlotPc
  <1>3. h' \in [Slots -> SlotRecord] BY <1>1, <1>2 DEF WellFormed, TypeOK
  <1>4. tab' \in [Tabs -> TabRecord] BY <1>1 DEF WellFormed, TypeOK, TabRecord, TabPc
  <1>5. TypeOK' BY <1>3, <1>4, FaultType DEF WellFormed, TypeOK, DbUnchanged, ChainUnchanged
  <1>6. (\A q \in Slots : SlotOK(h[q]))' BY <1>1, <1>2 DEF WellFormed, TypeOK, SlotOK
  <1>7. (\A u \in Tabs : TabOK(tab[u]))' BY <1>1 DEF WellFormed, TypeOK, TabOK
  <1>8. RowsKept BY RowsSame DEF DbUnchanged
  <1>. QED BY <1>5, <1>6, <1>7, <1>8 DEF WellFormed, ChainUnchanged

\* A fetch that is not a release harms nothing.
LEMMA PostHarmless ==
  ASSUME WellFormed, NEW t \in Tabs, NEW s \in Steps, NEW x \in Hashes \cup {NoHash},
         NEW pc \in {"resolveFund", "claim", "attach"},
         NEW tabPc \in {"claiming", "attaching", "recovering", "loading"},
         tabPc = "loading" => x \in Hashes,
         Post(t, pc, s, x, tabPc), DbUnchanged, ChainUnchanged, UNCHANGED saved,
         Fault \/ UNCHANGED faults
  PROVE  Harmless
  <1>1. WellFormed' /\ RowsKept /\ sends' = sends BY PostType
  <1>2. Request(pc, s, x, t).pc = pc BY RequestType DEF SlotPc
  <1>3. \A q \in Slots : h'[q].pc = "release" => h[q].pc = "release" /\ h'[q].step = h[q].step
    BY <1>2 DEF Post, WellFormed, TypeOK
  <1>4. \A u \in Tabs : tab'[u].pc = "signing" =>
                        tab[u].pc = "signing" /\ tab'[u].step = tab[u].step
    BY DEF Post, WellFormed, TypeOK
  <1>. QED BY <1>1, <1>3, <1>4 DEF Harmless

\* The requests nobody's dispatch loop waits for start harmlessly.
LEMMA ArriveHarmless ==
  ASSUME WellFormed, NEW r \in Slots, NEW y, Fine(y), Arrive(r, y),
         Fault \/ UNCHANGED faults
  PROVE  Harmless
  <1>1. RowsKept BY RowsSame DEF Arrive
  <1>. QED BY <1>1, QuietSlotStep DEF Arrive, Step, ChainUnchanged, TabsUnchanged

\* hire, the poll, reconcile and the pasted hash start harmlessly.
LEMMA IncomingHarmless ==
  ASSUME WellFormed, NEW r \in Slots, Incoming(r) PROVE Harmless
  <1>1. 1 \in Steps /\ Watched \subseteq Steps
    BY LastStepAssumption, BoundsAssumption DEF Steps
  <1>2. CASE PrepareHireIntent(r)
    <2> DEFINE y == Request("claimParent", 1, NoHash, NoTab)
    <2>0. "claimParent" \in SlotPc \ {"markSubmitted", "verify", "markReceipt", "persist", "createJob"}
      BY DEF SlotPc
    <2>1. y \in SlotRecord /\ SlotOK(y) /\ y.pc = "claimParent" BY <1>1, <2>0, RequestType
    <2>2. Fine(y) BY <2>1 DEF Fine
    <2>3. Fine(Return(y, 0, FALSE)) BY <2>1, ReturnFine
    <2>. QED BY <1>2, <2>2, <2>3, ArriveHarmless DEF PrepareHireIntent
  <1>3. ASSUME NEW s \in Watched, PollStatus(r, s) \/ ReconcileOperation(r, s) PROVE Harmless
    <2> DEFINE y == Request("attach", s, NoHash, NoTab)
    <2>1. s \in Steps /\ rows[s] \in OperationRow BY <1>1 DEF WellFormed, TypeOK
    <2>2. y \in SlotRecord /\ y.step \in Steps BY <2>1, RequestType DEF SlotPc
    <2>3. Fine(ConfirmEoa(y, rows[s], NoHash)) BY <2>1, <2>2, ConfirmFine
    <2>4. DispatchFor(s, rows[s]) \in Steps \cup {0} /\ Settled(rows[s]) \in BOOLEAN
      BY <2>1 DEF DispatchFor, Settled
    <2>5. Fine(Return(y, DispatchFor(s, rows[s]), Settled(rows[s]))) BY <2>2, <2>4, ReturnFine
    <2>. QED BY <1>3, <2>3, <2>5, ArriveHarmless DEF PollStatus, ReconcileOperation
  <1>4. ASSUME NEW s \in Watched, NEW x \in Hashes, AttachTransactionHash(r, s, x)
        PROVE  Harmless
    <2> DEFINE y == Request("attach", s, x, NoTab)
    <2>1. y \in SlotRecord /\ y.step \in Steps BY <1>1, RequestType DEF SlotPc
    <2>2. Fine(AttachExternalExecution(y)) BY <2>1, AttachFine DEF WellFormed
    <2>. QED BY <1>4, <2>2, ArriveHarmless DEF AttachTransactionHash
  <1>. QED BY <1>2, <1>3, <1>4 DEF Incoming
-----------------------------------------------------------------------------
(* The steps of a request, one lemma per group of handlers. *)

\* What a well-formed state says of one slot.
LEMMA SlotFacts ==
  ASSUME WellFormed, NEW r \in Slots PROVE h[r] \in SlotRecord /\ SlotOK(h[r])
  BY DEF WellFormed, TypeOK

\* The handler of POST /hire and the parent checks of a fund claim.
LEMMA PrepareHarmless ==
  ASSUME WellFormed, NEW r \in Slots,
         ResolveParentHire(r) \/ ClaimParent(r) \/ ReserveHire(r)
  PROVE  Harmless
  <1> DEFINE y == h[r]
  <1>0. y \in SlotRecord /\ SlotOK(y) BY SlotFacts
  <1>1. Fine(Throw(y, "other")) BY <1>0, ThrowFine DEF ErrorCode
  <1>2. CASE ResolveParentHire(r)
    <2>1. y.pc \in {"reresolve", "resolveFund"} BY <1>2 DEF ResolveParentHire
    <2>2. Fine([y EXCEPT !.pc = IF @ = "reresolve" THEN "reserve" ELSE "claim"])
      BY <1>0, <2>1 DEF Fine, SlotRecord, SlotPc, SlotOK
    <2>3. RowsKept BY <1>2, RowsSame DEF ResolveParentHire, DbUnchanged
    <2>. QED
      BY <1>1, <1>2, <2>2, <2>3, QuietSlotStep DEF ResolveParentHire, DbUnchanged, FaultUnless
  <1>3. CASE ClaimParent(r)
    <2>1. y.pc = "claimParent" BY <1>3 DEF ClaimParent
    <2>2. Fine([y EXCEPT !.pc = "reresolve"])
      BY <1>0, <2>1 DEF Fine, SlotRecord, SlotPc, SlotOK
    <2>3. RowsKept BY <1>3, RowsSame DEF ClaimParent
    <2>4. parent' \in [status : {"draft", "negotiating", "funded"}, hash : Hashes \cup {NoHash}]
      BY <1>3 DEF ClaimParent, WellFormed, TypeOK
    <2>5. job' \in Hashes \cup {NoHash} BY <1>3 DEF ClaimParent, WellFormed, TypeOK
    <2>. QED BY <1>1, <1>3, <2>2, <2>3, <2>4, <2>5, SlotStep DEF ClaimParent, FaultUnless
  <1>4. CASE ReserveHire(r)
    <2>1. 1 \in Steps BY LastStepAssumption DEF Steps
    <2>2. rows[1] \in OperationRow BY <2>1 DEF WellFormed, TypeOK
    <2>3. Reserve(rows[1], FALSE) \in OperationRow BY <2>2 DEF Reserve, OperationRow,
            OperationStatus, FailureCode, AbsentRow
    <2>4. Taken(rows[1]) => Taken(Reserve(rows[1], FALSE)) BY DEF Taken, Present, Reserve
    <2>5. rows' = [rows EXCEPT ![1] = Reserve(rows[1], FALSE)] BY <1>4 DEF ReserveHire
    <2>6. RowsKept BY <2>3, <2>4, <2>5, RowUpdate
    <2>7. DispatchFor(1, rows'[1]) \in Steps \cup {0} BY <2>1 DEF DispatchFor
    <2>8. Fine(Return(y, DispatchFor(1, rows'[1]), FALSE)) BY <1>0, <2>7, ReturnFine
    <2>. QED BY <1>1, <1>4, <2>6, <2>8, QuietSlotStep DEF ReserveHire, Quiet
  <1>. QED BY <1>2, <1>3, <1>4

\* confirmEoa from the attach to the recorded receipt.
LEMMA ConfirmHarmless ==
  ASSUME WellFormed, NEW r \in Slots,
         \/ AttachPosted(r) \/ MarkUnknownStep(r) \/ MarkSubmittedStep(r)
         \/ \E outcome \in {"ok"} \cup ErrorCode : VerifyEoaReceipt(r, outcome)
         \/ MarkConfirmed(r) \/ AttachCreatedJobId(r)
  PROVE  Harmless
  <1> DEFINE y == h[r]  row == rows[h[r].step]
  <1>0. y \in SlotRecord /\ SlotOK(y) BY SlotFacts
  <1>1. Fine(Throw(y, "other")) BY <1>0, ThrowFine DEF ErrorCode
  <1>2. CASE AttachPosted(r)
    <2>1. y.step \in Steps BY <1>0, <1>2 DEF AttachPosted, SlotOK
    <2>2. Fine(AttachExternalExecution(y)) BY <1>0, <2>1, AttachFine DEF WellFormed
    <2>3. RowsKept BY <1>2, RowsSame DEF AttachPosted, DbUnchanged
    <2>. QED BY <1>2, <2>2, <2>3, QuietSlotStep DEF AttachPosted, DbUnchanged, Quiet
  <1>3. CASE MarkUnknownStep(r)
    <2>1. y.step \in Steps BY <1>0, <1>3 DEF MarkUnknownStep, SlotOK
    <2>2. row \in OperationRow BY <2>1 DEF WellFormed, TypeOK
    <2>3. rows' = [rows EXCEPT ![y.step] = MarkUnknown(row)] BY <1>3 DEF MarkUnknownStep
    <2>4. MarkUnknown(row) \in OperationRow /\ (Taken(row) => Taken(MarkUnknown(row)))
      BY <2>2 DEF MarkUnknown, OperationRow, OperationStatus, FailureCode, Taken
    <2>5. RowsKept BY <2>3, <2>4, RowUpdate
    <2>6. Fine(Return(y, 0, FALSE)) BY <1>0, ReturnFine
    <2>. QED BY <1>1, <1>3, <2>5, <2>6, QuietSlotStep DEF MarkUnknownStep, Quiet
  <1>4. CASE MarkSubmittedStep(r)
    <2>1. y.step \in Steps /\ y.hash \in Hashes BY <1>0, <1>4 DEF MarkSubmittedStep, SlotOK
    <2>2. row \in OperationRow BY <2>1 DEF WellFormed, TypeOK
    <2>3. rows' = [rows EXCEPT ![y.step] = MarkSubmitted(row, y.hash)]
      BY <1>4 DEF MarkSubmittedStep
    <2>4. /\ MarkSubmitted(row, y.hash) \in OperationRow
          /\ Taken(row) => Taken(MarkSubmitted(row, y.hash))
      BY <2>1, <2>2 DEF MarkSubmitted, OperationRow, OperationStatus, FailureCode, Taken
    <2>5. RowsKept BY <2>3, <2>4, RowUpdate
    <2>6. rows'[y.step] \in OperationRow BY <2>1, <2>5 DEF RowsKept
    <2>7. y.op.status \in OperationStatus BY <1>0 DEF SlotRecord, Snapshot
    <2>8. Fine(EnterTry(y, rows'[y.step], y.op.status, y.hash))
      BY <1>0, <2>1, <2>6, <2>7, EnterTryFine
    <2>. QED BY <1>1, <1>4, <2>5, <2>8, QuietSlotStep DEF MarkSubmittedStep, Quiet
  <1>5. ASSUME NEW outcome \in {"ok"} \cup ErrorCode, VerifyEoaReceipt(r, outcome)
        PROVE  Harmless
    <2>1. y.pc = "verify" /\ y.step \in Steps /\ y.hash \in Hashes
      BY <1>0, <1>5 DEF VerifyEoaReceipt, SlotOK
    <2>2. outcome # "ok" => Fine(Throw(y, outcome)) BY <1>0, ThrowFine
    <2>3. Fine(AfterReceipt(y, y.op)) BY <1>0, <2>1, AfterReceiptFine
    <2>4. Fine([y EXCEPT !.pc = "markReceipt"])
      BY <1>0, <2>1 DEF Fine, SlotRecord, SlotPc, SlotOK
    <2>5. RowsKept BY <1>5, RowsSame DEF VerifyEoaReceipt, DbUnchanged
    <2>6. UNCHANGED <<parent, job>> /\ ChainUnchanged /\ TabsUnchanged
          /\ (Fault \/ UNCHANGED faults)
      BY <1>5 DEF VerifyEoaReceipt, DbUnchanged, FaultUnless
    <2>7. PICK z : Fine(z) /\ Step(r, z)
      BY <1>5, <2>2, <2>3, <2>4 DEF VerifyEoaReceipt
    <2>. QED BY <2>5, <2>6, <2>7, QuietSlotStep
  <1>6. CASE MarkConfirmed(r)
    <2>1. y.step \in Steps /\ y.hash \in Hashes BY <1>0, <1>6 DEF MarkConfirmed, SlotOK
    <2>2. row \in OperationRow BY <2>1 DEF WellFormed, TypeOK
    <2>3. rows' = [rows EXCEPT ![y.step] = MarkReceipt(row, "confirmed", y.hash, 0)]
      BY <1>6 DEF MarkConfirmed
    <2>4. /\ MarkReceipt(row, "confirmed", y.hash, 0) \in OperationRow
          /\ Taken(row) => Taken(MarkReceipt(row, "confirmed", y.hash, 0))
      BY <2>1, <2>2 DEF MarkReceipt, OperationRow, OperationStatus, FailureCode, Taken
    <2>5. RowsKept BY <2>3, <2>4, RowUpdate
    <2>6. Fine(AfterReceipt(y, rows'[y.step])) BY <1>0, <2>1, AfterReceiptFine
    <2>. QED BY <1>1, <1>6, <2>5, <2>6, QuietSlotStep DEF MarkConfirmed, Quiet
  <1>7. CASE AttachCreatedJobId(r)
    <2>1. y.pc = "attachJobId" BY <1>7 DEF AttachCreatedJobId
    <2>2. 1 \in Steps BY LastStepAssumption DEF Steps
    <2>3. rows[1] \in OperationRow BY <2>2 DEF WellFormed, TypeOK
    <2>4. AttachJobId(rows[1]) \in OperationRow /\ (Taken(rows[1]) => Taken(AttachJobId(rows[1])))
      BY <2>3 DEF AttachJobId, OperationRow, Taken
    <2>5. rows' = [rows EXCEPT ![1] = AttachJobId(rows[1])] BY <1>7 DEF AttachCreatedJobId
    <2>6. RowsKept BY <2>4, <2>5, RowUpdate
    <2>7. Fine([y EXCEPT !.pc = "advance"]) BY <1>0, <2>1 DEF Fine, SlotRecord, SlotPc, SlotOK
    <2>. QED BY <1>7, <2>6, <2>7, QuietSlotStep DEF AttachCreatedJobId, Quiet
  <1>. QED BY <1>2, <1>3, <1>4, <1>5, <1>6, <1>7

\* The job ID, the funded projection and advanceEoa.
LEMMA ProjectHarmless ==
  ASSUME WellFormed, NEW r \in Slots,
         PersistEoaFunding(r) \/ CreateJob(r) \/ AdvanceEoa(r)
  PROVE  Harmless
  <1> DEFINE y == h[r]
  <1>0. y \in SlotRecord /\ SlotOK(y) BY SlotFacts
  <1>1. Fine(Throw(y, "other")) BY <1>0, ThrowFine DEF ErrorCode
  <1>2. CASE PersistEoaFunding(r)
    <2>1. y.pc = "persist" /\ y.step \in Steps BY <1>0, <1>2 DEF PersistEoaFunding, SlotOK
    <2>2. Fine([y EXCEPT !.pc = "createJob"])
      BY <1>0, <2>1 DEF Fine, SlotRecord, SlotPc, SlotOK
    <2>3. Fine(Advance(y)) BY <1>0, <2>1, AdvanceFine
    <2>4. RowsKept BY <1>2, RowsSame DEF PersistEoaFunding, DbUnchanged
    <2>. QED BY <1>2, <2>2, <2>3, <2>4, QuietSlotStep DEF PersistEoaFunding, DbUnchanged, Quiet
  <1>3. CASE CreateJob(r)
    <2>1. y.step \in Steps /\ y.hash \in Hashes BY <1>0, <1>3 DEF CreateJob, SlotOK
    <2>2. Fine(Advance(y)) BY <1>0, <2>1, AdvanceFine
    <2>3. RowsKept BY <1>3, RowsSame DEF CreateJob
    <2>4. parent' \in [status : {"draft", "negotiating", "funded"}, hash : Hashes \cup {NoHash}]
      BY <1>3, <2>1 DEF CreateJob, WellFormed, TypeOK
    <2>5. job' \in Hashes \cup {NoHash} BY <1>3, <2>1 DEF CreateJob, WellFormed, TypeOK
    <2>. QED BY <1>1, <1>3, <2>2, <2>3, <2>4, <2>5, SlotStep DEF CreateJob, Quiet
  <1>4. CASE AdvanceEoa(r)
    <2>1. y.pc = "advance" /\ y.step \in Steps BY <1>0, <1>4 DEF AdvanceEoa, SlotOK
    <2>2. CASE y.step = LastStep
      <3>0. ~(y.step < LastStep) BY <2>2, LastStepAssumption
      <3>1. Step(r, Return(y, 0, TRUE)) /\ UNCHANGED rows
        BY <1>4, <3>0, Zenon DEF AdvanceEoa
      <3>2. Fine(Return(y, 0, TRUE)) BY <1>0, ReturnFine
      <3>. QED BY <1>4, <3>1, <3>2, RowsSame, QuietSlotStep DEF AdvanceEoa, Quiet
    <2>3. CASE y.step # LastStep
      <3> DEFINE n == y.step + 1  next == [y EXCEPT !.step = n]
      <3>1. n \in Steps BY <2>1, <2>3, LastStepAssumption DEF Steps
      <3>2. next \in SlotRecord /\ next.step = n /\ next.pc = "advance"
        BY <1>0, <2>1, <3>1 DEF SlotRecord
      <3>3. rows[n] \in OperationRow BY <3>1 DEF WellFormed, TypeOK
      <3>4. rows' = [rows EXCEPT ![n] = Reserve(rows[n], TRUE)] BY <1>4, <2>3 DEF AdvanceEoa
      <3>5. Reserve(rows[n], TRUE) \in OperationRow
        BY <3>3 DEF Reserve, OperationRow, OperationStatus, FailureCode, AbsentRow
      <3>6. Taken(rows[n]) => Taken(Reserve(rows[n], TRUE)) BY DEF Taken, Present, Reserve
      <3>7. RowsKept BY <3>4, <3>5, <3>6, RowUpdate
      <3>8. rows'[n] \in OperationRow BY <3>1, <3>7 DEF RowsKept
      <3>9. Fine(ConfirmEoa(next, rows'[n], NoHash)) BY <3>1, <3>2, <3>8, ConfirmFine
      <3>10. Fine(next) BY <3>1, <3>2 DEF Fine, SlotOK
      <3>11. DispatchFor(n, rows'[n]) \in Steps \cup {0} /\ Settled(rows'[n]) \in BOOLEAN
        BY <3>1 DEF DispatchFor, Settled
      <3>12. Fine(Return(next, DispatchFor(n, rows'[n]), Settled(rows'[n])))
        BY <3>2, <3>11, ReturnFine
      <3>13. PICK z : Fine(z) /\ Step(r, z)
        BY <1>4, <2>3, <3>9, <3>10, <3>12 DEF AdvanceEoa
      <3>14. UNCHANGED <<parent, job>> /\ ChainUnchanged /\ TabsUnchanged /\ UNCHANGED faults
        BY <1>4 DEF AdvanceEoa, Quiet
      <3>. QED BY <3>7, <3>13, <3>14, QuietSlotStep
    <2>. QED BY <2>2, <2>3
  <1>. QED BY <1>2, <1>3, <1>4

\* The catch block of confirmEoa.
LEMMA CatchHarmless ==
  ASSUME WellFormed, NEW r \in Slots,
         CatchKeeping(r) \/ CatchUnknown(r) \/ CatchReverted(r) \/ CatchReview(r)
  PROVE  Harmless
  <1> DEFINE y == h[r]  f == Last(h[r].frames)  row == rows[f.step]
  <1>0. y \in SlotRecord BY SlotFacts
  <1>1. y.frames # <<>>
    BY DEF CatchKeeping, CatchUnknown, CatchReverted, CatchReview, Catching
  <1>2. Pop(y) \in SlotRecord /\ f \in Frame BY <1>0, <1>1, PopType
  <1>3. f.step \in Steps /\ f.hash \in Hashes BY <1>2 DEF Frame
  <1>4. row \in OperationRow BY <1>3 DEF WellFormed, TypeOK
  <1>5. \A code \in ErrorCode : Fine(Throw(Pop(y), code)) BY <1>2, ThrowFine
  <1>6. \A b \in BOOLEAN : Fine(Return(Pop(y), 0, b)) BY <1>2, ReturnFine
  <1>7. "other" \in ErrorCode /\ y.err \in ErrorCode /\ ReadFailure \subseteq ErrorCode
    BY <1>0 DEF ErrorCode, SlotRecord, ReadFailure
  <1>8. CASE CatchKeeping(r)
    <2>1. RowsKept BY <1>8, RowsSame DEF CatchKeeping, DbUnchanged
    <2>. QED BY <1>6, <1>8, <2>1, QuietSlotStep DEF CatchKeeping, DbUnchanged, Quiet
  <1>9. CASE CatchUnknown(r)
    <2>1. rows' = [rows EXCEPT ![f.step] = MarkUnknown(row)] BY <1>9 DEF CatchUnknown
    <2>2. MarkUnknown(row) \in OperationRow /\ (Taken(row) => Taken(MarkUnknown(row)))
      BY <1>4 DEF MarkUnknown, OperationRow, OperationStatus, FailureCode, Taken
    <2>3. RowsKept BY <2>1, <2>2, RowUpdate
    <2>4. PICK z : Fine(z) /\ Step(r, z) BY <1>5, <1>6, <1>7, <1>9 DEF CatchUnknown
    <2>. QED BY <1>9, <2>3, <2>4, QuietSlotStep DEF CatchUnknown, Quiet
  <1>10. CASE CatchReverted(r)
    <2>1. MarkReceipt(row, "reverted", f.hash, 0) \in OperationRow
          /\ (Taken(row) => Taken(MarkReceipt(row, "reverted", f.hash, 0)))
      BY <1>3, <1>4 DEF MarkReceipt, OperationRow, OperationStatus, FailureCode, Taken
    <2>2. UNCHANGED rows \/ rows' = [rows EXCEPT ![f.step] = MarkReceipt(row, "reverted", f.hash, 0)]
      BY <1>10 DEF CatchReverted
    <2>3. RowsKept BY <2>1, <2>2, RowUpdate, RowsSame
    <2>4. PICK z : Fine(z) /\ Step(r, z) BY <1>5, <1>6, <1>7, <1>10 DEF CatchReverted
    <2>5. Fault \/ UNCHANGED faults BY <1>10 DEF CatchReverted
    <2>. QED BY <1>10, <2>3, <2>4, <2>5, QuietSlotStep DEF CatchReverted
  <1>11. CASE CatchReview(r)
    <2>1. MarkManualReview(row) \in OperationRow /\ (Taken(row) => Taken(MarkManualReview(row)))
      BY <1>4 DEF MarkManualReview, OperationRow, OperationStatus, FailureCode, Taken
    <2>2. rows' = [rows EXCEPT ![f.step] = MarkManualReview(row)] BY <1>11 DEF CatchReview
    <2>3. RowsKept BY <2>1, <2>2, RowUpdate
    <2>4. PICK z : Fine(z) /\ Step(r, z) BY <1>5, <1>7, <1>11 DEF CatchReview
    <2>. QED BY <1>11, <2>3, <2>4, QuietSlotStep DEF CatchReview, FaultUnless
  <1>. QED BY <1>8, <1>9, <1>10, <1>11

\* The ends of a request: the response, an error, a failed read, a dead process.
LEMMA EndHarmless ==
  ASSUME WellFormed, NEW r \in Slots,
         Uncaught(r) \/ Reply(r) \/ ReplyReadFails(r) \/ HandlerDies(r)
  PROVE  Harmless
  <1> DEFINE y == h[r]  w == tab[h[r].tab]
  <1>0. y \in SlotRecord /\ SlotOK(y) BY SlotFacts
  <1>1. y.tab # NoTab => y.tab \in Tabs /\ w \in TabRecord /\ TabOK(w)
    BY <1>0 DEF SlotRecord, WellFormed, TypeOK
  <1>2. ASSUME AnswerError(r)
        PROVE  \/ tab' = tab
               \/ \E t \in Tabs, v \in TabRecord :
                    TabOK(v) /\ v.pc # "signing" /\ tab' = [tab EXCEPT ![t] = v]
    BY <1>0, <1>1, <1>2, TabMoves DEF AnswerError
  <1>3. CASE Uncaught(r) \/ HandlerDies(r)
    <2>1. saved' \in [Steps -> Hashes \cup {NoHash}]
      BY <1>3 DEF Uncaught, HandlerDies, WellFormed, TypeOK
    <2>2. /\ Step(r, FreeSlot) /\ DbUnchanged /\ ChainUnchanged /\ AnswerError(r)
          /\ Fault \/ UNCHANGED faults
      BY <1>3 DEF Uncaught, HandlerDies, Quiet
    <2>. QED BY <1>2, <2>1, <2>2, TabAnswerStep
  <1>4. CASE Reply(r)
    <2>1. /\ Step(r, FreeSlot) /\ DbUnchanged /\ ChainUnchanged /\ Answer(r)
          /\ UNCHANGED faults
      BY <1>4 DEF Reply, Quiet
    <2>2. CASE y.tab = NoTab
      <3>1. saved' \in [Steps -> Hashes \cup {NoHash}] /\ tab' = tab
        BY <2>1, <2>2 DEF Answer, WellFormed, TypeOK
      <3>. QED BY <2>1, <3>1, TabAnswerStep
    <2>3. CASE y.tab # NoTab
      <3>1. saved' \in [Steps -> Hashes \cup {NoHash}]
        BY <2>1, <2>3 DEF Answer, WellFormed, TypeOK
      <3>2. tab' = [tab EXCEPT ![y.tab] = TabAnswered(w, y)] BY <2>1, <2>3 DEF Answer
      <3>3. TabAnswered(w, y) \in TabRecord /\ TabOK(TabAnswered(w, y))
            /\ TabAnswered(w, y).pc # "signing"
        BY <1>0, <1>1, <2>3, TabMoves
      <3>4. \E t \in Tabs, v \in TabRecord :
              TabOK(v) /\ v.pc # "signing" /\ tab' = [tab EXCEPT ![t] = v]
        BY <1>1, <2>3, <3>2, <3>3
      <3>. QED BY <2>1, <3>1, <3>4, TabAnswerStep
    <2>. QED BY <2>2, <2>3
  <1>5. CASE ReplyReadFails(r)
    <2>1. Fine(Throw(y, "other")) BY <1>0, ThrowFine DEF ErrorCode
    <2>2. RowsKept BY <1>5, RowsSame DEF ReplyReadFails, DbUnchanged
    <2>. QED BY <1>5, <2>1, <2>2, QuietSlotStep DEF ReplyReadFails, DbUnchanged
  <1>. QED BY <1>3, <1>4, <1>5
-----------------------------------------------------------------------------
(* The steps of a tab, and mining. *)

\* What a well-formed state says of one tab.
LEMMA TabFacts ==
  ASSUME WellFormed, NEW t \in Tabs
  PROVE  tab[t] \in TabRecord /\ TabOK(tab[t]) /\ tab[t].hash \in Hashes \cup {NoHash}
  BY DEF WellFormed, TypeOK, TabRecord

\* The fetches of dispatchBrowser and loadOperation, the release apart.
LEMMA FetchHarmless ==
  ASSUME WellFormed, NEW t \in Tabs,
         \/ \E s \in Steps : DispatchBrowser(t, s) \/ LoadOperation(t, s)
         \/ ContinueDispatch(t) \/ AttachHash(t) \/ Recover(t)
  PROVE  Harmless
  <1>0. tab[t] \in TabRecord /\ TabOK(tab[t]) /\ tab[t].hash \in Hashes \cup {NoHash}
    BY TabFacts
  <1>1. ASSUME NEW s \in Steps, DispatchBrowser(t, s) PROVE Harmless
    <2> DEFINE pc == IF s = LastStep THEN "resolveFund" ELSE "claim"
    <2>1. pc \in {"resolveFund", "claim", "attach"} OBVIOUS
    <2>2. Post(t, pc, s, NoHash, "claiming") BY <1>1 DEF DispatchBrowser
    <2> HIDE DEF pc
    <2>. QED BY <1>1, <2>1, <2>2, PostHarmless DEF DispatchBrowser, Quiet
  <1>2. ASSUME NEW s \in Steps, LoadOperation(t, s) PROVE Harmless
    <2>1. saved[s] \in Hashes BY <1>2 DEF LoadOperation, WellFormed, TypeOK
    <2>. QED BY <1>2, <2>1, PostHarmless DEF LoadOperation, Quiet
  <1>3. CASE ContinueDispatch(t)
    <2> DEFINE s == tab[t].step
               pc == IF tab[t].step = LastStep THEN "resolveFund" ELSE "claim"
    <2>1. pc \in {"resolveFund", "claim", "attach"} OBVIOUS
    <2>2. s \in Steps BY <1>0, <1>3 DEF ContinueDispatch, TabOK
    <2>3. Post(t, pc, s, NoHash, "claiming") BY <1>3 DEF ContinueDispatch
    <2> HIDE DEF pc, s
    <2>. QED BY <1>3, <2>1, <2>2, <2>3, PostHarmless DEF ContinueDispatch, Quiet
  <1>4. CASE AttachHash(t)
    <2>1. tab[t].step \in Steps BY <1>0, <1>4 DEF AttachHash, TabOK
    <2>. QED BY <1>0, <1>4, <2>1, PostHarmless DEF AttachHash, Quiet
  <1>5. CASE Recover(t)
    <2>1. tab[t].step \in Steps BY <1>0, <1>5 DEF Recover, TabOK
    <2>. QED BY <1>0, <1>5, <2>1, PostHarmless DEF Recover, Quiet
  <1>. QED BY <1>1, <1>2, <1>3, <1>4, <1>5

\* What may go wrong in a tab, the rejection apart.
LEMMA TabFailureHarmless ==
  ASSUME WellFormed, NEW t \in Tabs,
         WalletFails(t) \/ WaitFails(t) \/ ResponseLost(t) \/ CloseTab(t)
  PROVE  Harmless
  <1>0. tab[t] \in TabRecord /\ TabOK(tab[t]) BY TabFacts
  <1>1. CASE WalletFails(t) \/ WaitFails(t)
    <2> DEFINE w == [tab[t] EXCEPT !.pc = "recover"]
    <2>1. tab[t].pc \in {"next", "signing", "sent"} BY <1>1 DEF WalletFails, WaitFails
    <2>2. w \in TabRecord /\ w.pc = "recover" /\ w.step \in Steps
      BY <1>0, <2>1 DEF TabRecord, TabPc, TabOK
    <2>3. TabOK(w) BY <2>2 DEF TabOK
    <2>4. tab' = [tab EXCEPT ![t] = w] BY <1>1 DEF WalletFails, WaitFails
    <2> HIDE DEF w
    <2>5. w.pc # "signing" BY <2>2
    <2>6. DbUnchanged /\ ChainUnchanged /\ UNCHANGED saved /\ Fault /\ UNCHANGED h
      BY <1>1 DEF WalletFails, WaitFails
    <2>. QED BY <2>2, <2>3, <2>4, <2>5, <2>6, TabOnlyStep
  <1>2. CASE ResponseLost(t)
    <2>1. TabFailed(tab[t]) \in TabRecord /\ TabOK(TabFailed(tab[t]))
          /\ TabFailed(tab[t]).pc # "signing"
      BY <1>0, FreeSlotFine, TabMoves DEF Fine
    <2>2. tab' = [tab EXCEPT ![t] = TabFailed(tab[t])] BY <1>2 DEF ResponseLost
    <2>. QED BY <1>2, <2>1, <2>2, TabOnlyStep DEF ResponseLost
  <1>3. CASE CloseTab(t)
    <2>1. IdleTab \in TabRecord /\ TabOK(IdleTab) /\ IdleTab.pc # "signing"
      BY DEF IdleTab, TabRecord, TabPc, TabOK
    <2>. QED BY <1>3, <2>1, TabOnlyStep DEF CloseTab
  <1>. QED BY <1>1, <1>2, <1>3

\* A block of the chain.
LEMMA MineHarmless ==
  ASSUME WellFormed, NEW x \in Hashes, NEW outcome \in {"success", "reverted"},
         Mine(x, outcome)
  PROVE  Harmless
  <1>1. chain' \in [Hashes -> [step : Steps \cup {0}, outcome : Outcome]]
    BY DEF Mine, WellFormed, TypeOK, Outcome
  <1>2. faults' \in 0 .. MaxFaults BY FaultType DEF Mine, FaultUnless
  <1>3. TypeOK' BY <1>1, <1>2 DEF Mine, WellFormed, TypeOK
  <1>4. WellFormed' BY <1>3 DEF Mine, WellFormed, SlotOK, TabOK
  <1>5. RowsKept BY RowsSame DEF Mine
  <1>. QED BY <1>4, <1>5 DEF Mine, Harmless

\* Nothing happens.
LEMMA StutterHarmless == ASSUME WellFormed, UNCHANGED vars PROVE Harmless
  <1>1. TypeOK' BY DEF WellFormed, TypeOK, vars
  <1>2. WellFormed' BY <1>1 DEF WellFormed, SlotOK, TabOK, vars
  <1>3. RowsKept BY RowsSame DEF vars
  <1>. QED BY <1>2, <1>3 DEF Harmless, vars

\* Every step is harmless but the claim and its release, and what the wallet does
\* with a prompt: reject it, or send with or without telling the page the hash.
LEMMA OnlyFiveMatter ==
  ASSUME WellFormed, [Next]_vars
  PROVE  \/ Harmless
         \/ \E r \in Slots : ClaimDispatch(r) \/ ReleaseDispatch(r)
         \/ \E t \in Tabs : RejectSignature(t) \/ SendTransaction(t) \/ SendLosesHash(t)
  <1>1. ASSUME NEW r \in Slots, HandlerStep(r)
        PROVE  Harmless \/ ClaimDispatch(r) \/ ReleaseDispatch(r)
    BY <1>1, PrepareHarmless, ConfirmHarmless, ProjectHarmless, CatchHarmless, EndHarmless
    DEF HandlerStep
  <1>2. ASSUME NEW r \in Slots, HandlerDies(r) \/ Incoming(r) PROVE Harmless
    BY <1>2, EndHarmless, IncomingHarmless
  <1>3. ASSUME NEW t \in Tabs, TabStep(t)
        PROVE  Harmless \/ RejectSignature(t) \/ SendTransaction(t) \/ SendLosesHash(t)
    BY <1>3, FetchHarmless, TabFailureHarmless DEF TabStep
  <1>. QED BY <1>1, <1>2, <1>3, MineHarmless, StutterHarmless DEF Next

\* The five remaining steps keep the types too.
LEMMA ClaimWellFormed ==
  ASSUME WellFormed, NEW r \in Slots, ClaimDispatch(r) PROVE WellFormed'
  <1> DEFINE y == h[r]  row == rows[h[r].step]
  <1>0. y \in SlotRecord /\ SlotOK(y) BY SlotFacts
  <1>1. y.step \in Steps /\ y.tab \in Tabs \cup {NoTab}
    BY <1>0 DEF ClaimDispatch, SlotOK, SlotRecord
  <1>2. row \in OperationRow BY <1>1 DEF WellFormed, TypeOK
  <1>3. ClaimExternalDispatch(row) \in OperationRow
    BY <1>2 DEF ClaimExternalDispatch, OperationRow, OperationStatus, FailureCode
  <1>4. rows' \in [Steps -> OperationRow]
    BY <1>3 DEF ClaimDispatch, WellFormed, TypeOK
  <1>5. h' = [h EXCEPT ![r] = FreeSlot] BY DEF ClaimDispatch, Step
  <1>6. h' \in [Slots -> SlotRecord] BY <1>5, FreeSlotFine DEF Fine, WellFormed, TypeOK
  <1>7. (\A q \in Slots : SlotOK(h[q]))'
    BY <1>5, FreeSlotFine DEF WellFormed, TypeOK, Fine, SlotOK
  <1>8. tab' \in [Tabs -> TabRecord] /\ (\A t \in Tabs : TabOK(tab[t]))'
    <2> DEFINE v == IF CanClaim(row) THEN [pc |-> "signing", step |-> y.step, hash |-> NoHash]
                    ELSE TabFailed(tab[y.tab])
    <2>1. CASE y.tab = NoTab
      BY <2>1 DEF ClaimDispatch, WellFormed, TypeOK, TabOK
    <2>2. CASE y.tab \in Tabs
      <3>1. tab[y.tab] \in TabRecord /\ TabOK(tab[y.tab]) BY <2>2, TabFacts
      <3>2. TabFailed(tab[y.tab]) \in TabRecord /\ TabOK(TabFailed(tab[y.tab]))
        BY <1>0, <3>1, TabMoves
      <3>3. v \in TabRecord /\ TabOK(v) BY <1>1, <3>2 DEF TabRecord, TabPc, TabOK
      <3>4. tab' = [tab EXCEPT ![y.tab] = v] BY <2>2, TabsAssumption DEF ClaimDispatch
      <3> HIDE DEF v
      <3>. QED BY <2>2, <3>3, <3>4 DEF WellFormed, TypeOK, TabOK
    <2>. QED BY <1>1, <2>1, <2>2
  <1>9. TypeOK'
    BY <1>4, <1>6, <1>8 DEF ClaimDispatch, Quiet, ChainUnchanged, WellFormed, TypeOK
  <1>. QED BY <1>7, <1>8, <1>9 DEF WellFormed

\* releaseExternalDispatch.
LEMMA ReleaseWellFormed ==
  ASSUME WellFormed, NEW r \in Slots, ReleaseDispatch(r) PROVE WellFormed'
  <1> DEFINE y == h[r]  row == rows[h[r].step]
  <1>0. y \in SlotRecord /\ SlotOK(y) BY SlotFacts
  <1>1. y.step \in Steps BY <1>0 DEF ReleaseDispatch, SlotOK
  <1>2. row \in OperationRow BY <1>1 DEF WellFormed, TypeOK
  <1>3. ReleaseExternalDispatch(row) \in OperationRow
    BY <1>2 DEF ReleaseExternalDispatch, OperationRow, OperationStatus, FailureCode
  <1>4. rows' \in [Steps -> OperationRow]
    BY <1>3 DEF ReleaseDispatch, WellFormed, TypeOK
  <1>5. Fine(Return(y, 0, FALSE)) BY <1>0, ReturnFine
  <1>6. h' = [h EXCEPT ![r] = Return(y, 0, FALSE)] BY DEF ReleaseDispatch, Step
  <1>7. h' \in [Slots -> SlotRecord] BY <1>5, <1>6 DEF Fine, WellFormed, TypeOK
  <1>8. (\A q \in Slots : SlotOK(h[q]))' BY <1>5, <1>6 DEF WellFormed, TypeOK, Fine, SlotOK
  <1>9. TypeOK'
    BY <1>4, <1>7 DEF ReleaseDispatch, Quiet, ChainUnchanged, TabsUnchanged, WellFormed, TypeOK
  <1>. QED BY <1>8, <1>9 DEF ReleaseDispatch, TabsUnchanged, WellFormed, TabOK

\* The rejection of a prompt posts a well-formed release.
LEMMA RejectWellFormed ==
  ASSUME WellFormed, NEW t \in Tabs, RejectSignature(t)
  PROVE  WellFormed' /\ RowsKept /\ sends' = sends
  <1>1. tab[t].step \in Steps BY TabFacts DEF RejectSignature, TabOK
  <1>. QED BY <1>1, PostType DEF RejectSignature

\* A send adds one to its step and ends the prompt of its tab.
LEMMA SendEffect ==
  ASSUME WellFormed, NEW t \in Tabs, SendTransaction(t) \/ SendLosesHash(t)
  PROVE  /\ WellFormed'
         /\ tab[t].pc = "signing" /\ tab[t].step \in Steps
         /\ sends' = [sends EXCEPT ![tab[t].step] = @ + 1]
         /\ tab'[t].pc # "signing" /\ \A u \in Tabs \ {t} : tab'[u] = tab[u]
         /\ UNCHANGED <<rows, h>>
  <1>0. tab[t] \in TabRecord /\ TabOK(tab[t]) BY TabFacts
  <1>1. tab[t].pc = "signing" BY DEF SendTransaction, SendLosesHash
  <1>2. tab[t].step \in Steps BY <1>0, <1>1 DEF TabOK
  <1>3. Broadcast(tab[t].step) /\ UNCHANGED h /\ DbUnchanged /\ (Fault \/ UNCHANGED faults)
    BY DEF SendTransaction, SendLosesHash
  <1>4. FreshHash \in Hashes BY <1>3 DEF Broadcast, FreshHash
  <1>5. chain' \in [Hashes -> [step : Steps \cup {0}, outcome : Outcome]]
    BY <1>2, <1>3, <1>4 DEF Broadcast, WellFormed, TypeOK, Outcome
  <1>6. sends' = [sends EXCEPT ![tab[t].step] = @ + 1] BY <1>3 DEF Broadcast
  <1>7. sends' \in [Steps -> Nat] BY <1>2, <1>6 DEF WellFormed, TypeOK
  <1>8. saved' \in [Steps -> Hashes \cup {NoHash}]
    BY <1>4 DEF SendTransaction, SendLosesHash, WellFormed, TypeOK
  <1>9. PICK w \in TabRecord : TabOK(w) /\ w.pc # "signing" /\ tab' = [tab EXCEPT ![t] = w]
    <2>1. CASE SendTransaction(t)
      <3> DEFINE w == [tab[t] EXCEPT !.pc = "sent", !.hash = FreshHash]
      <3>1. tab' = [tab EXCEPT ![t] = w] BY <2>1 DEF SendTransaction, WellFormed, TypeOK
      <3>2. w \in TabRecord /\ w.pc = "sent" /\ w.step \in Steps
        BY <1>0, <1>2, <1>4 DEF TabRecord, TabPc
      <3>3. TabOK(w) BY <3>2 DEF TabOK
      <3>. QED BY <3>1, <3>2, <3>3
    <2>2. CASE SendLosesHash(t)
      <3> DEFINE w == [tab[t] EXCEPT !.pc = "recover"]
      <3>1. tab' = [tab EXCEPT ![t] = w] BY <2>2 DEF SendLosesHash
      <3>2. w \in TabRecord /\ w.pc = "recover" /\ w.step \in Steps
        BY <1>0, <1>2 DEF TabRecord, TabPc
      <3>3. TabOK(w) BY <3>2 DEF TabOK
      <3>. QED BY <3>1, <3>2, <3>3
    <2>. QED BY <2>1, <2>2
  <1>10. tab' \in [Tabs -> TabRecord] BY <1>9 DEF WellFormed, TypeOK
  <1>11. TypeOK'
    BY <1>3, <1>5, <1>7, <1>8, <1>10, FaultType DEF DbUnchanged, WellFormed, TypeOK
  <1>12. (\A u \in Tabs : TabOK(tab[u]))' BY <1>9 DEF WellFormed, TypeOK, TabOK
  <1>13. WellFormed' BY <1>3, <1>11, <1>12 DEF WellFormed, SlotOK
  <1>14. tab'[t].pc # "signing" /\ \A u \in Tabs \ {t} : tab'[u] = tab[u]
    BY <1>9 DEF WellFormed, TypeOK
  <1>. QED BY <1>1, <1>2, <1>3, <1>6, <1>13, <1>14 DEF DbUnchanged

\* The browser hire is type correct, for every number of tabs, requests, steps and
\* failures: no handler or tab ever leaves its declared states.
THEOREM TypeCorrect == Spec => []TypeOK
  <1>1. WellFormed /\ [Next]_vars => WellFormed'
    BY OnlyFiveMatter, ClaimWellFormed, ReleaseWellFormed, RejectWellFormed, SendEffect
    DEF Harmless
  <1>2. WellFormed => TypeOK BY DEF WellFormed
  <1>. QED BY <1>1, <1>2, InitWellFormed, PTL DEF Spec
-----------------------------------------------------------------------------
(* No step is sent twice. *)

\* Who may still cause a transaction of a step, or reopen it: a tab with a wallet
\* prompt, or the request that reports its rejection.  There is at most one of them
\* per step; while it is there the step is taken and nothing was sent for it.
OneHolder ==
  /\ \A t, u \in Tabs : /\ tab[t].pc = "signing" /\ tab[u].pc = "signing"
                        /\ tab[t].step = tab[u].step
                        => t = u
  /\ \A q, r \in Slots : /\ h[q].pc = "release" /\ h[r].pc = "release"
                         /\ h[q].step = h[r].step
                         => q = r
  /\ \A t \in Tabs, r \in Slots :
       tab[t].pc = "signing" /\ h[r].pc = "release" => tab[t].step # h[r].step
  /\ \A t \in Tabs : tab[t].pc = "signing" =>
       Taken(rows[tab[t].step]) /\ sends[tab[t].step] = 0
  /\ \A r \in Slots : h[r].pc = "release" =>
       Taken(rows[h[r].step]) /\ sends[h[r].step] = 0

\* What was sent stays taken.
SentIsTaken == \A s \in Steps : sends[s] > 0 => Taken(rows[s])

SendInv == WellFormed /\ OneHolder /\ SentIsTaken /\ AtMostOneSend

\* Nothing is prompted, released or sent at first.
LEMMA InitSendInv == Init => SendInv
  <1> SUFFICES ASSUME Init PROVE SendInv OBVIOUS
  <1>1. \A t \in Tabs : tab[t].pc # "signing" BY DEF Init, IdleTab
  <1>2. \A r \in Slots : h[r].pc # "release" BY DEF Init, FreeSlot
  <1>3. OneHolder BY <1>1, <1>2 DEF OneHolder
  <1>4. SentIsTaken /\ AtMostOneSend BY DEF Init, SentIsTaken, AtMostOneSend
  <1>. QED BY <1>3, <1>4, InitWellFormed DEF SendInv

\* A harmless step neither opens a step nor adds a holder.
LEMMA HarmlessSendInv == SendInv /\ Harmless => SendInv'
  <1> SUFFICES ASSUME SendInv, Harmless PROVE SendInv' OBVIOUS
  <1>0. WellFormed' /\ sends' = sends /\ RowsKept /\ OneHolder BY DEF Harmless, SendInv
  <1>1. \A q \in Slots : h'[q].pc = "release" => h[q].pc = "release" /\ h'[q].step = h[q].step
    BY DEF Harmless
  <1>2. \A t \in Tabs : tab'[t].pc = "signing" =>
                        tab[t].pc = "signing" /\ tab'[t].step = tab[t].step
    BY DEF Harmless
  <1>3. \A t \in Tabs : tab[t].pc = "signing" => tab[t].step \in Steps
    BY DEF SendInv, WellFormed, TabOK
  <1>4. \A q \in Slots : h[q].pc = "release" => h[q].step \in Steps
    BY DEF SendInv, WellFormed, SlotOK
  <1>5. OneHolder' BY <1>0, <1>1, <1>2, <1>3, <1>4 DEF OneHolder, RowsKept
  <1>6. SentIsTaken' BY <1>0 DEF SendInv, SentIsTaken, RowsKept
  <1>. QED BY <1>0, <1>5, <1>6 DEF SendInv, AtMostOneSend

\* The winner of the claim is the only holder.
LEMMA ClaimSendInv ==
  ASSUME SendInv, NEW r \in Slots, ClaimDispatch(r) PROVE SendInv'
  <1> DEFINE y == h[r]  s == h[r].step  row == rows[h[r].step]
  <1>0. WellFormed /\ WellFormed' BY ClaimWellFormed DEF SendInv
  <1>1. y \in SlotRecord /\ SlotOK(y) BY <1>0, SlotFacts
  <1>2. s \in Steps /\ y.tab \in Tabs \cup {NoTab} BY <1>1 DEF ClaimDispatch, SlotOK, SlotRecord
  <1>3. row \in OperationRow BY <1>0, <1>2 DEF WellFormed, TypeOK
  <1>4. Taken(row) => Taken(ClaimExternalDispatch(row))
    BY <1>3 DEF Taken, ClaimExternalDispatch, CanClaim
  <1>5. rows' = [rows EXCEPT ![s] = ClaimExternalDispatch(row)] /\ sends' = sends
    BY DEF ClaimDispatch, Quiet, ChainUnchanged
  <1>6. \A p \in Steps : Taken(rows[p]) => Taken(rows'[p])
    BY <1>0, <1>4, <1>5 DEF WellFormed, TypeOK
  <1>7. \A q \in Slots : h'[q].pc = "release" => h[q].pc = "release" /\ h'[q].step = h[q].step
    BY <1>0, FreeSlotFine DEF ClaimDispatch, Step, Fine, WellFormed, TypeOK
  <1>8. SentIsTaken' /\ AtMostOneSend'
    BY <1>5, <1>6 DEF SendInv, SentIsTaken, AtMostOneSend
  <1>9. \A t \in Tabs : tab[t].pc = "signing" => tab[t].step \in Steps
    BY <1>0 DEF WellFormed, TabOK
  <1>10. \A q \in Slots : h[q].pc = "release" => h[q].step \in Steps
    BY <1>0 DEF WellFormed, SlotOK
  <1>11. CASE \A t \in Tabs : tab'[t].pc = "signing" =>
                              tab[t].pc = "signing" /\ tab'[t].step = tab[t].step
    <2>1. OneHolder' BY <1>5, <1>6, <1>7, <1>9, <1>10, <1>11 DEF SendInv, OneHolder
    <2>. QED BY <1>0, <1>8, <2>1 DEF SendInv
  <1>12. CASE CanClaim(row) /\ y.tab \in Tabs
    <2>1. ~Taken(row) /\ Taken(rows'[s])
      BY <1>0, <1>2, <1>3, <1>5, <1>12, ClaimTakes DEF WellFormed, TypeOK
    <2>2. sends \in [Steps -> Nat] BY <1>0 DEF WellFormed, TypeOK
    <2>3. sends[s] = 0 BY <1>2, <2>1, <2>2 DEF SendInv, SentIsTaken
    <2>4. tab' = [tab EXCEPT ![y.tab] = [pc |-> "signing", step |-> s, hash |-> NoHash]]
      BY <1>12, TabsAssumption DEF ClaimDispatch
    <2>5. tab'[y.tab].pc = "signing" /\ tab'[y.tab].step = s
          /\ \A u \in Tabs \ {y.tab} : tab'[u] = tab[u]
      BY <1>0, <1>12, <2>4 DEF WellFormed, TypeOK
    <2>6. \A u \in Tabs : tab[u].pc = "signing" => tab[u].step # s
      BY <2>1 DEF SendInv, OneHolder
    <2>7. \A q \in Slots : h[q].pc = "release" => h[q].step # s
      BY <2>1 DEF SendInv, OneHolder
    <2>8. OneHolder'
      BY <1>2, <1>5, <1>6, <1>7, <1>9, <1>10, <1>12, <2>1, <2>3, <2>5, <2>6, <2>7
      DEF SendInv, OneHolder
    <2>. QED BY <1>0, <1>8, <2>8 DEF SendInv
  <1>13. \/ \A t \in Tabs : tab'[t].pc = "signing" =>
                              tab[t].pc = "signing" /\ tab'[t].step = tab[t].step
         \/ CanClaim(row) /\ y.tab \in Tabs
    <2>1. CASE y.tab = NoTab BY <2>1 DEF ClaimDispatch
    <2>2. CASE y.tab \in Tabs /\ ~CanClaim(row)
      <3>1. TabFailed(tab[y.tab]).pc # "signing"
        BY <1>0, <1>1, <2>2, TabFacts, TabMoves
      <3>2. tab' = [tab EXCEPT ![y.tab] = TabFailed(tab[y.tab])]
        BY <2>2, TabsAssumption DEF ClaimDispatch
      <3>. QED BY <1>0, <2>2, <3>1, <3>2 DEF WellFormed, TypeOK
    <2>. QED BY <1>2, <2>1, <2>2
  <1>. QED BY <1>11, <1>12, <1>13

\* The release ends the only holder before the step opens again.
LEMMA ReleaseSendInv ==
  ASSUME SendInv, NEW r \in Slots, ReleaseDispatch(r) PROVE SendInv'
  <1> DEFINE y == h[r]  s == h[r].step
  <1>0. WellFormed /\ WellFormed' BY ReleaseWellFormed DEF SendInv
  <1>1. y \in SlotRecord /\ SlotOK(y) /\ y.pc = "release"
    BY <1>0, SlotFacts DEF ReleaseDispatch
  <1>2. s \in Steps BY <1>1 DEF SlotOK
  <1>3. sends' = sends /\ sends[s] = 0 /\ tab' = tab
    BY <1>1 DEF SendInv, OneHolder, ReleaseDispatch, Quiet, ChainUnchanged, TabsUnchanged
  <1>4. \A p \in Steps \ {s} : rows'[p] = rows[p]
    BY <1>0 DEF ReleaseDispatch, WellFormed, TypeOK
  <1>5. Fine(Return(y, 0, FALSE)) BY <1>1, ReturnFine
  <1>6. h' = [h EXCEPT ![r] = Return(y, 0, FALSE)] BY DEF ReleaseDispatch, Step
  <1>7. \A q \in Slots : h'[q].pc = "release" => q # r /\ h'[q] = h[q]
    BY <1>0, <1>5, <1>6 DEF Fine, WellFormed, TypeOK
  <1>8. \A q \in Slots : h'[q].pc = "release" => h[q].step \in Steps \ {s}
    BY <1>0, <1>1, <1>7 DEF SendInv, OneHolder, WellFormed, SlotOK
  <1>9. \A t \in Tabs : tab[t].pc = "signing" => tab[t].step \in Steps \ {s}
    BY <1>0, <1>1 DEF SendInv, OneHolder, WellFormed, TabOK
  <1>10. SentIsTaken' BY <1>2, <1>3, <1>4 DEF SendInv, SentIsTaken
  <1>11. OneHolder' BY <1>3, <1>4, <1>7, <1>8, <1>9 DEF SendInv, OneHolder
  <1>. QED BY <1>0, <1>3, <1>10, <1>11 DEF SendInv, AtMostOneSend

\* The rejecting tab hands its hold to the release it posts.
LEMMA RejectSendInv ==
  ASSUME SendInv, NEW t \in Tabs, RejectSignature(t) PROVE SendInv'
  <1> DEFINE s == tab[t].step
  <1>0. WellFormed /\ WellFormed' /\ RowsKept /\ sends' = sends
    BY RejectWellFormed DEF SendInv
  <1>1. tab[t].pc = "signing" /\ s \in Steps BY <1>0, TabFacts DEF RejectSignature, TabOK
  <1>2. PICK r \in Slots :
          /\ h[r].pc = "free"
          /\ h' = [h EXCEPT ![r] = Request("release", s, NoHash, t)]
          /\ tab' = [tab EXCEPT ![t] = [pc |-> "rejecting", step |-> s, hash |-> NoHash]]
    BY DEF RejectSignature, Post
  <1>3. "release" \in SlotPc \ {"markSubmitted", "verify", "markReceipt", "persist", "createJob"}
    BY DEF SlotPc
  <1>4. Request("release", s, NoHash, t).step = s BY <1>1, <1>3, RequestType
  <1>5. h'[r].step = s /\ \A q \in Slots \ {r} : h'[q] = h[q]
    BY <1>0, <1>2, <1>4 DEF WellFormed, TypeOK
  <1>6. tab'[t].pc # "signing" /\ \A u \in Tabs \ {t} : tab'[u] = tab[u]
    BY <1>0, <1>2 DEF WellFormed, TypeOK
  <1>7. /\ \A u \in Tabs \ {t} : tab[u].pc = "signing" => tab[u].step # s
        /\ \A q \in Slots : h[q].pc = "release" => h[q].step # s
        /\ Taken(rows[s]) /\ sends[s] = 0
    BY <1>1 DEF SendInv, OneHolder
  <1>8. \A u \in Tabs : tab[u].pc = "signing" => tab[u].step \in Steps
    BY <1>0 DEF WellFormed, TabOK
  <1>9. \A q \in Slots : h[q].pc = "release" => h[q].step \in Steps
    BY <1>0 DEF WellFormed, SlotOK
  <1>10. \A p \in Steps : Taken(rows[p]) => Taken(rows'[p]) BY <1>0 DEF RowsKept
  <1>11. OneHolder'
    BY <1>0, <1>1, <1>5, <1>6, <1>7, <1>8, <1>9, <1>10 DEF SendInv, OneHolder
  <1>12. SentIsTaken' /\ AtMostOneSend'
    BY <1>0, <1>10 DEF SendInv, SentIsTaken, AtMostOneSend
  <1>. QED BY <1>0, <1>11, <1>12 DEF SendInv

\* The only holder sends, once, and holds no more.
LEMMA SendSendInv ==
  ASSUME SendInv, NEW t \in Tabs, SendTransaction(t) \/ SendLosesHash(t) PROVE SendInv'
  <1> DEFINE s == tab[t].step
  <1>0. WellFormed BY DEF SendInv
  <1>1. /\ WellFormed' /\ tab[t].pc = "signing" /\ s \in Steps
        /\ sends' = [sends EXCEPT ![s] = @ + 1]
        /\ tab'[t].pc # "signing" /\ \A u \in Tabs \ {t} : tab'[u] = tab[u]
        /\ UNCHANGED <<rows, h>>
    BY <1>0, SendEffect
  <1>2. Taken(rows[s]) /\ sends[s] = 0 BY <1>1 DEF SendInv, OneHolder
  <1>3. sends'[s] = 1 /\ \A p \in Steps \ {s} : sends'[p] = sends[p]
    BY <1>0, <1>1, <1>2 DEF WellFormed, TypeOK
  <1>4. SentIsTaken' /\ AtMostOneSend'
    BY <1>1, <1>2, <1>3 DEF SendInv, SentIsTaken, AtMostOneSend
  <1>5. \A u \in Tabs : tab'[u].pc = "signing" => u # t /\ tab[u].step \in Steps \ {s}
    BY <1>0, <1>1 DEF SendInv, OneHolder, WellFormed, TabOK
  <1>6. \A q \in Slots : h[q].pc = "release" => h[q].step \in Steps \ {s}
    BY <1>0, <1>1 DEF SendInv, OneHolder, WellFormed, SlotOK
  <1>7. OneHolder' BY <1>1, <1>3, <1>5, <1>6 DEF SendInv, OneHolder
  <1>. QED BY <1>1, <1>4, <1>7 DEF SendInv

\* Every step keeps the one holder of each step.
LEMMA NextSendInv == SendInv /\ [Next]_vars => SendInv'
  <1> SUFFICES ASSUME SendInv, [Next]_vars PROVE SendInv' OBVIOUS
  <1>1. WellFormed BY DEF SendInv
  <1>. QED
    BY <1>1, OnlyFiveMatter, HarmlessSendInv, ClaimSendInv, ReleaseSendInv, RejectSendInv,
       SendSendInv

\* The compare-and-set of claimExternalDispatch is enough: whatever tabs, retries,
\* rejections, lost responses and crashes do, no step of a hire is ever broadcast
\* twice.
THEOREM NoDoubleSend == Spec => []AtMostOneSend
  <1>1. SendInv => AtMostOneSend BY DEF SendInv
  <1>. QED BY <1>1, InitSendInv, NextSendInv, PTL DEF Spec

-----------------------------------------------------------------------------
(* Receipts: what the rows, the canonical job and the requests in flight   *)
(* know of the chain.                                                      *)

\* Transaction x of step s has succeeded on chain c.
Landed(c, s, x) == x \in Hashes /\ c[x].step = s /\ c[x].outcome = "success"

Verified == {"confirmed", "reconciled"}

\* The row of the fund step is bound to its transaction x, which has succeeded; a
\* review by hand does not loosen it.
Bound(c, row, x) ==
  /\ Landed(c, LastStep, x)
  /\ row.hash = x /\ row.status \in Verified \cup {"manual_review"}

\* The try blocks that enclose a handler belong to earlier steps.
Below(y, n) == \A i \in DOMAIN y.frames : y.frames[i].step < n
OuterBelow(y) == \A i \in DOMAIN y.frames : i # Len(y.frames) => y.frames[i].step < LastStep

InTry == {"verify", "markReceipt", "attachJobId", "persist", "createJob", "advance"}

\* What the record of a request relies on when the chain is c and the row of the
\* fund step is row.
Sound(c, row, y) ==
  /\ OuterBelow(y)
  /\ y.pc \in {"attach", "markSubmitted"} => Below(y, y.step)
  /\ y.pc \in InTry => Below(y, y.step + 1)
  /\ y.pc = "verify" =>
       /\ y.frames # <<>> /\ Last(y.frames).step = y.step /\ Last(y.frames).hash = y.hash
       /\ y.step = LastStep /\ y.op.status \in Verified => Bound(c, row, y.hash)
  /\ y.pc = "markReceipt" => Landed(c, y.step, y.hash)
  /\ y.pc \in {"attachJobId", "advance"} => \E x \in Hashes : Landed(c, y.step, x)
  /\ y.pc \in {"persist", "createJob"} => y.step = LastStep /\ Bound(c, row, y.hash)
  /\ y.pc = "throw" /\ y.err = "TRANSACTION_REVERTED" /\ y.frames # <<>>
       /\ Last(y.frames).step = LastStep =>
       c[Last(y.frames).hash].step = LastStep /\ c[Last(y.frames).hash].outcome = "reverted"

\* The try blocks of a well-typed record.
LEMMA FrameFacts ==
  ASSUME NEW y \in SlotRecord
  PROVE  /\ y.frames \in Seq(Frame) /\ Len(y.frames) \in Nat
         /\ DOMAIN y.frames = 1..Len(y.frames)
         /\ \A i \in DOMAIN y.frames : /\ y.frames[i] \in Frame /\ y.frames[i].step \in Steps
                                       /\ y.frames[i].step \in Nat /\ y.frames[i].step <= LastStep
                                       /\ y.frames[i].hash \in Hashes
  <1>1. y.frames \in Seq(Frame) BY DEF SlotRecord
  <1>2. Len(y.frames) \in Nat /\ DOMAIN y.frames = 1..Len(y.frames) BY <1>1
  <1>3. \A i \in DOMAIN y.frames : y.frames[i] \in Frame BY <1>1, <1>2
  <1>4. \A f \in Frame : f.step \in Steps /\ f.hash \in Hashes BY DEF Frame
  <1>5. \A s \in Steps : s \in Nat /\ s <= LastStep BY LastStepAssumption DEF Steps
  <1>. QED BY <1>1, <1>2, <1>3, <1>4, <1>5

\* A request that is over relies on nothing.
LEMMA FreeSlotSound == ASSUME NEW c, NEW row PROVE Sound(c, row, FreeSlot)
  BY DEF Sound, FreeSlot, OuterBelow, InTry

\* Nor does one that has just arrived.
LEMMA RequestSound ==
  ASSUME NEW c, NEW row, NEW pc \in SlotPc \ (InTry \cup {"throw"}), NEW s, NEW x, NEW t
  PROVE  Sound(c, row, Request(pc, s, x, t))
  <1> DEFINE y == Request(pc, s, x, t)
  <1>1. y.pc = pc /\ y.frames = <<>> BY DEF Request, FreeSlot
  <1> HIDE DEF y
  <1>2. pc \notin InTry /\ pc # "throw" /\ pc # "verify" /\ pc # "markReceipt"
        /\ pc \notin {"attachJobId", "advance"} /\ pc \notin {"persist", "createJob"}
    BY DEF InTry
  <1>3. DOMAIN y.frames = {} BY <1>1
  <1>4. Sound(c, row, y) BY <1>1, <1>2, <1>3 DEF Sound, OuterBelow, Below
  <1>. QED BY <1>4 DEF y

\* Returning and throwing keep the enclosing try blocks.
LEMMA ReturnSound ==
  ASSUME NEW c, NEW row, NEW y \in SlotRecord, OuterBelow(y), NEW n, NEW b
  PROVE  Sound(c, row, Return(y, n, b))
  <1> DEFINE z == [y EXCEPT !.pc = "reply", !.step = 0, !.op = NothingRead, !.hash = NoHash,
                            !.err = "none", !.next = n, !.settled = b]
  <1>1. z.pc = "reply" /\ z.frames = y.frames BY DEF SlotRecord
  <1>2. Return(y, n, b) = z \/ Return(y, n, b) = FreeSlot BY DEF Return
  <1> HIDE DEF z
  <1>3. Sound(c, row, z) BY <1>1 DEF Sound, OuterBelow, InTry
  <1>. QED BY <1>2, <1>3, FreeSlotSound

LEMMA ThrowSound ==
  ASSUME NEW c, NEW row, NEW y \in SlotRecord, OuterBelow(y), NEW code,
         code = "TRANSACTION_REVERTED" /\ y.frames # <<>> /\ Last(y.frames).step = LastStep =>
           c[Last(y.frames).hash].step = LastStep /\ c[Last(y.frames).hash].outcome = "reverted"
  PROVE  Sound(c, row, Throw(y, code))
  <1> DEFINE z == [y EXCEPT !.pc = "throw", !.step = 0, !.op = NothingRead, !.hash = NoHash,
                            !.err = code, !.next = 0, !.settled = FALSE]
  <1>1. z.pc = "throw" /\ z.frames = y.frames /\ z.err = code BY DEF SlotRecord
  <1>2. Throw(y, code) = z \/ Throw(y, code) = FreeSlot BY DEF Throw
  <1> HIDE DEF z
  <1>3. Sound(c, row, z) BY <1>1 DEF Sound, OuterBelow, InTry
  <1>. QED BY <1>2, <1>3, FreeSlotSound

\* Leaving a try block leaves those of earlier steps.
LEMMA PopSound ==
  ASSUME NEW y \in SlotRecord, OuterBelow(y), y.frames # <<>>
  PROVE  Below(Pop(y), LastStep) /\ OuterBelow(Pop(y))
  <1>1. y.frames \in Seq(Frame) /\ Len(y.frames) \in Nat \ {0} BY DEF SlotRecord
  <1> DEFINE n == Len(y.frames)  fs == SubSeq(y.frames, 1, n - 1)
  <1>2. Len(fs) = n - 1 /\ \A i \in 1..(n - 1) : fs[i] = y.frames[i] BY <1>1
  <1>3. fs \in Seq(Frame) BY <1>1
  <1>4. Pop(y).frames = fs BY DEF Pop, SlotRecord
  <1>5. DOMAIN fs = 1..(n - 1) BY <1>2, <1>3
  <1>6. \A i \in 1..(n - 1) : i \in DOMAIN y.frames /\ i # n BY <1>1
  <1>. QED BY <1>2, <1>4, <1>5, <1>6 DEF OuterBelow, Below

\* A step below n is below everything from n on.
LEMMA BelowOuter ==
  ASSUME NEW y \in SlotRecord, NEW n \in Steps, Below(y, n) PROVE OuterBelow(y)
  <1>1. \A i \in DOMAIN y.frames : y.frames[i].step \in Nat BY FrameFacts
  <1>2. n \in Nat /\ n <= LastStep BY LastStepAssumption DEF Steps
  <1>. QED BY <1>1, <1>2, LastStepAssumption DEF Below, OuterBelow

\* Entering the try block of confirmEoa.
LEMMA EnterTrySound ==
  ASSUME NEW c, NEW row, NEW y \in SlotRecord, y.step \in Steps, Below(y, y.step),
         NEW op \in OperationRow, NEW status, NEW x,
         y.step = LastStep /\ op.status \in Verified => Bound(c, row, x)
  PROVE  Sound(c, row, EnterTry(y, op, status, x))
  <1> DEFINE f == [step |-> y.step, status |-> status, hash |-> x]
             fs == Append(y.frames, f)
             z == EnterTry(y, op, status, x)
             n == Len(y.frames)
  <1>1. y.frames \in Seq(Frame) /\ n \in Nat BY DEF SlotRecord
  <1>2. PICK V : y.frames \in Seq(V) /\ f \in V
    <2> DEFINE W == Frame \cup {f}
    <2>1. y.frames \in Seq(W) BY <1>1
    <2>. QED BY <2>1
  <1>3. /\ fs \in Seq(V) /\ Len(fs) = n + 1 /\ fs[n + 1] = f
        /\ \A i \in 1..n : fs[i] = y.frames[i]
    BY <1>1, <1>2
  <1>4. z.frames = fs /\ z.pc = "verify" /\ z.step = y.step /\ z.hash = x /\ z.op.status = op.status
    BY DEF EnterTry, SlotRecord, Read
  <1>5. \A i \in 1..n : y.frames[i].step \in Nat /\ y.frames[i].step < y.step
    BY FrameFacts DEF Below
  <1>6. y.step \in Nat /\ y.step <= LastStep /\ f.step = y.step /\ f.hash = x
    BY LastStepAssumption DEF Steps
  <1> HIDE DEF z, fs, f
  <1>7. DOMAIN fs = 1..(n + 1) BY <1>1, <1>3
  <1>8. OuterBelow(z)
    <2>1. \A i \in 1..(n + 1) : i # n + 1 => i \in 1..n BY <1>1
    <2>. QED BY <1>3, <1>4, <1>5, <1>6, <1>7, <2>1, LastStepAssumption DEF OuterBelow
  <1>9. Below(z, z.step + 1)
    <2>1. \A i \in 1..(n + 1) : i \in 1..n \/ i = n + 1 BY <1>1
    <2>2. \A i \in 1..n : fs[i].step < y.step + 1 BY <1>3, <1>5, <1>6
    <2>. QED BY <1>3, <1>4, <1>6, <1>7, <2>1, <2>2 DEF Below
  <1>10. z.frames # <<>> /\ Last(z.frames) = f BY <1>1, <1>3, <1>4 DEF Last
  <1>11. z.step = LastStep /\ z.op.status \in Verified => Bound(c, row, z.hash) BY <1>4
  <1>12. Sound(c, row, z) BY <1>4, <1>6, <1>8, <1>9, <1>10, <1>11 DEF Sound
  <1>. QED BY <1>12 DEF z

\* Every early return of confirmEoa relies on the row it has read only.
LEMMA ConfirmSound ==
  ASSUME NEW c, NEW row, NEW y \in SlotRecord, y.step \in Steps, Below(y, y.step),
         NEW op \in OperationRow, NEW supplied \in Hashes \cup {NoHash},
         op.status \in Verified => Landed(c, y.step, op.hash),
         y.step = LastStep => op = row
  PROVE  Sound(c, row, ConfirmEoa(y, op, supplied))
  <1> DEFINE x == IF supplied # NoHash THEN supplied ELSE op.hash
             a == [y EXCEPT !.pc = "advance", !.hash = NoHash]
             u == [y EXCEPT !.pc = "markUnknown"]
             m == [y EXCEPT !.pc = "markSubmitted", !.op = Read(op), !.hash = x]
  <1>0. OuterBelow(y) BY BelowOuter
  <1>1. op.status \in Verified => Sound(c, row, a)
    <2>1. a.pc = "advance" /\ a.step = y.step /\ a.frames = y.frames BY DEF SlotRecord
    <2>2. op.status \in Verified => \E v \in Hashes : Landed(c, y.step, v) BY DEF Landed
    <2> HIDE DEF a
    <2>3. Below(a, a.step + 1)
      <3>1. y.step \in Nat /\ \A i \in DOMAIN y.frames : y.frames[i].step \in Nat
        BY FrameFacts DEF Steps
      <3>. QED BY <2>1, <3>1 DEF Below
    <2>4. OuterBelow(a) BY <1>0, <2>1 DEF OuterBelow
    <2>. QED BY <2>1, <2>2, <2>3, <2>4 DEF Sound
  <1>2. Sound(c, row, u)
    <2>1. u.pc = "markUnknown" /\ u.frames = y.frames BY DEF SlotRecord
    <2> HIDE DEF u
    <2>. QED BY <1>0, <2>1 DEF Sound, InTry, OuterBelow
  <1>3. Sound(c, row, m)
    <2>1. m.pc = "markSubmitted" /\ m.step = y.step /\ m.frames = y.frames BY DEF SlotRecord
    <2> HIDE DEF m
    <2>2. Below(m, m.step) BY <2>1 DEF Below
    <2>. QED BY <1>0, <2>1, <2>2 DEF Sound, InTry, OuterBelow
  <1>4. op.hash \in {NoHash, x} /\ x # NoHash => Sound(c, row, EnterTry(y, op, op.status, x))
    <2> SUFFICES ASSUME op.hash \in {NoHash, x}, x # NoHash
                 PROVE  Sound(c, row, EnterTry(y, op, op.status, x))
      OBVIOUS
    <2>1. y.step = LastStep /\ op.status \in Verified => Bound(c, row, x)
      BY NoHashAssumption DEF Bound, Landed
    <2> HIDE DEF x
    <2>. QED BY <2>1, EnterTrySound
  <1>5. Sound(c, row, Return(y, DispatchFor(y.step, op), FALSE)) BY <1>0, ReturnSound
  <1>6. Sound(c, row, Throw(y, "other")) BY <1>0, ThrowSound
  <1>. QED BY <1>1, <1>2, <1>3, <1>4, <1>5, <1>6 DEF ConfirmEoa, Verified

\* What confirmEoa does with a receipt that was verified.
LEMMA AfterReceiptSound ==
  ASSUME NEW c, NEW row, NEW y \in SlotRecord, OuterBelow(y), Below(y, y.step + 1), NEW op,
         Landed(c, y.step, y.hash), y.step = LastStep => Bound(c, row, y.hash)
  PROVE  Sound(c, row, AfterReceipt(y, op))
  <1> DEFINE p == [y EXCEPT !.pc = "persist", !.op = NothingRead]
             q == IF y.step = 1 /\ ~op.jobId THEN "attachJobId" ELSE "advance"
             a == [y EXCEPT !.pc = q, !.op = NothingRead, !.hash = NoHash]
  <1>1. y.step = LastStep => Sound(c, row, p)
    <2>1. p.pc = "persist" /\ p.step = y.step /\ p.hash = y.hash /\ p.frames = y.frames
      BY DEF SlotRecord
    <2> HIDE DEF p
    <2>. QED BY <2>1 DEF Sound, OuterBelow, Below
  <1>2. Sound(c, row, a)
    <2>1. q \in {"attachJobId", "advance"} OBVIOUS
    <2> HIDE DEF q
    <2>2. a.pc = q /\ a.step = y.step /\ a.frames = y.frames BY DEF SlotRecord
    <2> HIDE DEF a
    <2>3. \E x \in Hashes : Landed(c, y.step, x) BY DEF Landed
    <2>. QED BY <2>1, <2>2, <2>3 DEF Sound, OuterBelow, Below
  <1>. QED BY <1>1, <1>2 DEF AfterReceipt

\* Going on to advanceEoa from a step that has landed.
LEMMA AdvanceSound ==
  ASSUME NEW c, NEW row, NEW y \in SlotRecord, OuterBelow(y), Below(y, y.step + 1),
         NEW x \in Hashes, Landed(c, y.step, x)
  PROVE  Sound(c, row, Advance(y))
  <1> DEFINE a == Advance(y)
  <1>1. a.pc = "advance" /\ a.step = y.step /\ a.frames = y.frames BY DEF Advance, SlotRecord
  <1> HIDE DEF a
  <1>2. Sound(c, row, a) BY <1>1 DEF Sound, OuterBelow, Below
  <1>. QED BY <1>2 DEF a

-----------------------------------------------------------------------------
(* The invariant. *)

\* A transaction the chain knows belongs to a step, and a step has one at most.
ChainInv ==
  /\ \A x \in Hashes : chain[x].step = 0 <=> chain[x].outcome = "none"
  /\ \A x, y \in Hashes : chain[x].step # 0 /\ chain[x].step = chain[y].step => x = y
  /\ \A x \in Hashes : chain[x].step # 0 => sends[chain[x].step] > 0

\* A step is offered only after the transaction it builds on.
InOrder == \A s \in Steps : s > 1 /\ Present(rows[s]) => Succeeded(s - 1)

EvidenceInv ==
  /\ ChainInv /\ InOrder /\ ConfirmedIsOnChain /\ FundedProjection
  /\ \A r \in Slots : Sound(chain, rows[LastStep], h[r])

HireInv == SendInv /\ EvidenceInv

\* What the properties compare a chain record with.
LEMMA LandedRecord ==
  ASSUME TypeOK, NEW s, NEW x \in Hashes
  PROVE  chain[x] = [step |-> s, outcome |-> "success"] <=> Landed(chain, s, x)
  <1>1. chain[x] \in [step : Steps \cup {0}, outcome : Outcome] BY DEF TypeOK
  <1>. QED BY <1>1 DEF Landed

InTerms ==
  /\ ConfirmedIsOnChain <=>
       \A s \in Steps : rows[s].status \in Verified => Landed(chain, s, rows[s].hash)
  /\ FundedProjection <=>
       /\ parent.status = "funded" <=> job # NoHash
       /\ parent.hash = job
       /\ job # NoHash => Bound(chain, rows[LastStep], job)
  /\ \A s \in Steps : Succeeded(s) <=> \E x \in Hashes : Landed(chain, s, x)

\* The properties in terms of Landed and Bound.
LEMMA Evidence == TypeOK => InTerms
  <1> SUFFICES ASSUME TypeOK PROVE InTerms OBVIOUS
  <1>1. \A s \in Steps : rows[s].hash \in Hashes \cup {NoHash} BY DEF TypeOK, OperationRow
  <1>2. job \in Hashes \cup {NoHash} BY DEF TypeOK
  <1>3. ASSUME NEW s \in Steps
        PROVE  Landed(chain, s, rows[s].hash) <=>
                 rows[s].hash # NoHash /\ chain[rows[s].hash] = [step |-> s, outcome |-> "success"]
    BY <1>1, NoHashAssumption, LandedRecord DEF Landed
  <1>4. ConfirmedIsOnChain <=>
              \A s \in Steps : rows[s].status \in Verified => Landed(chain, s, rows[s].hash)
    BY <1>3 DEF ConfirmedIsOnChain, Verified
  <1>5. job # NoHash => (chain[job] = [step |-> LastStep, outcome |-> "success"] <=> Landed(chain, LastStep, job))
    BY <1>2, LandedRecord
  <1>6. FundedProjection <=>
              /\ parent.status = "funded" <=> job # NoHash
              /\ parent.hash = job
              /\ job # NoHash => Bound(chain, rows[LastStep], job)
    BY <1>5 DEF FundedProjection, Bound, Verified
  <1>7. \A s \in Steps : Succeeded(s) <=> \E x \in Hashes : Landed(chain, s, x)
    BY DEF Succeeded, Landed
  <1>. QED BY <1>4, <1>6, <1>7 DEF InTerms

\* The same after a step.
LEMMA EvidenceNext == TypeOK' => InTerms'
  BY Evidence, PTL

-----------------------------------------------------------------------------
(* Steps of a request. *)

\* What landed stays so, and a row is only bound tighter: the requests keep what
\* they rely on.
LEMMA SoundKept ==
  ASSUME NEW c, NEW row, NEW d, NEW new, NEW y \in SlotRecord, Sound(c, row, y),
         \A s, x : Landed(c, s, x) => Landed(d, s, x),
         \A x : Bound(c, row, x) => Bound(d, new, x),
         \A x \in Hashes : c[x].outcome = "reverted" => d[x] = c[x]
  PROVE  Sound(d, new, y)
  <1>1. y.frames # <<>> => Last(y.frames).hash \in Hashes
    <2> SUFFICES ASSUME y.frames # <<>> PROVE Last(y.frames).hash \in Hashes OBVIOUS
    <2>1. y.frames \in Seq(Frame) BY FrameFacts
    <2>2. Len(y.frames) \in DOMAIN y.frames BY <2>1
    <2>. QED BY <2>2, FrameFacts DEF Last
  <1>. QED BY <1>1 DEF Sound

\* The rows after a statement: confirmed rows name landed transactions, the bound
\* fund row stays bound, and offered steps are in order.
RowsFaithful ==
  /\ \A s \in Steps : rows'[s].status \in Verified => Landed(chain, s, rows'[s].hash)
  /\ \A x : Bound(chain, rows[LastStep], x) => Bound(chain, rows'[LastStep], x)
  /\ \A s \in Steps : s > 1 /\ Present(rows'[s]) => Succeeded(s - 1)

\* A step without a statement keeps the rows faithful.
LEMMA RowsFaithfulSame == ASSUME HireInv, UNCHANGED rows PROVE RowsFaithful
  <1>1. TypeOK BY DEF HireInv, SendInv, WellFormed
  <1>2. \A s \in Steps : rows[s].status \in Verified => Landed(chain, s, rows[s].hash)
    BY <1>1, Evidence DEF InTerms, HireInv, EvidenceInv
  <1>. QED BY <1>2 DEF HireInv, EvidenceInv, InOrder, RowsFaithful

\* A statement that confirms nothing, offers nothing and leaves a bound row bound.
Modest(row, new) ==
  /\ new.status \in Verified => row.status \in Verified /\ new.hash = row.hash
  /\ row.status \in Verified \cup {"manual_review"} =>
       new.status \in Verified \cup {"manual_review"} /\ new.hash = row.hash
  /\ Present(new) => Present(row)

\* All statements but the reservation and the receipt are modest.
LEMMA ModestStatements ==
  ASSUME NEW row \in OperationRow
  PROVE  /\ \A x \in Hashes : Modest(row, MarkSubmitted(row, x))
         /\ Modest(row, AttachJobId(row))
         /\ Modest(row, ClaimExternalDispatch(row))
         /\ Modest(row, ReleaseExternalDispatch(row))
         /\ Modest(row, MarkUnknown(row))
         /\ Modest(row, MarkManualReview(row))
  <1> USE DEF OperationRow, Modest, Verified, Present
  <1>1. \A x \in Hashes : Modest(row, MarkSubmitted(row, x)) BY DEF MarkSubmitted, CanSubmit
  <1>2. Modest(row, AttachJobId(row)) BY DEF AttachJobId
  <1>3. Modest(row, ClaimExternalDispatch(row)) BY DEF ClaimExternalDispatch, CanClaim
  <1>4. Modest(row, ReleaseExternalDispatch(row)) BY DEF ReleaseExternalDispatch, CanRelease
  <1>5. Modest(row, MarkUnknown(row)) BY DEF MarkUnknown
  <1>6. Modest(row, MarkManualReview(row)) BY DEF MarkManualReview
  <1>. QED BY <1>1, <1>2, <1>3, <1>4, <1>5, <1>6

\* A modest statement keeps the rows faithful.
LEMMA RowsFaithfulUpdate ==
  ASSUME HireInv, NEW s \in Steps, NEW v, rows' = [rows EXCEPT ![s] = v], Modest(rows[s], v)
  PROVE  RowsFaithful
  <1>1. TypeOK BY DEF HireInv, SendInv, WellFormed
  <1>2. \A t \in Steps : rows[t].status \in Verified => Landed(chain, t, rows[t].hash)
    BY <1>1, Evidence DEF InTerms, HireInv, EvidenceInv
  <1>3. \A t \in Steps : rows'[t] = IF t = s THEN v ELSE rows[t] BY <1>1 DEF TypeOK
  <1>4. LastStep \in Steps BY LastStepAssumption DEF Steps
  <1>5. \A t \in Steps : Modest(rows[t], rows'[t]) BY <1>3 DEF Modest
  <1>6. \A x : Bound(chain, rows[LastStep], x) => Bound(chain, rows'[LastStep], x)
    BY <1>4, <1>5 DEF Modest, Bound
  <1>. QED BY <1>2, <1>5, <1>6 DEF HireInv, EvidenceInv, InOrder, RowsFaithful, Modest

\* A step of the request in slot r.
LEMMA RequestStep ==
  ASSUME HireInv, WellFormed', NEW r \in Slots, NEW z, h' = [h EXCEPT ![r] = z],
         RowsFaithful, ChainUnchanged, Sound(chain, rows'[LastStep], z),
         parent'.status = "funded" <=> job' # NoHash, parent'.hash = job',
         job' # NoHash => Bound(chain, rows'[LastStep], job')
  PROVE  EvidenceInv'
  <1>1. TypeOK /\ TypeOK' BY DEF HireInv, SendInv, WellFormed
  <1>2. chain' = chain /\ sends' = sends BY DEF ChainUnchanged
  <1>3. ChainInv' BY <1>2 DEF HireInv, EvidenceInv, ChainInv
  <1>4. InOrder' BY <1>2 DEF RowsFaithful, InOrder, Succeeded
  <1>5. ConfirmedIsOnChain' /\ FundedProjection'
    <2>1. (\A s \in Steps : rows[s].status \in Verified => Landed(chain, s, rows[s].hash))'
      BY <1>2 DEF RowsFaithful
    <2>2. (/\ parent.status = "funded" <=> job # NoHash
           /\ parent.hash = job
           /\ job # NoHash => Bound(chain, rows[LastStep], job))'
      BY <1>2
    <2>. QED BY <1>1, <2>1, <2>2, EvidenceNext DEF InTerms
  <1>6. (\A q \in Slots : Sound(chain, rows[LastStep], h[q]))'
    <2> SUFFICES ASSUME NEW q \in Slots PROVE Sound(chain', rows'[LastStep], h'[q]) OBVIOUS
    <2>1. h[q] \in SlotRecord /\ Sound(chain, rows[LastStep], h[q])
      BY <1>1 DEF TypeOK, HireInv, EvidenceInv
    <2>2. Sound(chain, rows'[LastStep], h[q]) BY <2>1, SoundKept DEF RowsFaithful
    <2>3. h'[q] = IF q = r THEN z ELSE h[q] BY <1>1 DEF TypeOK
    <2>. QED BY <1>2, <2>2, <2>3
  <1>. QED BY <1>3, <1>4, <1>5, <1>6 DEF EvidenceInv

\* The same for a request that leaves the parent and the job alone.
LEMMA QuietRequestStep ==
  ASSUME HireInv, WellFormed', NEW r \in Slots, NEW z, Step(r, z), UNCHANGED <<parent, job>>,
         RowsFaithful, ChainUnchanged, Sound(chain, rows'[LastStep], z)
  PROVE  EvidenceInv'
  <1>1. TypeOK BY DEF HireInv, SendInv, WellFormed
  <1>2. /\ parent.status = "funded" <=> job # NoHash
        /\ parent.hash = job
        /\ job # NoHash => Bound(chain, rows[LastStep], job)
    BY <1>1, Evidence DEF InTerms, HireInv, EvidenceInv
  <1>3. job # NoHash => Bound(chain, rows'[LastStep], job) BY <1>2 DEF RowsFaithful
  <1>. QED BY <1>2, <1>3, RequestStep DEF Step

\* What the invariant says of one slot.
LEMMA RequestFacts ==
  ASSUME HireInv, NEW r \in Slots
  PROVE  /\ WellFormed /\ TypeOK /\ h[r] \in SlotRecord /\ SlotOK(h[r])
         /\ Sound(chain, rows[LastStep], h[r]) /\ OuterBelow(h[r])
  BY SlotFacts DEF HireInv, SendInv, WellFormed, EvidenceInv, Sound

\* What the invariant says of one row.
LEMMA RowFacts ==
  ASSUME HireInv, NEW s \in Steps
  PROVE  /\ rows[s] \in OperationRow
         /\ rows[s].status \in Verified => Landed(chain, s, rows[s].hash)
  <1>1. TypeOK BY DEF HireInv, SendInv, WellFormed
  <1>2. \A t \in Steps : rows[t].status \in Verified => Landed(chain, t, rows[t].hash)
    BY <1>1, Evidence DEF InTerms, HireInv, EvidenceInv
  <1>. QED BY <1>1, <1>2 DEF TypeOK

\* A request that moves on to a place that relies on nothing.
LEMMA PlainSound ==
  ASSUME NEW c, NEW row, NEW y \in SlotRecord, OuterBelow(y),
         NEW pc \in SlotPc \ (InTry \cup {"attach", "markSubmitted", "throw"})
  PROVE  Sound(c, row, [y EXCEPT !.pc = pc])
  <1> DEFINE z == [y EXCEPT !.pc = pc]
  <1>1. z.pc = pc /\ z.frames = y.frames BY DEF SlotRecord
  <1> HIDE DEF z
  <1>2. pc \notin InTry /\ pc \notin {"attach", "markSubmitted"} /\ pc # "throw" OBVIOUS
  <1>3. Sound(c, row, z) BY <1>1, <1>2 DEF Sound, OuterBelow, InTry
  <1>. QED BY <1>3 DEF z

\* Every early return of attachExternalExecution.
LEMMA AttachSound ==
  ASSUME HireInv, NEW y \in SlotRecord, y.step \in Steps, Below(y, y.step)
  PROVE  Sound(chain, rows[LastStep], AttachExternalExecution(y))
  <1> DEFINE op == rows[y.step]
  <1>1. op \in OperationRow /\ (op.status \in Verified => Landed(chain, y.step, op.hash))
    BY RowFacts
  <1>2. y.hash \in Hashes \cup {NoHash} BY DEF SlotRecord
  <1>3. Sound(chain, rows[LastStep], ConfirmEoa(y, op, y.hash)) BY <1>1, <1>2, ConfirmSound
  <1>4. OuterBelow(y) BY BelowOuter
  <1>5. "markUnknown" \in SlotPc \ (InTry \cup {"attach", "markSubmitted", "throw"})
    BY DEF SlotPc, InTry
  <1>6. Sound(chain, rows[LastStep], [y EXCEPT !.pc = "markUnknown"])
    BY <1>4, <1>5, PlainSound
  <1>7. Sound(chain, rows[LastStep], Return(y, 0, Settled(op))) BY <1>4, ReturnSound
  <1>. QED BY <1>3, <1>6, <1>7 DEF AttachExternalExecution

\* hire, the poll, reconcile and the pasted hash.
LEMMA IncomingEvidence ==
  ASSUME HireInv, WellFormed', NEW r \in Slots, Incoming(r) PROVE EvidenceInv'
  <1> DEFINE row == rows[LastStep]
  <1>1. 1 \in Steps /\ Watched \subseteq Steps
    BY LastStepAssumption, BoundsAssumption DEF Steps
  <1>2. ASSUME NEW z, Arrive(r, z), Sound(chain, row, z) PROVE EvidenceInv'
    <2>1. UNCHANGED rows /\ UNCHANGED <<parent, job>> /\ ChainUnchanged /\ Step(r, z)
      BY <1>2 DEF Arrive, ChainUnchanged, Step
    <2>2. RowsFaithful BY <2>1, RowsFaithfulSame
    <2>3. Sound(chain, rows'[LastStep], z) BY <1>2, <2>1
    <2>. QED BY <2>1, <2>2, <2>3, QuietRequestStep
  <1>3. CASE PrepareHireIntent(r)
    <2> DEFINE y == Request("claimParent", 1, NoHash, NoTab)
    <2>1. "claimParent" \in SlotPc \ (InTry \cup {"throw"})
          /\ "claimParent" \in SlotPc \ {"markSubmitted", "verify", "markReceipt", "persist", "createJob"}
      BY DEF SlotPc, InTry
    <2>2. y \in SlotRecord /\ Sound(chain, row, y) BY <1>1, <2>1, RequestType, RequestSound
    <2>3. OuterBelow(y) BY <2>2 DEF Sound
    <2>4. Sound(chain, row, Return(y, 0, FALSE)) BY <2>2, <2>3, ReturnSound
    <2>. QED BY <1>2, <1>3, <2>2, <2>4 DEF PrepareHireIntent
  <1>4. ASSUME NEW s \in Steps, NEW x \in Hashes \cup {NoHash}
        PROVE  LET y == Request("attach", s, x, NoTab) IN
               y \in SlotRecord /\ y.step = s /\ Below(y, s) /\ OuterBelow(y)
    <2> DEFINE y == Request("attach", s, x, NoTab)
    <2>1. "attach" \in SlotPc \ (InTry \cup {"throw"})
          /\ "attach" \in SlotPc \ {"markSubmitted", "verify", "markReceipt", "persist", "createJob"}
      BY DEF SlotPc, InTry
    <2>2. y \in SlotRecord /\ y.pc = "attach" /\ y.step = s /\ Sound(chain, row, y)
      BY <2>1, RequestType, RequestSound
    <2> HIDE DEF y
    <2>3. Below(y, s) /\ OuterBelow(y) BY <2>2 DEF Sound
    <2>. QED BY <2>2, <2>3 DEF y
  <1>5. ASSUME NEW s \in Watched, PollStatus(r, s) \/ ReconcileOperation(r, s) PROVE EvidenceInv'
    <2> DEFINE y == Request("attach", s, NoHash, NoTab)
    <2>1. s \in Steps BY <1>1
    <2>2. rows[s] \in OperationRow /\ (rows[s].status \in Verified => Landed(chain, s, rows[s].hash))
      BY <2>1, RowFacts
    <2>3. y \in SlotRecord /\ y.step = s /\ Below(y, s) /\ OuterBelow(y) BY <1>4, <2>1
    <2>5. Sound(chain, row, ConfirmEoa(y, rows[s], NoHash)) BY <2>1, <2>2, <2>3, ConfirmSound
    <2>6. Sound(chain, row, Return(y, DispatchFor(s, rows[s]), Settled(rows[s])))
      BY <2>3, ReturnSound
    <2>. QED BY <1>2, <1>5, <2>5, <2>6 DEF PollStatus, ReconcileOperation
  <1>6. ASSUME NEW s \in Watched, NEW x \in Hashes, AttachTransactionHash(r, s, x)
        PROVE  EvidenceInv'
    <2> DEFINE y == Request("attach", s, x, NoTab)
    <2>1. y \in SlotRecord /\ y.step = s /\ s \in Steps /\ Below(y, s) BY <1>1, <1>4
    <2>2. Sound(chain, row, AttachExternalExecution(y)) BY <2>1, AttachSound
    <2>. QED BY <1>2, <1>6, <2>2 DEF AttachTransactionHash
  <1>. QED BY <1>3, <1>5, <1>6 DEF Incoming

\* A step is offered once the transaction it builds on has landed.
LEMMA RowsFaithfulReserve ==
  ASSUME HireInv, NEW n \in Steps, NEW known \in BOOLEAN, n > 1 => Succeeded(n - 1),
         rows' = [rows EXCEPT ![n] = Reserve(rows[n], known)]
  PROVE  RowsFaithful
  <1> DEFINE new == Reserve(rows[n], known)
  <1>1. \A t \in Steps : /\ rows[t] \in OperationRow
                         /\ rows[t].status \in Verified => Landed(chain, t, rows[t].hash)
    BY RowFacts
  <1>2. \A t \in Steps : rows'[t] = IF t = n THEN new ELSE rows[t]
    BY DEF HireInv, SendInv, WellFormed, TypeOK
  <1>3. new = rows[n] \/ (new.status = "awaiting_signature" /\ rows[n].status = "absent")
    <2>1. CASE Present(rows[n]) BY <2>1 DEF Reserve
    <2>2. CASE ~Present(rows[n])
      <3>1. new = [AbsentRow EXCEPT !.status = "awaiting_signature", !.jobId = known]
        BY <2>2 DEF Reserve
      <3>2. new.status = "awaiting_signature" BY <3>1 DEF AbsentRow
      <3>. QED BY <2>2, <3>2 DEF Present
    <2>. QED BY <2>1, <2>2
  <1> HIDE DEF new
  <1>4. LastStep \in Steps BY LastStepAssumption DEF Steps
  <1>5. \A x : Bound(chain, rows[LastStep], x) => Bound(chain, rows'[LastStep], x)
    BY <1>2, <1>3, <1>4 DEF Bound, Verified
  <1>6. \A s \in Steps : s > 1 /\ Present(rows'[s]) => Succeeded(s - 1)
    BY <1>2, <1>3 DEF HireInv, EvidenceInv, InOrder
  <1>. QED BY <1>1, <1>2, <1>3, <1>5, <1>6 DEF RowsFaithful, Verified

\* The handler of POST /hire and the parent checks of a fund claim.
LEMMA PrepareEvidence ==
  ASSUME HireInv, WellFormed', NEW r \in Slots,
         ResolveParentHire(r) \/ ClaimParent(r) \/ ReserveHire(r)
  PROVE  EvidenceInv'
  <1> DEFINE y == h[r]
  <1>0. TypeOK /\ y \in SlotRecord /\ SlotOK(y) /\ OuterBelow(y) BY RequestFacts
  <1>1. \A c, row : Sound(c, row, Throw(y, "other")) BY <1>0, ThrowSound
  <1>2. ASSUME NEW pc \in {"reserve", "claim", "reresolve"}, NEW c, NEW row
        PROVE  Sound(c, row, [y EXCEPT !.pc = pc])
    BY <1>0, PlainSound DEF SlotPc, InTry
  <1>3. CASE ResolveParentHire(r)
    <2> DEFINE pc == IF y.pc = "reresolve" THEN "reserve" ELSE "claim"
    <2>1. UNCHANGED rows /\ UNCHANGED <<parent, job>> /\ ChainUnchanged
      BY <1>3 DEF ResolveParentHire, DbUnchanged
    <2>2. pc \in {"reserve", "claim", "reresolve"} OBVIOUS
    <2>3. Step(r, [y EXCEPT !.pc = pc]) \/ Step(r, Throw(y, "other"))
      BY <1>3 DEF ResolveParentHire
    <2> HIDE DEF pc
    <2>4. PICK z : Step(r, z) /\ Sound(chain, rows'[LastStep], z) BY <1>1, <1>2, <2>2, <2>3
    <2>. QED BY <2>1, <2>4, RowsFaithfulSame, QuietRequestStep
  <1>4. CASE ClaimParent(r)
    <2>1. UNCHANGED rows /\ ChainUnchanged /\ job' = job BY <1>4 DEF ClaimParent
    <2>2. PICK z : Step(r, z) /\ Sound(chain, rows'[LastStep], z)
      BY <1>1, <1>2, <1>4 DEF ClaimParent
    <2>3. CASE UNCHANGED parent
      BY <2>1, <2>2, <2>3, RowsFaithfulSame, QuietRequestStep
    <2>4. CASE Unpaid(parent) /\ parent' = [parent EXCEPT !.status = "negotiating"]
      <3>1. parent'.status = "negotiating" /\ parent'.hash = NoHash
        BY <1>0, <2>4 DEF Unpaid, TypeOK
      <3>2. job = NoHash BY <2>4 DEF HireInv, EvidenceInv, FundedProjection, Unpaid
      <3>. QED BY <2>1, <2>2, <3>1, <3>2, RowsFaithfulSame, RequestStep DEF Step
    <2>. QED BY <1>4, <2>3, <2>4 DEF ClaimParent
  <1>5. CASE ReserveHire(r)
    <2>1. 1 \in Steps /\ ~(1 > 1) BY LastStepAssumption DEF Steps
    <2>2. rows' = [rows EXCEPT ![1] = Reserve(rows[1], FALSE)] BY <1>5 DEF ReserveHire
    <2>3. RowsFaithful BY <2>1, <2>2, RowsFaithfulReserve
    <2>4. \A n, b : Sound(chain, rows'[LastStep], Return(y, n, b)) BY <1>0, ReturnSound
    <2>5. PICK z : Step(r, z) /\ Sound(chain, rows'[LastStep], z)
      BY <1>1, <1>5, <2>4 DEF ReserveHire
    <2>6. UNCHANGED <<parent, job>> /\ ChainUnchanged BY <1>5 DEF ReserveHire, Quiet
    <2>. QED BY <2>3, <2>5, <2>6, QuietRequestStep
  <1>. QED BY <1>3, <1>4, <1>5

\* The claim, the release and the lost response.
LEMMA DispatchEvidence ==
  ASSUME HireInv, WellFormed', NEW r \in Slots,
         ClaimDispatch(r) \/ ReleaseDispatch(r) \/ MarkUnknownStep(r)
  PROVE  EvidenceInv'
  <1> DEFINE y == h[r]  row == rows[h[r].step]
  <1>0. TypeOK /\ y \in SlotRecord /\ SlotOK(y) /\ OuterBelow(y) BY RequestFacts
  <1>1. y.step \in Steps BY <1>0 DEF SlotOK, ClaimDispatch, ReleaseDispatch, MarkUnknownStep
  <1>2. row \in OperationRow BY <1>1, RowFacts
  <1>3. /\ Modest(row, ClaimExternalDispatch(row))
        /\ Modest(row, ReleaseExternalDispatch(row))
        /\ Modest(row, MarkUnknown(row))
    BY <1>2, ModestStatements
  <1>4. PICK v : Modest(row, v) /\ rows' = [rows EXCEPT ![y.step] = v]
    BY <1>3 DEF ClaimDispatch, ReleaseDispatch, MarkUnknownStep
  <1>5. RowsFaithful BY <1>1, <1>4, RowsFaithfulUpdate
  <1>6. \A c, q : /\ Sound(c, q, FreeSlot) /\ Sound(c, q, Return(y, 0, FALSE))
                  /\ Sound(c, q, Throw(y, "other"))
    BY <1>0, FreeSlotSound, ReturnSound, ThrowSound
  <1>7. PICK z : Step(r, z) /\ Sound(chain, rows'[LastStep], z)
    BY <1>6 DEF ClaimDispatch, ReleaseDispatch, MarkUnknownStep
  <1>8. UNCHANGED <<parent, job>> /\ ChainUnchanged
    BY DEF ClaimDispatch, ReleaseDispatch, MarkUnknownStep, Quiet
  <1>. QED BY <1>5, <1>7, <1>8, QuietRequestStep

\* confirmEoa from the attach to the recorded receipt: the receipt that was verified
\* is what the row is confirmed with.
LEMMA ConfirmEvidence ==
  ASSUME HireInv, WellFormed', NEW r \in Slots,
         \/ AttachPosted(r) \/ MarkSubmittedStep(r)
         \/ \E outcome \in {"ok"} \cup ErrorCode : VerifyEoaReceipt(r, outcome)
         \/ MarkConfirmed(r) \/ AttachCreatedJobId(r)
  PROVE  EvidenceInv'
  <1> DEFINE y == h[r]  row == rows[h[r].step]
  <1>0. /\ TypeOK /\ y \in SlotRecord /\ SlotOK(y) /\ OuterBelow(y)
        /\ Sound(chain, rows[LastStep], y)
    BY RequestFacts
  <1>1. y.step \in Steps
    BY <1>0 DEF SlotOK, AttachPosted, MarkSubmittedStep, VerifyEoaReceipt, MarkConfirmed,
                AttachCreatedJobId
  <1>2. row \in OperationRow /\ (row.status \in Verified => Landed(chain, y.step, row.hash))
    BY <1>1, RowFacts
  <1>3. \A c, q : Sound(c, q, Throw(y, "other")) BY <1>0, ThrowSound
  <1>4. UNCHANGED <<parent, job>> /\ ChainUnchanged
    BY DEF AttachPosted, MarkSubmittedStep, VerifyEoaReceipt, MarkConfirmed,
           AttachCreatedJobId, Quiet, DbUnchanged
  <1>5. LastStep \in Steps BY LastStepAssumption DEF Steps
  <1>6. CASE AttachPosted(r)
    <2>1. y.pc = "attach" /\ UNCHANGED rows /\ Step(r, AttachExternalExecution(y))
      BY <1>6 DEF AttachPosted, DbUnchanged
    <2>2. Below(y, y.step) BY <1>0, <2>1 DEF Sound
    <2>3. Sound(chain, rows[LastStep], AttachExternalExecution(y))
      BY <1>0, <1>1, <2>2, AttachSound
    <2>. QED BY <1>4, <2>1, <2>3, RowsFaithfulSame, QuietRequestStep
  <1>7. CASE MarkSubmittedStep(r)
    <2>1. y.pc = "markSubmitted" /\ y.hash \in Hashes BY <1>0, <1>7 DEF MarkSubmittedStep, SlotOK
    <2>2. rows' = [rows EXCEPT ![y.step] = MarkSubmitted(row, y.hash)]
      BY <1>7 DEF MarkSubmittedStep
    <2>3. RowsFaithful BY <1>1, <1>2, <2>1, <2>2, ModestStatements, RowsFaithfulUpdate
    <2>4. Below(y, y.step) BY <1>0, <2>1 DEF Sound
    <2>5. rows'[y.step] = MarkSubmitted(row, y.hash) BY <1>0, <1>1, <2>2 DEF TypeOK
    <2>6. MarkSubmitted(row, y.hash) \in OperationRow BY <1>2, <2>1, RowTypes
    <2>7. MarkSubmittedOk(row, y.hash) => MarkSubmitted(row, y.hash).status \notin Verified
      BY <1>2 DEF MarkSubmittedOk, MarkSubmitted, OperationRow, Verified
    <2>8. MarkSubmittedOk(row, y.hash) =>
            Sound(chain, rows'[LastStep], EnterTry(y, rows'[y.step], y.op.status, y.hash))
      BY <1>0, <1>1, <2>4, <2>5, <2>6, <2>7, EnterTrySound
    <2>9. PICK z : Step(r, z) /\ Sound(chain, rows'[LastStep], z)
      BY <1>3, <1>7, <2>8 DEF MarkSubmittedStep
    <2>. QED BY <1>4, <2>3, <2>9, QuietRequestStep
  <1>8. ASSUME NEW outcome \in {"ok"} \cup ErrorCode, VerifyEoaReceipt(r, outcome)
        PROVE  EvidenceInv'
    <2> DEFINE s == y.step  x == y.hash  q == rows[LastStep]
    <2>1. y.pc = "verify" /\ x \in Hashes /\ UNCHANGED rows
      BY <1>0, <1>8 DEF VerifyEoaReceipt, SlotOK, DbUnchanged
    <2>2. /\ Below(y, s + 1) /\ y.frames # <<>>
          /\ Last(y.frames).step = s /\ Last(y.frames).hash = x
          /\ s = LastStep /\ y.op.status \in Verified => Bound(chain, q, x)
      BY <1>0, <2>1 DEF Sound, InTry
    <2>3. outcome \in {VerifyOutcome(s, x)} \cup ReadFailure BY <1>8 DEF VerifyEoaReceipt
    <2>4. chain[x].outcome \in Outcome /\ (chain[x].step = 0 <=> chain[x].outcome = "none")
      BY <1>0, <2>1 DEF TypeOK, HireInv, EvidenceInv, ChainInv
    <2>5. outcome = "ok" => Landed(chain, s, x)
      BY <1>1, <2>1, <2>3, <2>4 DEF VerifyOutcome, ReadFailure, Landed, Outcome, Steps
    <2>6. outcome = "TRANSACTION_REVERTED" =>
            chain[x].step = s /\ chain[x].outcome = "reverted"
      BY <2>3, <2>4 DEF VerifyOutcome, ReadFailure
    <2>7. outcome # "ok" => Sound(chain, q, Throw(y, outcome))
      BY <1>0, <2>2, <2>6, ThrowSound
    <2>8. outcome = "ok" /\ y.op.status \in Verified => Sound(chain, q, AfterReceipt(y, y.op))
      BY <1>0, <2>2, <2>5, AfterReceiptSound
    <2>9. outcome = "ok" => Sound(chain, q, [y EXCEPT !.pc = "markReceipt"])
      <3> SUFFICES ASSUME outcome = "ok" PROVE Sound(chain, q, [y EXCEPT !.pc = "markReceipt"])
        OBVIOUS
      <3> DEFINE z == [y EXCEPT !.pc = "markReceipt"]
      <3>1. z.pc = "markReceipt" /\ z.step = s /\ z.hash = x /\ z.frames = y.frames
        BY <1>0 DEF SlotRecord
      <3> HIDE DEF z
      <3>2. Sound(chain, q, z) BY <1>0, <2>2, <2>5, <3>1 DEF Sound, OuterBelow, Below
      <3>. QED BY <3>2 DEF z
    <2>10. PICK z : Step(r, z) /\ Sound(chain, q, z)
      BY <1>8, <2>7, <2>8, <2>9 DEF VerifyEoaReceipt, Verified
    <2>11. rows'[LastStep] = q BY <2>1
    <2>. QED BY <1>4, <2>1, <2>10, <2>11, RowsFaithfulSame, QuietRequestStep
  <1>9. CASE MarkConfirmed(r)
    <2> DEFINE s == y.step  x == y.hash  new == MarkReceipt(row, "confirmed", x, 0)
    <2>1. y.pc = "markReceipt" /\ x \in Hashes BY <1>0, <1>9 DEF MarkConfirmed, SlotOK
    <2>2. Landed(chain, s, x) /\ Below(y, s + 1) BY <1>0, <2>1 DEF Sound, InTry
    <2>3. rows' = [rows EXCEPT ![s] = new] BY <1>9 DEF MarkConfirmed
    <2>4. \A t \in Steps : rows'[t] = IF t = s THEN new ELSE rows[t]
      BY <1>0, <2>3 DEF TypeOK
    <2>5. new = row \/ (CanReceive(row) /\ new.status = "confirmed" /\ new.hash = x)
      BY <1>2 DEF MarkReceipt, OperationRow
    <2>6. MarkReceiptOk(row, "confirmed", x, 0) => new.status = "confirmed" /\ new.hash = x
      BY <1>2, <2>5 DEF MarkReceiptOk, MarkReceipt, OperationRow
    <2> HIDE DEF new
    <2>7. \A v : Landed(chain, s, v) => v = x
      BY <1>1, <2>2 DEF Landed, HireInv, EvidenceInv, ChainInv, Steps
    <2>8. RowsFaithful
      <3>1. \A t \in Steps : rows[t].status \in Verified => Landed(chain, t, rows[t].hash)
        BY RowFacts
      <3>2. \A t \in Steps : rows'[t].status \in Verified => Landed(chain, t, rows'[t].hash)
        BY <2>2, <2>4, <2>5, <3>1
      <3>3. \A v : Bound(chain, rows[LastStep], v) => Bound(chain, rows'[LastStep], v)
        BY <1>5, <2>4, <2>5, <2>7 DEF Bound, Verified
      <3>4. \A t \in Steps : Present(rows'[t]) => Present(rows[t])
        BY <1>2, <2>4, <2>5 DEF Present, CanReceive
      <3>. QED BY <3>2, <3>3, <3>4 DEF RowsFaithful, HireInv, EvidenceInv, InOrder
    <2>9. MarkReceiptOk(row, "confirmed", x, 0) => (s = LastStep => Bound(chain, rows'[LastStep], x))
      BY <1>5, <2>2, <2>4, <2>6 DEF Bound, Verified
    <2>10. MarkReceiptOk(row, "confirmed", x, 0) =>
             Sound(chain, rows'[LastStep], AfterReceipt(y, rows'[s]))
      BY <1>0, <2>2, <2>9, AfterReceiptSound
    <2>11. PICK z : Step(r, z) /\ Sound(chain, rows'[LastStep], z)
      BY <1>3, <1>9, <2>10 DEF MarkConfirmed
    <2>. QED BY <1>4, <2>8, <2>11, QuietRequestStep
  <1>10. CASE AttachCreatedJobId(r)
    <2> DEFINE z == [y EXCEPT !.pc = "advance"]
    <2>1. y.pc = "attachJobId" /\ Step(r, z) BY <1>10 DEF AttachCreatedJobId
    <2>2. 1 \in Steps /\ rows' = [rows EXCEPT ![1] = AttachJobId(rows[1])]
      BY <1>10, LastStepAssumption DEF AttachCreatedJobId, Steps
    <2>3. RowsFaithful BY <2>2, RowFacts, ModestStatements, RowsFaithfulUpdate
    <2>4. z.pc = "advance" /\ z.step = y.step /\ z.frames = y.frames BY <1>0 DEF SlotRecord
    <2> HIDE DEF z
    <2>5. Sound(chain, rows'[LastStep], z)
      BY <1>0, <2>1, <2>4 DEF Sound, InTry, OuterBelow, Below
    <2>. QED BY <1>4, <2>1, <2>3, <2>5, QuietRequestStep
  <1>. QED BY <1>6, <1>7, <1>8, <1>9, <1>10

\* The funded projection and advanceEoa.
LEMMA ProjectEvidence ==
  ASSUME HireInv, WellFormed', NEW r \in Slots,
         PersistEoaFunding(r) \/ CreateJob(r) \/ AdvanceEoa(r)
  PROVE  EvidenceInv'
  <1> DEFINE y == h[r]
  <1>0. /\ TypeOK /\ y \in SlotRecord /\ SlotOK(y) /\ OuterBelow(y)
        /\ Sound(chain, rows[LastStep], y)
    BY RequestFacts
  <1>1. \A c, q : Sound(c, q, Throw(y, "other")) BY <1>0, ThrowSound
  <1>2. y.pc \in {"persist", "createJob"} =>
          \A c, q : c = chain => Sound(c, q, Advance(y))
    <2> SUFFICES ASSUME y.pc \in {"persist", "createJob"}
                 PROVE  \A q : Sound(chain, q, Advance(y))
      OBVIOUS
    <2>1. y.step = LastStep /\ Bound(chain, rows[LastStep], y.hash) /\ Below(y, y.step + 1)
      BY <1>0 DEF Sound, InTry
    <2>2. y.hash \in Hashes /\ Landed(chain, y.step, y.hash) BY <2>1 DEF Bound, Landed
    <2>. QED BY <1>0, <2>1, <2>2, AdvanceSound
  <1>3. CASE PersistEoaFunding(r)
    <2> DEFINE c == [y EXCEPT !.pc = "createJob"]
    <2>1. y.pc = "persist" /\ UNCHANGED rows /\ UNCHANGED <<parent, job>> /\ ChainUnchanged
      BY <1>3 DEF PersistEoaFunding, DbUnchanged, Quiet
    <2>2. c.pc = "createJob" /\ c.step = y.step /\ c.hash = y.hash /\ c.frames = y.frames
      BY <1>0 DEF SlotRecord
    <2>3. Step(r, c) \/ Step(r, Advance(y)) BY <1>3 DEF PersistEoaFunding
    <2> HIDE DEF c
    <2>4. Sound(chain, rows[LastStep], c)
      BY <1>0, <2>1, <2>2 DEF Sound, InTry, OuterBelow, Below
    <2>5. PICK z : Step(r, z) /\ Sound(chain, rows'[LastStep], z)
      BY <1>2, <2>1, <2>3, <2>4
    <2>. QED BY <2>1, <2>5, RowsFaithfulSame, QuietRequestStep
  <1>4. CASE CreateJob(r)
    <2>1. y.pc = "createJob" /\ UNCHANGED rows /\ ChainUnchanged
      BY <1>4 DEF CreateJob, Quiet
    <2>2. Bound(chain, rows[LastStep], y.hash) BY <1>0, <2>1 DEF Sound
    <2>3. y.hash # NoHash BY <2>2, NoHashAssumption DEF Bound, Landed
    <2>4. PICK z : Step(r, z) /\ Sound(chain, rows'[LastStep], z)
      BY <1>1, <1>2, <1>4, <2>1 DEF CreateJob
    <2>5. CASE UNCHANGED <<parent, job>>
      BY <2>1, <2>4, <2>5, RowsFaithfulSame, QuietRequestStep
    <2>6. CASE job' = y.hash /\ parent' = [status |-> "funded", hash |-> y.hash]
      <3>1. parent'.status = "funded" /\ parent'.hash = job' /\ job' # NoHash BY <2>3, <2>6
      <3>2. Bound(chain, rows'[LastStep], job') BY <2>1, <2>2, <2>6
      <3>. QED BY <2>1, <2>4, <3>1, <3>2, RowsFaithfulSame, RequestStep DEF Step
    <2>. QED BY <1>4, <2>5, <2>6 DEF CreateJob
  <1>5. CASE AdvanceEoa(r)
    <2>1. y.pc = "advance" /\ y.step \in Steps /\ UNCHANGED <<parent, job>> /\ ChainUnchanged
      BY <1>0, <1>5 DEF AdvanceEoa, SlotOK, Quiet
    <2>2. CASE y.step = LastStep
      <3>0. ~(y.step < LastStep) BY <2>2, LastStepAssumption
      <3>1. Step(r, Return(y, 0, TRUE)) /\ UNCHANGED rows
        BY <1>5, <3>0, Zenon DEF AdvanceEoa
      <3>2. Sound(chain, rows'[LastStep], Return(y, 0, TRUE)) BY <1>0, ReturnSound
      <3>. QED BY <2>1, <3>1, <3>2, RowsFaithfulSame, QuietRequestStep
    <2>3. CASE y.step # LastStep
      <3> DEFINE n == y.step + 1  next == [y EXCEPT !.step = n]  q == rows'[LastStep]
                 op == rows'[n]
      <3>1. n \in Steps /\ n - 1 = y.step /\ y.step < n
        BY <2>1, <2>3, LastStepAssumption DEF Steps
      <3>2. next \in SlotRecord /\ next.step = n /\ next.pc = "advance" /\ next.frames = y.frames
        BY <1>0, <2>1, <3>1 DEF SlotRecord
      <3>3. Below(y, n) /\ \E x \in Hashes : Landed(chain, y.step, x)
        BY <1>0, <2>1 DEF Sound, InTry
      <3>4. Succeeded(n - 1) BY <3>1, <3>3 DEF Succeeded, Landed
      <3>5. rows' = [rows EXCEPT ![n] = Reserve(rows[n], TRUE)] BY <1>5, <2>3 DEF AdvanceEoa
      <3>6. RowsFaithful BY <3>1, <3>4, <3>5, RowsFaithfulReserve
      <3>7. op \in OperationRow /\ (op.status \in Verified => Landed(chain, n, op.hash))
        BY <3>1, <3>6 DEF RowsFaithful, WellFormed, TypeOK
      <3>8. n = LastStep => op = q OBVIOUS
      <3> HIDE DEF next
      <3>9. Below(next, next.step) /\ OuterBelow(next) BY <1>0, <3>2, <3>3 DEF Below, OuterBelow
      <3>10. PICK row : row = op OBVIOUS
      <3>11. Sound(chain, q, ConfirmEoa(next, row, NoHash))
        BY <3>1, <3>2, <3>7, <3>8, <3>9, <3>10, ConfirmSound
      <3>12. row.status \in Verified => Sound(chain, q, next)
        <4> SUFFICES ASSUME row.status \in Verified PROVE Sound(chain, q, next) OBVIOUS
        <4>1. \E x \in Hashes : Landed(chain, n, x) BY <3>7, <3>10 DEF Landed
        <4>2. Below(next, next.step + 1)
          <5>1. \A i \in DOMAIN next.frames : next.frames[i].step \in Nat BY <3>2, FrameFacts
          <5>2. n \in Nat BY <3>1 DEF Steps
          <5>. QED BY <3>2, <3>9, <5>1, <5>2 DEF Below
        <4>. QED BY <3>2, <3>9, <4>1, <4>2 DEF Sound
      <3>13. \A a, b : Sound(chain, q, Return(next, a, b)) BY <3>2, <3>9, ReturnSound
      <3>14. PICK z : Step(r, z) /\ Sound(chain, q, z)
        <4>1. \/ Step(r, ConfirmEoa(next, row, NoHash))
              \/ row.status \in Verified /\ Step(r, next)
              \/ Step(r, Return(next, DispatchFor(n, row), Settled(row)))
          BY <1>5, <2>3, <3>10 DEF AdvanceEoa, Verified, next
        <4>. QED BY <3>11, <3>12, <3>13, <4>1
      <3>. QED BY <2>1, <3>6, <3>14, QuietRequestStep
    <2>. QED BY <2>2, <2>3
  <1>. QED BY <1>3, <1>4, <1>5

\* The catch block of confirmEoa: what it writes never loosens a bound fund step.
LEMMA CatchEvidence ==
  ASSUME HireInv, WellFormed', NEW r \in Slots,
         CatchKeeping(r) \/ CatchUnknown(r) \/ CatchReverted(r) \/ CatchReview(r)
  PROVE  EvidenceInv'
  <1> DEFINE y == h[r]  f == Last(h[r].frames)  row == rows[f.step]
  <1>0. /\ TypeOK /\ y \in SlotRecord /\ OuterBelow(y) /\ Sound(chain, rows[LastStep], y)
    BY RequestFacts
  <1>1. y.pc = "throw" /\ y.frames # <<>>
    BY DEF CatchKeeping, CatchUnknown, CatchReverted, CatchReview, Catching
  <1>2. Pop(y) \in SlotRecord /\ f \in Frame BY <1>0, <1>1, PopType
  <1>3. f.step \in Steps /\ f.hash \in Hashes BY <1>2 DEF Frame
  <1>4. row \in OperationRow BY <1>3, RowFacts
  <1>5. Below(Pop(y), LastStep) /\ OuterBelow(Pop(y)) BY <1>0, <1>1, PopSound
  <1>6. Pop(y).frames # <<>> => Last(Pop(y).frames).step # LastStep
    <2> SUFFICES ASSUME Pop(y).frames # <<>> PROVE Last(Pop(y).frames).step # LastStep OBVIOUS
    <2>1. Pop(y).frames \in Seq(Frame) BY <1>2, FrameFacts
    <2>2. Len(Pop(y).frames) \in DOMAIN Pop(y).frames BY <2>1
    <2>3. Pop(y).frames[Len(Pop(y).frames)].step < LastStep BY <1>5, <2>2 DEF Below
    <2>. QED BY <2>3, LastStepAssumption DEF Last
  <1>7. \A c, q, code : Sound(c, q, Throw(Pop(y), code)) BY <1>2, <1>5, <1>6, ThrowSound
  <1>8. \A c, q, n, b : Sound(c, q, Return(Pop(y), n, b)) BY <1>2, <1>5, ReturnSound
  <1>9. PICK z : Step(r, z) /\ Sound(chain, rows'[LastStep], z)
    BY <1>7, <1>8 DEF CatchKeeping, CatchUnknown, CatchReverted, CatchReview
  <1>10. UNCHANGED <<parent, job>> /\ ChainUnchanged
    BY DEF CatchKeeping, CatchUnknown, CatchReverted, CatchReview, DbUnchanged, Quiet
  <1>11. RowsFaithful
    <2>1. CASE UNCHANGED rows BY <2>1, RowsFaithfulSame
    <2>2. CASE rows' = [rows EXCEPT ![f.step] = MarkUnknown(row)]
      BY <1>3, <1>4, <2>2, ModestStatements, RowsFaithfulUpdate
    <2>3. CASE rows' = [rows EXCEPT ![f.step] = MarkManualReview(row)]
      BY <1>3, <1>4, <2>3, ModestStatements, RowsFaithfulUpdate
    <2>4. CASE CatchReverted(r) /\ rows' = [rows EXCEPT ![f.step] = MarkReceipt(row, "reverted", f.hash, 0)]
      <3> DEFINE new == MarkReceipt(row, "reverted", f.hash, 0)
      <3>1. new = row \/ (CanReceive(row) /\ new.status = "reverted")
        BY <1>4 DEF MarkReceipt, OperationRow
      <3>2. \A t \in Steps : rows'[t] = IF t = f.step THEN new ELSE rows[t]
        BY <1>0, <2>4 DEF TypeOK
      <3> HIDE DEF new
      <3>3. y.err = "TRANSACTION_REVERTED" BY <2>4 DEF CatchReverted, Catching
      <3>4. f.step = LastStep =>
              chain[f.hash].step = LastStep /\ chain[f.hash].outcome = "reverted"
        BY <1>0, <1>1, <3>3 DEF Sound
      <3>5. LastStep \in Steps /\ LastStep # 0 BY LastStepAssumption DEF Steps
      <3>6. f.step = LastStep => \A x : ~Landed(chain, LastStep, x)
        BY <1>3, <3>4, <3>5 DEF Landed, HireInv, EvidenceInv, ChainInv
      <3>7. \A t \in Steps : rows[t].status \in Verified => Landed(chain, t, rows[t].hash)
        BY RowFacts
      <3>8. \A t \in Steps : rows'[t].status \in Verified => Landed(chain, t, rows'[t].hash)
        BY <3>1, <3>2, <3>7 DEF Verified
      <3>9. \A x : Bound(chain, rows[LastStep], x) => Bound(chain, rows'[LastStep], x)
        BY <3>2, <3>5, <3>6 DEF Bound
      <3>10. \A t \in Steps : Present(rows'[t]) => Present(rows[t])
        BY <3>1, <3>2 DEF Present, CanReceive
      <3>. QED BY <3>8, <3>9, <3>10 DEF RowsFaithful, HireInv, EvidenceInv, InOrder
    <2>. QED BY <2>1, <2>2, <2>3, <2>4
           DEF CatchKeeping, CatchUnknown, CatchReverted, CatchReview, DbUnchanged
  <1>. QED BY <1>9, <1>10, <1>11, QuietRequestStep

\* The ends of a request.
LEMMA EndEvidence ==
  ASSUME HireInv, WellFormed', NEW r \in Slots,
         Uncaught(r) \/ Reply(r) \/ ReplyReadFails(r) \/ HandlerDies(r)
  PROVE  EvidenceInv'
  <1>0. h[r] \in SlotRecord /\ OuterBelow(h[r]) BY RequestFacts
  <1>1. \A c, q : Sound(c, q, FreeSlot) /\ Sound(c, q, Throw(h[r], "other"))
    BY <1>0, FreeSlotSound, ThrowSound
  <1>2. PICK z : Step(r, z) /\ Sound(chain, rows'[LastStep], z)
    BY <1>1 DEF Uncaught, Reply, ReplyReadFails, HandlerDies
  <1>3. UNCHANGED rows /\ UNCHANGED <<parent, job>> /\ ChainUnchanged
    BY DEF Uncaught, Reply, ReplyReadFails, HandlerDies, DbUnchanged, Quiet
  <1>. QED BY <1>2, <1>3, RowsFaithfulSame, QuietRequestStep

-----------------------------------------------------------------------------
(* Steps of a tab, and of the chain. *)

\* The fetches of a tab.
LEMMA PostEvidence ==
  ASSUME HireInv, WellFormed', NEW t \in Tabs,
         \/ \E s \in Steps : DispatchBrowser(t, s) \/ LoadOperation(t, s)
         \/ ContinueDispatch(t) \/ RejectSignature(t) \/ AttachHash(t) \/ Recover(t)
  PROVE  EvidenceInv'
  <1>1. PICK pc \in {"resolveFund", "claim", "release", "attach"} :
          \E s, x, w : Post(t, pc, s, x, w)
    BY DEF DispatchBrowser, LoadOperation, ContinueDispatch, RejectSignature, AttachHash, Recover
  <1>2. PICK s, x, w : Post(t, pc, s, x, w) BY <1>1
  <1>3. PICK r \in Slots : Step(r, Request(pc, s, x, t)) BY <1>2 DEF Post, Step
  <1>4. pc \in SlotPc \ (InTry \cup {"throw"}) BY DEF SlotPc, InTry
  <1>5. Sound(chain, rows'[LastStep], Request(pc, s, x, t)) BY <1>4, RequestSound
  <1>6. UNCHANGED rows /\ UNCHANGED <<parent, job>> /\ ChainUnchanged
    BY DEF DispatchBrowser, LoadOperation, ContinueDispatch, RejectSignature, AttachHash,
           Recover, DbUnchanged, Quiet
  <1>. QED BY <1>3, <1>5, <1>6, RowsFaithfulSame, QuietRequestStep

\* A step that changes neither the database nor a request: what has landed or
\* reverted on chain stays so.
LEMMA ChainStep ==
  ASSUME HireInv, WellFormed', UNCHANGED <<rows, parent, job>>, ChainInv',
         \A s, x : Landed(chain, s, x) => Landed(chain', s, x),
         \A x \in Hashes : chain[x].outcome = "reverted" => chain'[x] = chain[x],
         \A r \in Slots : \A c, q : Sound(c, q, h[r]) => Sound(c, q, h'[r])
  PROVE  EvidenceInv'
  <1>1. TypeOK /\ TypeOK' BY DEF HireInv, SendInv, WellFormed
  <1>2. \A s \in Steps : Succeeded(s) => Succeeded(s)'
    <2> SUFFICES ASSUME NEW s \in Steps, Succeeded(s) PROVE Succeeded(s)' OBVIOUS
    <2>1. PICK x \in Hashes : Landed(chain, s, x) BY DEF Succeeded, Landed
    <2>2. Landed(chain', s, x) BY <2>1
    <2>. QED BY <2>2 DEF Succeeded, Landed
  <1>3. InOrder'
    <2> SUFFICES ASSUME NEW s \in Steps, s > 1, Present(rows[s]) PROVE Succeeded(s - 1)'
      BY DEF InOrder
    <2>1. s - 1 \in Steps BY LastStepAssumption DEF Steps
    <2>. QED BY <1>2, <2>1 DEF HireInv, EvidenceInv, InOrder
  <1>4. (\A s \in Steps : rows[s].status \in Verified => Landed(chain, s, rows[s].hash))'
    BY RowFacts
  <1>5. \A x : Bound(chain, rows[LastStep], x) => Bound(chain', rows'[LastStep], x)
    BY DEF Bound
  <1>6. (/\ parent.status = "funded" <=> job # NoHash
         /\ parent.hash = job
         /\ job # NoHash => Bound(chain, rows[LastStep], job))'
    BY <1>1, <1>5, Evidence DEF InTerms, HireInv, EvidenceInv
  <1>7. ConfirmedIsOnChain' /\ FundedProjection' BY <1>1, <1>4, <1>6, EvidenceNext DEF InTerms
  <1>8. (\A r \in Slots : Sound(chain, rows[LastStep], h[r]))'
    <2> SUFFICES ASSUME NEW r \in Slots PROVE Sound(chain', rows'[LastStep], h'[r]) OBVIOUS
    <2>1. h[r] \in SlotRecord /\ Sound(chain, rows[LastStep], h[r]) BY RequestFacts
    <2>2. Sound(chain', rows'[LastStep], h[r]) BY <1>5, <2>1, SoundKept
    <2>. QED BY <2>2
  <1>. QED BY <1>3, <1>7, <1>8 DEF EvidenceInv

\* What may go wrong in a tab; a request nobody waits for any more goes on.
LEMMA TabFailureEvidence ==
  ASSUME HireInv, WellFormed', NEW t \in Tabs,
         WalletFails(t) \/ WaitFails(t) \/ ResponseLost(t) \/ CloseTab(t)
  PROVE  EvidenceInv'
  <1>1. UNCHANGED <<rows, parent, job>> /\ chain' = chain /\ sends' = sends
    BY DEF WalletFails, WaitFails, ResponseLost, CloseTab, DbUnchanged, ChainUnchanged
  <1>2. ChainInv' BY <1>1 DEF HireInv, EvidenceInv, ChainInv
  <1>3. ASSUME NEW r \in Slots
        PROVE  \A c, q : Sound(c, q, h[r]) => Sound(c, q, h'[r])
    <2> DEFINE z == [h[r] EXCEPT !.tab = NoTab]
    <2>1. h[r] \in SlotRecord BY RequestFacts
    <2>2. /\ z.pc = h[r].pc /\ z.frames = h[r].frames /\ z.step = h[r].step
          /\ z.hash = h[r].hash /\ z.op = h[r].op /\ z.err = h[r].err
      BY <2>1 DEF SlotRecord
    <2>3. h'[r] = h[r] \/ h'[r] = z BY DEF WalletFails, WaitFails, ResponseLost, CloseTab
    <2> HIDE DEF z
    <2>4. \A c, q : Sound(c, q, h[r]) => Sound(c, q, z) BY <2>2 DEF Sound, OuterBelow, Below
    <2>. QED BY <2>3, <2>4
  <1>. QED BY <1>1, <1>2, <1>3, ChainStep

\* A new transaction: its step has no other one.
LEMMA SendEvidence ==
  ASSUME HireInv, WellFormed', NEW t \in Tabs, SendTransaction(t) \/ SendLosesHash(t)
  PROVE  EvidenceInv'
  <1> DEFINE s == tab[t].step  x == FreshHash
  <1>0. TypeOK /\ ChainInv BY DEF HireInv, SendInv, WellFormed, EvidenceInv
  <1>1. tab[t].pc = "signing" /\ Broadcast(s) /\ UNCHANGED <<rows, parent, job, h>>
    BY DEF SendTransaction, SendLosesHash, DbUnchanged
  <1>2. s \in Steps /\ sends[s] = 0
    BY <1>1, TabFacts DEF HireInv, SendInv, OneHolder, TabOK
  <1>3. x \in Hashes /\ chain[x].step = 0 BY <1>1 DEF Broadcast, FreshHash
  <1>4. chain[x].outcome = "none" BY <1>0, <1>3 DEF ChainInv
  <1>5. chain' = [chain EXCEPT ![x] = [step |-> s, outcome |-> "pending"]]
        /\ sends' = [sends EXCEPT ![s] = @ + 1]
    BY <1>1 DEF Broadcast
  <1> HIDE DEF x, s
  <1>6. \A v \in Hashes : chain'[v] = IF v = x THEN [step |-> s, outcome |-> "pending"] ELSE chain[v]
    BY <1>0, <1>5 DEF TypeOK
  <1>7. \A p \in Steps : sends'[p] = IF p = s THEN 1 ELSE sends[p]
    BY <1>0, <1>2, <1>5 DEF TypeOK
  <1>8. \A v \in Hashes : chain[v].step \in Steps \cup {0} BY <1>0 DEF TypeOK
  <1>9. s # 0 BY <1>2 DEF Steps
  <1>10. \A v \in Hashes : chain[v].step # s BY <1>0, <1>2, <1>8, <1>9 DEF ChainInv
  <1>11. ChainInv' BY <1>0, <1>2, <1>6, <1>7, <1>8, <1>9, <1>10 DEF ChainInv
  <1>12. \A p, v : Landed(chain, p, v) => Landed(chain', p, v) BY <1>4, <1>6 DEF Landed
  <1>13. \A v \in Hashes : chain[v].outcome = "reverted" => chain'[v] = chain[v]
    BY <1>4, <1>6
  <1>. QED BY <1>1, <1>11, <1>12, <1>13, ChainStep

\* A block of the chain.
LEMMA MineEvidence ==
  ASSUME HireInv, WellFormed', NEW x \in Hashes, NEW outcome \in {"success", "reverted"},
         Mine(x, outcome)
  PROVE  EvidenceInv'
  <1>0. TypeOK /\ ChainInv BY DEF HireInv, SendInv, WellFormed, EvidenceInv
  <1>1. chain[x].outcome = "pending" /\ chain' = [chain EXCEPT ![x].outcome = outcome]
        /\ UNCHANGED <<rows, parent, job, sends, h>>
    BY DEF Mine
  <1>2. \A v \in Hashes : chain[v] \in [step : Steps \cup {0}, outcome : Outcome]
    BY <1>0 DEF TypeOK
  <1>3. /\ \A v \in Hashes : v # x => chain'[v] = chain[v]
        /\ chain'[x].step = chain[x].step /\ chain'[x].outcome = outcome
    BY <1>0, <1>1, <1>2 DEF TypeOK
  <1>4. \A v \in Hashes : chain'[v].step = chain[v].step BY <1>3
  <1>5. ChainInv' BY <1>0, <1>1, <1>3, <1>4 DEF ChainInv
  <1>6. \A p, v : Landed(chain, p, v) => Landed(chain', p, v) BY <1>1, <1>3 DEF Landed
  <1>7. \A v \in Hashes : chain[v].outcome = "reverted" => chain'[v] = chain[v] BY <1>1, <1>3
  <1>. QED BY <1>1, <1>5, <1>6, <1>7, ChainStep

\* Nothing happens.
LEMMA StutterEvidence == ASSUME EvidenceInv, UNCHANGED vars PROVE EvidenceInv'
  BY DEF EvidenceInv, ChainInv, InOrder, Succeeded, ConfirmedIsOnChain, FundedProjection, vars

\* Every step of the hire keeps the evidence.
LEMMA EvidenceStep == ASSUME HireInv, WellFormed', [Next]_vars PROVE EvidenceInv'
  <1>1. ASSUME NEW r \in Slots, HandlerStep(r) PROVE EvidenceInv'
    BY <1>1, PrepareEvidence, DispatchEvidence, ConfirmEvidence, ProjectEvidence,
       CatchEvidence, EndEvidence
    DEF HandlerStep
  <1>2. ASSUME NEW r \in Slots, HandlerDies(r) \/ Incoming(r) PROVE EvidenceInv'
    BY <1>2, EndEvidence, IncomingEvidence
  <1>3. ASSUME NEW t \in Tabs, TabStep(t) PROVE EvidenceInv'
    BY <1>3, PostEvidence, TabFailureEvidence, SendEvidence DEF TabStep
  <1>4. CASE UNCHANGED vars BY <1>4, StutterEvidence DEF HireInv
  <1>. QED BY <1>1, <1>2, <1>3, <1>4, MineEvidence DEF Next

\* A hire whose draft was just written has no evidence of anything.
LEMMA InitHireInv == Init => HireInv
  <1> SUFFICES ASSUME Init PROVE HireInv OBVIOUS
  <1>1. ChainInv BY DEF Init, ChainInv
  <1>2. \A s \in Steps : rows[s].status = "absent" BY DEF Init, AbsentRow
  <1>3. InOrder /\ ConfirmedIsOnChain BY <1>2 DEF InOrder, Present, ConfirmedIsOnChain
  <1>4. FundedProjection BY DEF Init, FundedProjection
  <1>5. \A r \in Slots : Sound(chain, rows[LastStep], h[r]) BY FreeSlotSound DEF Init
  <1>. QED BY <1>1, <1>3, <1>4, <1>5, InitSendInv DEF HireInv, EvidenceInv

\* Every step keeps the whole invariant.
LEMMA NextHireInv == HireInv /\ [Next]_vars => HireInv'
  <1> SUFFICES ASSUME HireInv, [Next]_vars PROVE HireInv' OBVIOUS
  <1>1. SendInv' BY NextSendInv DEF HireInv
  <1>2. WellFormed' BY <1>1 DEF SendInv
  <1>. QED BY <1>1, <1>2, EvidenceStep DEF HireInv

\* A row says confirmed only of a transaction of its own step that has succeeded:
\* no late answer, replay or pasted hash of another step confirms anything else.
THEOREM ConfirmedOnChain == Spec => []ConfirmedIsOnChain
  <1>1. HireInv => ConfirmedIsOnChain BY DEF HireInv, EvidenceInv
  <1>. QED BY <1>1, InitHireInv, NextHireInv, PTL DEF Spec

\* The canonical job and the reservation become funded together, with the funding
\* transaction that succeeded and to which the fund operation stays bound, through
\* every later failure and review.
THEOREM FundedIsProjected == Spec => []FundedProjection
  <1>1. HireInv => FundedProjection BY DEF HireInv, EvidenceInv
  <1>. QED BY <1>1, InitHireInv, NextHireInv, PTL DEF Spec

-----------------------------------------------------------------------------
(* The hire implements its protocol. *)

LandedSteps == {s \in Steps : Succeeded(s)}

\* What HireProtocol sees of a step.
LEMMA ProtocolStutter ==
  ASSUME UNCHANGED <<chain, sends, job>> PROVE UNCHANGED Promise!vars
  BY DEF Promise!vars, Succeeded

\* A signature prompt is for a step that was offered, hence whose predecessor landed.
LEMMA SendRefines ==
  ASSUME HireInv, NEW t \in Tabs, SendTransaction(t) \/ SendLosesHash(t)
  PROVE  Promise!Next
  <1> DEFINE s == tab[t].step  x == FreshHash
  <1>0. TypeOK /\ ChainInv BY DEF HireInv, SendInv, WellFormed, EvidenceInv
  <1>1. tab[t].pc = "signing" /\ Broadcast(s) /\ UNCHANGED <<rows, job>>
    BY DEF SendTransaction, SendLosesHash, DbUnchanged
  <1>2. s \in Steps /\ sends[s] = 0 /\ Taken(rows[s])
    BY <1>1, TabFacts DEF HireInv, SendInv, OneHolder, TabOK
  <1>3. s > 1 => Succeeded(s - 1)
    BY <1>2 DEF HireInv, EvidenceInv, InOrder, Taken, Present
  <1>4. s \in 1..LastStep /\ (s > 1 => s - 1 \in LandedSteps)
    BY <1>2, <1>3, LastStepAssumption DEF Steps, LandedSteps
  <1>5. x \in Hashes /\ chain[x].step = 0 /\ chain[x].outcome = "none"
    BY <1>0, <1>1 DEF Broadcast, FreshHash, ChainInv
  <1>6. chain' = [chain EXCEPT ![x] = [step |-> s, outcome |-> "pending"]]
        /\ sends' = [sends EXCEPT ![s] = 1]
    BY <1>0, <1>1, <1>2 DEF Broadcast, TypeOK
  <1> HIDE DEF x, s
  <1>7. \A v \in Hashes : chain'[v] = IF v = x THEN [step |-> s, outcome |-> "pending"] ELSE chain[v]
    BY <1>0, <1>6 DEF TypeOK
  <1>8. \A p \in Steps : Succeeded(p)' <=> Succeeded(p) BY <1>5, <1>7 DEF Succeeded
  <1>9. LandedSteps' = LandedSteps BY <1>8 DEF LandedSteps
  <1>10. Promise!Send(s) BY <1>1, <1>2, <1>4, <1>6, <1>9 DEF Promise!Send, LandedSteps
  <1>. QED BY <1>4, <1>10 DEF Promise!Next

\* A transaction that succeeds is the only one of its step.
LEMMA MineRefines ==
  ASSUME HireInv, NEW x \in Hashes, NEW outcome \in {"success", "reverted"}, Mine(x, outcome)
  PROVE  [Promise!Next]_(Promise!vars)
  <1> DEFINE s == chain[x].step
  <1>0. TypeOK /\ ChainInv /\ AtMostOneSend BY DEF HireInv, SendInv, WellFormed, EvidenceInv
  <1>1. chain[x].outcome = "pending" /\ chain' = [chain EXCEPT ![x].outcome = outcome]
        /\ sends' = sends /\ job' = job
    BY DEF Mine
  <1>2. \A v \in Hashes : chain[v] \in [step : Steps \cup {0}, outcome : Outcome]
    BY <1>0 DEF TypeOK
  <1>3. \A v \in Hashes : chain'[v].step = chain[v].step
                          /\ chain'[v].outcome = IF v = x THEN outcome ELSE chain[v].outcome
    BY <1>0, <1>1, <1>2 DEF TypeOK
  <1>4. s \in Steps /\ sends[s] > 0 BY <1>0, <1>1, <1>2 DEF ChainInv
  <1>5. sends[s] = 1 BY <1>0, <1>4 DEF AtMostOneSend, TypeOK
  <1>6. ~Succeeded(s) BY <1>0, <1>1, <1>4 DEF Succeeded, ChainInv, Steps
  <1> HIDE DEF s
  <1>7. CASE outcome = "success"
    <2>1. \A p \in Steps : Succeeded(p)' <=> Succeeded(p) \/ p = s
      BY <1>1, <1>3, <1>4, <1>7 DEF Succeeded, s
    <2>2. LandedSteps' = LandedSteps \cup {s} /\ s \notin LandedSteps
      BY <1>4, <1>6, <2>1 DEF LandedSteps
    <2>3. Promise!Land(s) BY <1>1, <1>5, <2>2 DEF Promise!Land, LandedSteps
    <2>. QED BY <1>4, <2>3 DEF Promise!Next, Steps
  <1>8. CASE outcome = "reverted"
    <2>1. \A p \in Steps : Succeeded(p)' <=> Succeeded(p)
      BY <1>1, <1>3, <1>8 DEF Succeeded
    <2>2. LandedSteps' = LandedSteps BY <2>1 DEF LandedSteps
    <2>. QED BY <1>1, <2>2 DEF Promise!vars, LandedSteps
  <1>. QED BY <1>7, <1>8

\* The job is created from the verified receipt of the fund step.
LEMMA CreateJobRefines ==
  ASSUME HireInv, NEW r \in Slots, CreateJob(r) PROVE [Promise!Next]_(Promise!vars)
  <1>1. chain' = chain /\ sends' = sends BY DEF CreateJob, Quiet, ChainUnchanged
  <1>2. CASE job' = job BY <1>1, <1>2, ProtocolStutter
  <1>3. CASE job = NoHash /\ job' = h[r].hash
    <2>1. Bound(chain, rows[LastStep], h[r].hash) BY RequestFacts DEF CreateJob, Sound
    <2>2. h[r].hash # NoHash BY <2>1, NoHashAssumption DEF Bound, Landed
    <2>3. LastStep \in Steps BY LastStepAssumption DEF Steps
    <2>4. LastStep \in LandedSteps
      BY <2>1, <2>3 DEF Bound, Landed, Succeeded, LandedSteps
    <2>5. LandedSteps' = LandedSteps BY <1>1 DEF LandedSteps, Succeeded
    <2>6. (job # NoHash) = FALSE /\ (job # NoHash)' = TRUE BY <1>3, <2>2
    <2>7. Promise!Project BY <1>1, <2>4, <2>5, <2>6 DEF Promise!Project, LandedSteps
    <2>. QED BY <2>7 DEF Promise!Next
  <1>. QED BY <1>2, <1>3 DEF CreateJob

\* Every step of the hire is a step of its protocol or leaves it alone.
LEMMA ProtocolStep == HireInv /\ [Next]_vars => [Promise!Next]_(Promise!vars)
  <1> SUFFICES ASSUME HireInv, [Next]_vars PROVE [Promise!Next]_(Promise!vars) OBVIOUS
  <1>1. ASSUME NEW r \in Slots, HandlerStep(r) PROVE CreateJob(r) \/ UNCHANGED <<chain, sends, job>>
    BY <1>1 DEF HandlerStep, ResolveParentHire, ClaimParent, ReserveHire, ClaimDispatch,
      ReleaseDispatch, AttachPosted, MarkUnknownStep, MarkSubmittedStep, VerifyEoaReceipt,
      MarkConfirmed, AttachCreatedJobId, PersistEoaFunding, AdvanceEoa, CatchKeeping,
      CatchUnknown, CatchReverted, CatchReview, Uncaught, Reply, ReplyReadFails,
      DbUnchanged, Quiet, ChainUnchanged
  <1>2. ASSUME NEW r \in Slots, HandlerDies(r) \/ Incoming(r)
        PROVE  UNCHANGED <<chain, sends, job>>
    BY <1>2 DEF HandlerDies, Incoming, PrepareHireIntent, PollStatus, ReconcileOperation,
      AttachTransactionHash, Arrive, DbUnchanged, ChainUnchanged
  <1>3. ASSUME NEW t \in Tabs, TabStep(t)
        PROVE  SendTransaction(t) \/ SendLosesHash(t) \/ UNCHANGED <<chain, sends, job>>
    BY <1>3 DEF TabStep, DispatchBrowser, LoadOperation, ContinueDispatch, WalletFails,
      RejectSignature, AttachHash, WaitFails, Recover, ResponseLost, CloseTab, DbUnchanged,
      Quiet, ChainUnchanged
  <1>4. CASE UNCHANGED vars BY <1>4, ProtocolStutter DEF vars
  <1>. QED
    BY <1>1, <1>2, <1>3, <1>4, ProtocolStutter, CreateJobRefines, SendRefines, MineRefines
    DEF Next

\* The hire begins where its protocol begins.
LEMMA ProtocolInit == Init => Promise!Init
  <1> SUFFICES ASSUME Init PROVE Promise!Init OBVIOUS
  <1>1. LandedSteps = {} BY DEF Init, LandedSteps, Succeeded
  <1>2. (job # NoHash) = FALSE BY DEF Init
  <1>. QED BY <1>1, <1>2 DEF Promise!Init, Init, Steps, LandedSteps

\* Whatever happens to tabs, requests and receipts, the wallet sends each transaction
\* of the sequence at most once and never before the one it builds on has landed, and
\* the marketplace shows the job as funded only after the funding has landed.
THEOREM HireImplementsProtocol == Spec => ImplementsHireProtocol
  <1>. QED
    BY InitHireInv, NextHireInv, ProtocolInit, ProtocolStep, PTL
    DEF Spec, ImplementsHireProtocol, Promise!Spec
=============================================================================
