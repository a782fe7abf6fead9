--------------------------- MODULE ServicePromise ---------------------------
(***************************************************************************)
(* What the bounded reference provider promises of the submissions it      *)
(* sends (ReferenceService).                                               *)
(***************************************************************************)
EXTENDS Naturals, Sequences

VARIABLES slots,     \* reference_provider_slots, by slot number
          slotOps,   \* the submit operation of each job
          sent       \* broadcasts of each job's submission

(* A slot's submission is broadcast at most once, and by then its hash is
   stored on the slot and on the operation, whatever crashes and whichever
   workers run (t5-reference-service.ts boundedSubmit: "Persist the signed
   transaction's PUBLIC hash/nonce BEFORE broadcast"). *)
SubmittedOnce ==
  \A i \in DOMAIN slots :
    LET j == slots[i].job
    IN /\ sent[j] <= 1
       /\ sent[j] = 1 => slots[i].hash /\ slotOps[j].hash = j
=============================================================================
