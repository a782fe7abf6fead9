----------------------------- MODULE JobPromise -----------------------------
(***************************************************************************)
(* What is promised of the work on a hired job: the notification of an     *)
(* external seller and the search for its submission (ExternalDelivery),   *)
(* and the job a process-local repository keeps (JobLifecycle).            *)
(***************************************************************************)
EXTENDS Naturals, Sequences

CONSTANTS Keys, Lead, Horizon, Expiry, MinBudget, MaxBudget, InputDefects, MaxTime, MaxWaiting, \* JobLifecycle
          None

VARIABLES block, delivery, posts,                     \* ExternalDelivery
          clock, stored, events, actions, waiting     \* JobLifecycle

Lifecycle == INSTANCE JobLifecycle

(* The seller is notified at most once for a job, whatever requests overlap,
   crash or lose their answer (notifyExternalSellerOnce: "A crash after claim
   or POST is never interpreted as permission to repeat execution"). *)
OnePostPerJob == posts <= 1

(* The stored cursor never passes over the submission, so a later refresh can
   still find it (refresh: "A failed RPC window never advances cursor"), also
   when unfinalized blocks are reorganised. *)
CursorMissesNothing == delivery # None /\ block > 0 => delivery.cursor < block

(* The job kept by repository.ts is exactly what its events make of it, applied
   in order: of transitions that overlap, none loses what another committed. *)
JobIsItsEvents == Lifecycle!JobIsItsEvents
=============================================================================
