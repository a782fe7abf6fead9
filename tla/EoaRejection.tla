---------------------------- MODULE EoaRejection ----------------------------
(***************************************************************************)
(* The browser hire with one history variable: the steps that are open     *)
(* again because the buyer rejected the wallet prompt and the server       *)
(* recorded the release.                                                   *)
(***************************************************************************)
EXTENDS EoaHire

VARIABLE reopened

RejectionInit == Init /\ reopened = {}

\* A step enters when releaseExternalDispatch wins its CAS, and leaves when it is
\* claimed again or a transaction is reported for it.
RejectionNext ==
  /\ Next
  /\ reopened' =
       {s \in Steps : ~rows'[s].claimed /\ rows'[s].hash = NoHash} \cap
       (reopened \cup {s \in Steps : CanRelease(rows[s]) /\ CanClaim(rows'[s])})

RejectionSpec == RejectionInit /\ [][RejectionNext]_<<vars, reopened>>

\* docs/UI-UX-ACTION-INVENTORY.md on an explicit rejection: "Claim release may be
\* recorded; keep operation resume path": a step that was released stays claimable.
RejectedStepStaysResumable == \A s \in reopened : CanClaim(rows[s])
=============================================================================
