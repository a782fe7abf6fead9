---------------------------- MODULE MC_EoaHire -----------------------------
(***************************************************************************)
(* EoaHire for TLC, in three scenes: two tabs meet before the fund step,   *)
(* or a second tab joins at the fund step, and no other request polls,     *)
(* reconciles or repairs; or one tab pays and every step is watched.  Tabs *)
(* and slots are interchangeable.                                          *)
(***************************************************************************)
EXTENDS EoaHire, TLC

VARIABLES scene,
          second  \* the tab that joins late or is never opened

Symmetry == Permutations(Tabs) \cup Permutations(Slots)

OpenedFor(t) ==
  CASE scene = "early" -> Steps \ {LastStep}
    [] scene = "late" /\ t = second -> {LastStep}
    [] scene = "watched" /\ t = second -> {}
    [] OTHER -> Steps

MCInit ==
  /\ Init
  /\ \/ scene = "early" /\ second = NoTab
     \/ scene \in {"late", "watched"} /\ second \in Tabs

MCNext ==
  /\ \/ \E r \in Slots : HandlerStep(r) \/ HandlerDies(r) \/ PrepareHireIntent(r)
     \/ scene = "watched" /\ \E r \in Slots : Incoming(r)
     \/ \E t \in Tabs : TabStep(t) /\ tab'[t].step \in OpenedFor(t) \cup {0}
     \/ \E x \in Hashes, outcome \in {"success", "reverted"} : Mine(x, outcome)
  /\ UNCHANGED <<scene, second>>

MCSpec == MCInit /\ [][MCNext]_<<vars, scene, second>>
=============================================================================
