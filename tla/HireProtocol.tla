---------------------------- MODULE HireProtocol ----------------------------
(***************************************************************************)
(* What the browser hire promises the buyer: the wallet is asked to send   *)
(* each transaction of the sequence at most once, never before the one it  *)
(* builds on has landed, and the marketplace shows the job as funded only  *)
(* after the funding transaction has landed.                               *)
(***************************************************************************)
EXTENDS Naturals

CONSTANT LastStep

VARIABLES
  sent,     \* per step: how many transactions were sent
  landed,   \* the steps whose transaction succeeded
  funded    \* the marketplace shows the job as funded

vars == <<sent, landed, funded>>

Init ==
  /\ sent = [s \in 1 .. LastStep |-> 0]
  /\ landed = {}
  /\ funded = FALSE

Send(s) ==
  /\ sent[s] = 0
  /\ s > 1 => s - 1 \in landed
  /\ sent' = [sent EXCEPT ![s] = 1]
  /\ UNCHANGED <<landed, funded>>

Land(s) ==
  /\ sent[s] = 1 /\ s \notin landed
  /\ landed' = landed \cup {s}
  /\ UNCHANGED <<sent, funded>>

Project ==
  /\ ~funded /\ LastStep \in landed
  /\ funded' = TRUE
  /\ UNCHANGED <<sent, landed>>

Next == (\E s \in 1 .. LastStep : Send(s) \/ Land(s)) \/ Project

Spec == Init /\ [][Next]_vars
=============================================================================
