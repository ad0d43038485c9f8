---------------------------- MODULE MCSessionRun ----------------------------
(* Instances of SessionRun for TLC. *)
EXTENDS SessionRun, TLC

CONSTANTS c1, c2, l1, l2

OneClient == {c1}
TwoClients == {c1, c2}
TwoLoops == {l1, l2}
Symmetry == Permutations(TwoClients) \cup Permutations(TwoLoops)

\* Approvals are tried with two intents and without a crash; turns alone with all.
ApprovalsAlone == Len(approvals) = 0 \/ (crashes = 0 /\ submitted <= 2)
=============================================================================
