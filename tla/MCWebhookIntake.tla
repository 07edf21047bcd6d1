-------------------------- MODULE MCWebhookIntake --------------------------
(***************************************************************************)
(* Instances of WebhookIntake for TLC.                                     *)
(***************************************************************************)
EXTENDS WebhookIntake, TLC

CONSTANTS p1, p2, update, broken, order

TwoProcesses == {p1, p2}
ThreeWebhooks == {update, broken, order}
Accepted == {update, broken}
Readable == {update, order}
Symmetry == Permutations(TwoProcesses)
=============================================================================
