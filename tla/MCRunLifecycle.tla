--------------------------- MODULE MCRunLifecycle ---------------------------
(***************************************************************************)
(* Instances of RunLifecycle for TLC.                                      *)
(***************************************************************************)
EXTENDS RunLifecycle, TLC

CONSTANTS r1, r2, r3, w1

OneRequest == {r1}
TwoRequests == {r1, r2}
ThreeRequests == {r1, r2, r3}
OneWorker == {w1}
NoWorkers == {}
OnlyFirst == {r1}
OnlySecond == {r2}
Nobody == {}

Manual == {"RECEIVED"}
Webhook == {"SIGNATURE_VERIFIED"}

Approve == {"approve"}
AllOps == {"approve", "reject", "cancel", "retry", "patch"}
RunOps == AllOps \ {"patch"}

(* Lab versions: the first is the demo's, contradicted and sound.          *)
AtNone == {}
AtFirst == {0}
AtSecond == {1}
AtThird == {2}
AtBoth == {0, 1}
AtFirstAndThird == {0, 2}

(* Patches that raise: a target is missing in the second version's files;  *)
(* a bundle of no units in the third version's.                            *)
NoPatch == {}
MissingTarget == [findings : AtFirst, files : AtSecond]
ZeroUnits == [findings : Lab, files : AtThird]
=============================================================================
