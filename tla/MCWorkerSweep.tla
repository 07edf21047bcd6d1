--------------------------- MODULE MCWorkerSweep ---------------------------
(***************************************************************************)
(* Instances of WorkerSweep for TLC: two workers.                          *)
(***************************************************************************)
EXTENDS WorkerSweep

CONSTANTS w1, w2

TwoWorkers == {w1, w2}
=============================================================================
