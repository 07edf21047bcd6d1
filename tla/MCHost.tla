------------------------------- MODULE MCHost -------------------------------
(***************************************************************************)
(* An instance of Host for TLC: two shops, two states and two callbacks at *)
(* once; a rule with two versions and a build that changes its source.     *)
(***************************************************************************)
EXTENDS Host, TLC

CONSTANTS parity

Build(v, c) == parity :> [version |-> v, checksum |-> c]

OldBuild == Build(1, "a")

ThreeBuilds == {OldBuild, Build(1, "b"), Build(2, "b")}

Quiet ==
  [installs |-> 0, callbacks |-> 0, scripts |-> 0, tests |-> 0, faults |-> 0,
   deploys |-> 0, slow |-> 0, outages |-> 0]

(* Installs through a failure; a deployment, a roll-back and a script; and *)
(* everything the watchdog looks at.                                       *)
SmallScenarios ==
  {[Quiet EXCEPT !.installs = 2, !.callbacks = 2, !.faults = 1],
   [Quiet EXCEPT !.scripts = 1, !.tests = 1, !.deploys = 2],
   [Quiet EXCEPT !.scripts = 1, !.faults = 1, !.slow = 1, !.outages = 1]}
=============================================================================
