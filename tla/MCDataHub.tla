------------------------------ MODULE MCDataHub -----------------------------
(***************************************************************************)
(* An instance of DataHub for TLC: two projections, one without an owner.  *)
(***************************************************************************)
EXTENDS DataHub

CONSTANTS fed, manifest, first, second

TwoProjections == {fed, manifest}

(* A graph seeded from nothing, again if an emit fails, while a run reads  *)
(* its context and seed.verify looks; and a write-back to a whole graph    *)
(* beside a reset and another run's.                                       *)
SmallScenarios ==
  {[graph |-> {}, seeds |-> 2, resets |-> 0, looks |-> 2, marks |-> 0, writes |-> FALSE],
   [graph |-> Seeded, seeds |-> 0, resets |-> 1, looks |-> 0, marks |-> 1, writes |-> TRUE]}

(* Nothing, all of it with only the answer lost, or the governance first. *)
SmallParts == {{}, Seeded, [aspect : {"governance"}, of : Projections \cup {Source}]}

(* Everything, a server without save_document, and a read-only one. *)
SmallToolSets == {Mutations, Mutations \ {"document"}, {}}
=============================================================================
