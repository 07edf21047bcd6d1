--------------------------- MODULE MCLabCheckout ---------------------------
(***************************************************************************)
(* Instances of LabCheckout for TLC: runs and files are interchangeable.   *)
(***************************************************************************)
EXTENDS LabCheckout, TLC

Symmetry == Permutations(Runs) \cup Permutations(Files)
=============================================================================
