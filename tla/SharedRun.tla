----------------------------- MODULE SharedRun ------------------------------
(***************************************************************************)
(* What is left of RunMachine when several threads drive the same run,     *)
(* each from the status its own session has loaded: a transition may       *)
(* overwrite another, but it is an edge from what its writer saw, and who  *)
(* loads the run now sees what is stored now.                              *)
(***************************************************************************)
EXTENDS Workflow

CONSTANTS
  Party,    \* who may load the run
  Nobody    \* the view of a party that has not loaded it

VARIABLES
  status,     \* the run's stored status
  view,       \* the status each party believes in
  approvals,  \* the parties whose approval is recorded
  delivered   \* a pull request or a DataHub write has left Comgu for it

sharedVars == <<status, view, approvals, delivered>>

SharedInit ==
  /\ status \in {"RECEIVED", "SIGNATURE_VERIFIED"}
  /\ view = [p \in Party |-> Nobody]
  /\ approvals = {}
  /\ delivered = FALSE

(* A party loads the run.                                                  *)
Look(p) ==
  /\ view' = [view EXCEPT ![p] = status]
  /\ UNCHANGED <<status, approvals, delivered>>

(* Parties are done with the run, or die.                                  *)
Forget(gone) ==
  /\ view' = [p \in Party |-> IF p \in gone THEN Nobody ELSE view[p]]
  /\ UNCHANGED <<status, approvals, delivered>>

(* A party moves the run on from where it believes it to be.  It says      *)
(* APPROVED only after its own approval, and may be done with it.          *)
Advance(p) ==
  /\ view[p] # Nobody
  /\ status' \in Allowed[view[p]]
  /\ status' = "APPROVED" => p \in approvals
  /\ view' \in {[view EXCEPT ![p] = status'], [view EXCEPT ![p] = Nobody]}
  /\ UNCHANGED <<approvals, delivered>>

Approve(p) ==
  /\ view[p] = "AWAITING_APPROVAL"
  /\ approvals' = approvals \union {p}
  /\ UNCHANGED <<status, view, delivered>>

Deliver(p) ==
  /\ view[p] \in {"PULL_REQUEST_CREATING", "DATAHUB_WRITEBACK_PENDING"}
  /\ approvals # {}
  /\ delivered' = TRUE
  /\ view' \in {view, [view EXCEPT ![p] = Nobody]}
  /\ UNCHANGED <<status, approvals>>

SharedNext ==
  \/ \E p \in Party : Look(p) \/ Advance(p) \/ Approve(p) \/ Deliver(p)
  \/ \E gone \in SUBSET Party : Forget(gone)

SharedSpec == SharedInit /\ [][SharedNext]_sharedVars
=============================================================================
