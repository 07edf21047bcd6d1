----------------------------- MODULE RunMachine -----------------------------
(***************************************************************************)
(* What a run promises its reader, whoever drives it: its status moves     *)
(* only along the declared edges, a person decides at AWAITING_APPROVAL    *)
(* and the run goes the way that was decided, and nothing leaves Comgu but *)
(* from the two statuses that say so, after the latest decision approved.  *)
(***************************************************************************)
EXTENDS Workflow

VARIABLES
  status,     \* the run's status
  verdict,    \* the latest decision about it
  delivered   \* a pull request or a DataHub write has left Comgu for it

machineVars == <<status, verdict, delivered>>

MachineInit ==
  /\ status \in {"RECEIVED", "SIGNATURE_VERIFIED"}
  /\ verdict = "none"
  /\ delivered = FALSE

Advance ==
  /\ status' \in Allowed[status]
  /\ status' = "APPROVED" => verdict = "approved"
  /\ status' = "REJECTED" => verdict = "rejected"
  /\ UNCHANGED <<verdict, delivered>>

Decide ==
  /\ status = "AWAITING_APPROVAL"
  /\ verdict' \in {"approved", "rejected"}
  /\ UNCHANGED <<status, delivered>>

Deliver ==
  /\ status \in {"PULL_REQUEST_CREATING", "DATAHUB_WRITEBACK_PENDING"}
  /\ verdict = "approved"
  /\ delivered' = TRUE
  /\ UNCHANGED <<status, verdict>>

MachineSpec ==
  MachineInit /\ [][Advance \/ Decide \/ Deliver]_machineVars
=============================================================================
