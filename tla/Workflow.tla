------------------------------ MODULE Workflow ------------------------------
(***************************************************************************)
(* The run state machine's vocabulary: the statuses a run can have, the    *)
(* edges declared between them, the statuses a worker may resume from and  *)
(* the incident status each run status is shown as.  Constants only; the   *)
(* code that moves a run is in RunLifecycle.                               *)
(***************************************************************************)

(* The edges of the machine: a run in status s may be moved to Allowed[s]. *)
Allowed == [
  RECEIVED |-> {"SIGNATURE_VERIFIED", "NORMALIZED", "FAILED", "CANCELLED"},
  SIGNATURE_VERIFIED |-> {"NORMALIZED", "FAILED", "CANCELLED"},
  NORMALIZED |-> {"CONTEXT_PENDING", "FAILED", "CANCELLED"},
  CONTEXT_PENDING |-> {"CONTEXT_RESOLVED", "FAILED", "CANCELLED"},
  CONTEXT_RESOLVED |-> {"CHECKS_RUNNING", "FAILED", "CANCELLED"},
  CHECKS_RUNNING |-> {"CHECKS_COMPLETED", "FAILED", "CANCELLED"},
  CHECKS_COMPLETED |-> {"REMEDIATION_PLANNING", "COMPLETED", "FAILED", "CANCELLED"},
  REMEDIATION_PLANNING |-> {"AWAITING_APPROVAL", "FAILED", "CANCELLED"},
  AWAITING_APPROVAL |-> {"APPROVED", "REJECTED", "CANCELLED"},
  APPROVED |-> {"PATCH_GENERATING", "FAILED", "CANCELLED"},
  PATCH_GENERATING |-> {"PATCH_GENERATED", "FAILED", "CANCELLED"},
  PATCH_GENERATED |-> {"VALIDATION_RUNNING", "FAILED", "CANCELLED"},
  VALIDATION_RUNNING |-> {"VALIDATED", "VALIDATION_FAILED", "FAILED"},
  VALIDATION_FAILED |-> {"AWAITING_APPROVAL", "FAILED", "CANCELLED"},
  VALIDATED |-> {"PULL_REQUEST_CREATING", "DATAHUB_WRITEBACK_PENDING", "FAILED"},
  PULL_REQUEST_CREATING |-> {"PULL_REQUEST_OPENED", "FAILED", "CANCELLED"},
  PULL_REQUEST_OPENED |-> {"DATAHUB_WRITEBACK_PENDING", "FAILED"},
  DATAHUB_WRITEBACK_PENDING |-> {"DATAHUB_UPDATED", "FAILED"},
  DATAHUB_UPDATED |-> {"COMPLETED", "FAILED"},
  COMPLETED |-> {}, FAILED |-> {}, CANCELLED |-> {}, REJECTED |-> {}]

Status == DOMAIN Allowed

Terminal == {"COMPLETED", "FAILED", "CANCELLED", "REJECTED"}

(* Work owed to a worker that resumes the remediation half of a run.       *)
AfterApproval ==
  {"APPROVED", "PATCH_GENERATING", "PATCH_GENERATED", "VALIDATION_RUNNING",
   "VALIDATED", "PULL_REQUEST_CREATING", "PULL_REQUEST_OPENED",
   "DATAHUB_WRITEBACK_PENDING", "DATAHUB_UPDATED"}

(* Every status a sweep of the recovery worker selects.                    *)
Resumable ==
  {"RECEIVED", "SIGNATURE_VERIFIED", "NORMALIZED", "CONTEXT_PENDING",
   "CONTEXT_RESOLVED", "CHECKS_RUNNING", "CHECKS_COMPLETED",
   "REMEDIATION_PLANNING"} \union AfterApproval

(* The incident status a run status is shown as; the statuses that are not *)
(* in its domain leave the incident as it is.                              *)
RunToIncident == [
  CHECKS_COMPLETED |-> "open",
  REMEDIATION_PLANNING |-> "investigating",
  AWAITING_APPROVAL |-> "awaiting_approval",
  APPROVED |-> "fixing", PATCH_GENERATING |-> "fixing",
  PATCH_GENERATED |-> "fixing", VALIDATION_RUNNING |-> "fixing",
  VALIDATED |-> "fixing", PULL_REQUEST_OPENED |-> "fixing",
  DATAHUB_UPDATED |-> "fixing",
  VALIDATION_FAILED |-> "validation_failed", FAILED |-> "validation_failed",
  COMPLETED |-> "resolved",
  REJECTED |-> "dismissed", CANCELLED |-> "dismissed"]

(* The statuses an operator may give an incident by hand.                  *)
AssignableStatuses == {"open", "investigating", "dismissed"}

(* "none" stands for a run whose incident has not been opened.             *)
IncidentStatus ==
  {"none", "open", "investigating", "awaiting_approval", "fixing",
   "validation_failed", "resolved", "dismissed"}
=============================================================================
