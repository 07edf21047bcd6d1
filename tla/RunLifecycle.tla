---------------------------- MODULE RunLifecycle ----------------------------
(***************************************************************************)
(* One run of Comgu, from the commit that creates its row to the state it  *)
(* stops in, and everything that moves it: the API's background tasks, the *)
(* operator requests that decide about it and the recovery workers.        *)
(*                                                                         *)
(* Every thread has a database session of its own, loads the run once and  *)
(* never reloads it, so `mem' (the status the thread believes in) may lag  *)
(* behind `status' (the row).  An action is one commit, or one call to a   *)
(* system outside the database; between two actions of a thread any other  *)
(* thread may run or the process may crash.                                *)
(***************************************************************************)
EXTENDS Workflow, Naturals, FiniteSets

CONSTANTS
  Creator,        \* the background task of the request that created the run
  Requests,       \* operator requests; an approval's task runs as its request
  Workers,        \* recovery worker processes
  None,
  Triggers,       \* the statuses a run is created in: manual or webhook
  Ops,            \* what operators do: approve, reject, cancel, retry, patch
  LivePrincipals, \* the requests whose caller pr_live_allowed accepts
  RepoConfigured, \* whether GITHUB_LAB_REPO is set
  MaxLab,         \* bound: the lab checkout has the versions 0..MaxLab
  Contradicted,   \* the versions in which the rules find contradictions
  Unreadable,     \* those whose catalogue or projections cannot be read
  Unpatchable,    \* the patches whose generation raises, however often it is tried
  MaxBusy,        \* bound: how many threads are under way at the same time
  MaxCrashes,     \* bound: process crashes
  MaxFaults       \* bound: failures of DataHub and of the lab checkout

Lab == 0 .. MaxLab

(* A generated patch: the lab version its findings come from and the one   *)
(* its workspace was copied from.                                          *)
Patches == [findings : Lab, files : Lab]

ApiThreads == {Creator} \union Requests
Threads == ApiThreads \union Workers

ASSUME ThreadsAssumption ==
  /\ Creator \notin Requests \union Workers
  /\ Requests \intersect Workers = {}
  /\ None \notin Threads /\ None \notin Status /\ None \notin Lab /\ None \notin Patches
ASSUME ScopeAssumption ==
  /\ Triggers \subseteq {"RECEIVED", "SIGNATURE_VERIFIED"}
  /\ Ops \subseteq {"approve", "reject", "cancel", "retry", "patch"}
  /\ LivePrincipals \subseteq Requests
  /\ RepoConfigured \in BOOLEAN
ASSUME BoundsAssumption ==
  /\ MaxBusy \in Nat /\ MaxLab \in Nat /\ MaxCrashes \in Nat /\ MaxFaults \in Nat
  /\ Contradicted \subseteq Lab /\ Unreadable \subseteq Lab
  /\ Unpatchable \subseteq Patches

VARIABLES
  status,    \* runs.status
  lease,     \* runs.locked_by, and whether runs.locked_at is recent
  row,       \* what the rows that hang off the run say
  incident,  \* how many incidents the run has, and the status of the first
  outside,   \* what GitHub and DataHub have been told
  lab,       \* the version of the lab checkout
  pc,        \* the step a thread is at
  local,     \* a thread's session and locals
  spent      \* crashes and faults so far

vars == <<status, lease, row, incident, outside, lab, pc, local, spent>>

(* row.plan is the lab version plan v1 was made from; row.approvals the    *)
(* requests whose approvals row approves and row.verdict the decision of   *)
(* the latest such row; row.validated the patches that have a validation   *)
(* row that passed, row.validation the status of the latest such row.      *)
NoRows == [snapshot |-> FALSE, plan |-> None, approvals |-> {}, verdict |-> "none",
           artifact |-> FALSE, validated |-> {}, validation |-> "none",
           pr |-> "none", writeback |-> "none"]

(* A thread that has no session.  mem and held are what the session knows  *)
(* of runs.status and runs.locked_at; view is the lab version the thread's *)
(* findings come from; patch: the patch it holds; live: pr_live;           *)
(* passed: the validation row it read before publishing passed; result:    *)
(* what the last call outside returned, until it is recorded.              *)
Closed == [mem |-> None, held |-> FALSE, view |-> 0, patch |-> None,
           live |-> FALSE, passed |-> FALSE, result |-> "none"]

NoLease == [by |-> None, fresh |-> FALSE]

-----------------------------------------------------------------------------
(* The steps of a thread.  A step in DOMAIN Target is a call of transition *)
(* to that status.                                                         *)

Target == [
  \* advance_to_approval
  normalize |-> "NORMALIZED", pend |-> "CONTEXT_PENDING",
  resolve |-> "CONTEXT_RESOLVED", checks |-> "CHECKS_RUNNING",
  checked |-> "CHECKS_COMPLETED", clean |-> "COMPLETED",
  planning |-> "REMEDIATION_PLANNING", await |-> "AWAITING_APPROVAL",
  giveup |-> "FAILED",
  \* advance_after_approval
  generating |-> "PATCH_GENERATING", generated |-> "PATCH_GENERATED",
  validating |-> "VALIDATION_RUNNING", valid |-> "VALIDATED",
  creating |-> "PULL_REQUEST_CREATING", opened |-> "PULL_REQUEST_OPENED",
  pending |-> "DATAHUB_WRITEBACK_PENDING", updated |-> "DATAHUB_UPDATED",
  complete |-> "COMPLETED",
  \* the operator's handlers
  approving |-> "APPROVED", rejecting |-> "REJECTED",
  cancelling |-> "CANCELLED", retrying |-> "AWAITING_APPROVAL"]

(* The steps that do something else: a call outside, a row, a decision.    *)
WorkSteps ==
  {"idle", "invalid", "queued", "claim", "release", "done", "follow", "context", "rules",
   "open", "insert", "attach", "plan", "rebuild", "generate", "validate",
   "publish", "openpr", "recordpr", "writeback", "recordwb", "approve", "reject"}

Steps == DOMAIN Target \union WorkSteps

(* Where a thread goes when its work on the run is over.                   *)
Over(t) == IF t \in Workers THEN "release" ELSE "done"

(* Where advance_to_approval enters for a run it finds in status s.  It    *)
(* has no branch for SIGNATURE_VERIFIED, CHECKS_RUNNING or                 *)
(* REMEDIATION_PLANNING: it returns at once.                               *)
ToApproval(t, s) ==
  CASE s = "RECEIVED" -> "normalize"
    [] s = "NORMALIZED" -> "pend"
    [] s = "CONTEXT_PENDING" -> "context"
    [] s = "CONTEXT_RESOLVED" -> "checks"
    [] s = "CHECKS_COMPLETED" -> "planning"
    [] OTHER -> Over(t)

(* Where advance_after_approval enters, once it has rebuilt the context.   *)
(* No branch for VALIDATION_RUNNING, PULL_REQUEST_CREATING or              *)
(* DATAHUB_WRITEBACK_PENDING.                                              *)
AfterRebuild(t, s) ==
  CASE s = "APPROVED" -> "generating"
    [] s = "PATCH_GENERATING" -> "generate"
    [] s = "PATCH_GENERATED" -> "validating"
    [] s = "VALIDATED" -> "publish"
    [] s = "PULL_REQUEST_OPENED" -> "publish"
    [] s = "DATAHUB_UPDATED" -> "complete"
    [] OTHER -> Over(t)

(* What a thread does once it has moved the run to s and its incident has  *)
(* followed; v is the lab version behind its findings.                     *)
AfterMove(t, s, v) ==
  CASE s = "NORMALIZED" -> "pend"
    [] s = "CONTEXT_PENDING" -> "context"
    [] s = "CONTEXT_RESOLVED" -> "checks"
    [] s = "CHECKS_RUNNING" -> "rules"
    [] s = "CHECKS_COMPLETED" -> IF v \in Contradicted THEN "open" ELSE "clean"
    [] s = "REMEDIATION_PLANNING" -> "plan"
    [] s = "APPROVED" -> "queued"
    [] s = "PATCH_GENERATING" -> "generate"
    [] s = "PATCH_GENERATED" -> "validating"
    [] s = "VALIDATION_RUNNING" -> "validate"
    [] s = "VALIDATED" -> "publish"
    [] s = "PULL_REQUEST_CREATING" -> "openpr"
    [] s = "PULL_REQUEST_OPENED" -> "pending"
    [] s = "DATAHUB_WRITEBACK_PENDING" -> "writeback"
    [] s = "DATAHUB_UPDATED" -> "complete"
    [] OTHER -> Over(t)

-----------------------------------------------------------------------------
Init ==
  /\ status \in Triggers
  /\ lease = NoLease
  /\ row = NoRows
  /\ incident = [rows |-> 0, status |-> "none"]
  /\ outside = [github |-> None, datahub |-> FALSE]
  /\ lab = 0
  /\ pc = [t \in Threads |-> IF t = Creator THEN "queued" ELSE "idle"]
  /\ local = [t \in Threads |-> Closed]
  /\ spent = [crashes |-> 0, faults |-> 0]

At(t, step) == pc[t] = step
Goto(t, step) == pc' = [pc EXCEPT ![t] = step]
Keep(t, l) == local' = [local EXCEPT ![t] = l]

(* A session's first read of the run.                                      *)
Load == [Closed EXCEPT !.mem = status, !.held = (lease.by # None)]

(* The thread's work on the run is over, by return or by an exception that *)
(* its coroutine lets through and that moves the run nowhere; the finally  *)
(* clause discards the workspace.  A worker still has a lease to release.  *)
Leave(t) ==
  /\ Goto(t, Over(t))
  /\ Keep(t, IF t \in Workers THEN [Closed EXCEPT !.held = local[t].held] ELSE Closed)

(* A failure that may not come back: DataHub is unreachable, a git command *)
(* or one of the lab's transforms times out.                               *)
Fault == spent.faults < MaxFaults /\ spent' = [spent EXCEPT !.faults = @ + 1]

(* transition: guarded by the status in memory, written whatever the row   *)
(* holds by now.  A terminal status clears the lease the session knows of. *)
Move(t) ==
  /\ pc[t] \in DOMAIN Target
  /\ LET to == Target[pc[t]]
         clears == to \in Terminal /\ local[t].held
     IN /\ to \in Allowed[local[t].mem]
        /\ status' = to
        /\ lease' = IF clears THEN NoLease ELSE lease
        /\ Keep(t, [local[t] EXCEPT !.mem = to, !.held = @ /\ ~clears])
  /\ Goto(t, "follow")
  /\ UNCHANGED <<row, incident, outside, lab, spent>>

(* The one transition of a driver that leaves the incident behind.         *)
FailValidation(t) ==
  /\ At(t, "invalid")
  /\ "VALIDATION_FAILED" \in Allowed[local[t].mem]
  /\ status' = "VALIDATION_FAILED"
  /\ Leave(t)
  /\ UNCHANGED <<lease, row, incident, outside, lab, spent>>

(* follow_run, for a session that has the run in status s.                 *)
FollowRun(s) ==
  incident' = IF incident.rows > 0 /\ s \in DOMAIN RunToIncident
              THEN [incident EXCEPT !.status = RunToIncident[s]] ELSE incident

(* A mutant of Follow: the operators' handlers forget follow_run.          *)
OperatorsDoNotFollow(t) ==
  /\ At(t, "follow")
  /\ IF t \in Requests /\ local[t].mem \in Terminal
     THEN UNCHANGED incident ELSE FollowRun(local[t].mem)
  /\ LET next == AfterMove(t, local[t].mem, local[t].view)
     IN CASE next = Over(t) -> Leave(t)
          [] next = "queued" -> Goto(t, next) /\ Keep(t, [Closed EXCEPT !.live = local[t].live])
          [] OTHER -> Goto(t, next) /\ UNCHANGED local
  /\ UNCHANGED <<status, lease, row, outside, lab, spent>>

(* A thread has moved the run and moves its incident; then its next step.  *)
(* An approval's handler is done and has scheduled the remediation.        *)
Follow(t) ==
  /\ At(t, "follow")
  /\ FollowRun(local[t].mem)
  /\ LET next == AfterMove(t, local[t].mem, local[t].view)
     IN CASE next = Over(t) -> Leave(t)
          [] next = "queued" -> Goto(t, next) /\ Keep(t, [Closed EXCEPT !.live = local[t].live])
          [] OTHER -> Goto(t, next) /\ UNCHANGED local
  /\ UNCHANGED <<status, lease, row, outside, lab, spent>>

-----------------------------------------------------------------------------
(* advance_to_approval, between its transitions.                           *)

(* A background task opens a session and loads the run.                    *)
Start(t) ==
  /\ At(t, "queued")
  /\ Goto(t, IF t = Creator THEN ToApproval(t, status) ELSE "rebuild")
  /\ Keep(t, [Load EXCEPT !.live = local[t].live])
  /\ UNCHANGED <<status, lease, row, incident, outside, lab, spent>>

(* load_catalog and build_projections on the lab as it is now: a lab they  *)
(* cannot read raises at every attempt, one they can read may fail once.   *)
Readable == lab \notin Unreadable

LabRaises(t) ==
  /\ Leave(t)
  /\ \/ Fault
     \/ ~Readable /\ UNCHANGED spent

(* Read the lab, then DataHub: an unreadable lab raises, an unreachable    *)
(* DataHub fails the run, else the snapshot is stored.                     *)
ResolveContext(t) ==
  /\ At(t, "context")
  /\ \/ /\ Readable
        /\ Goto(t, "resolve")
        /\ row' = [row EXCEPT !.snapshot = TRUE]
        /\ UNCHANGED <<local, spent>>
     \/ Readable /\ Fault /\ Goto(t, "giveup") /\ UNCHANGED <<local, row>>
     \/ LabRaises(t) /\ UNCHANGED row
  /\ UNCHANGED <<status, lease, incident, outside, lab>>

(* Rebuild the context from the lab as it is, run the rules, store what    *)
(* they found.  A graph without an authoritative asset fails the run.      *)
RunRules(t) ==
  /\ At(t, "rules")
  /\ \/ /\ Readable
        /\ Goto(t, "checked")
        /\ Keep(t, [local[t] EXCEPT !.view = lab])
        /\ UNCHANGED spent
     \/ Readable /\ Fault /\ Goto(t, "giveup") /\ UNCHANGED local
     \/ LabRaises(t)
  /\ UNCHANGED <<status, lease, row, incident, outside, lab>>

(* open_for_run looks for the run's incident and inserts one if it found   *)
(* none; no constraint backs the check.  Then an incident that was found   *)
(* follows the run; one that was inserted says "open" already.             *)
FindIncident(t) ==
  /\ At(t, "open")
  /\ Goto(t, CASE incident.rows = 0 -> "insert"
               [] incident.rows > 0 /\ incident.status # "open" -> "attach"
               [] OTHER -> "planning")
  /\ UNCHANGED <<status, lease, row, incident, outside, lab, local, spent>>

InsertIncident(t) ==
  /\ At(t, "insert")
  /\ incident' = [rows |-> incident.rows + 1,
                  status |-> IF incident.rows = 0 THEN "open" ELSE incident.status]
  /\ Goto(t, "planning")
  /\ UNCHANGED <<status, lease, row, outside, lab, local, spent>>

AttachIncident(t) ==
  /\ At(t, "attach")
  /\ FollowRun(local[t].mem)
  /\ Goto(t, "planning")
  /\ UNCHANGED <<status, lease, row, outside, lab, local, spent>>

(* Plan from the lab as it is now.  Without findings the deterministic     *)
(* plan has no action and its schema refuses it; a second plan v1 breaks   *)
(* the unique constraint, and the failed session keeps a worker's finally  *)
(* clause from releasing the lease.                                        *)
MakePlan(t) ==
  /\ At(t, "plan")
  /\ \/ /\ Readable /\ lab \in Contradicted /\ row.plan = None
        /\ row' = [row EXCEPT !.plan = lab]
        /\ Goto(t, "await")
        /\ UNCHANGED <<local, spent>>
     \/ /\ Readable /\ lab \in Contradicted /\ row.plan # None
        /\ Goto(t, IF t \in Workers THEN "idle" ELSE "done") /\ Keep(t, Closed)
        /\ UNCHANGED <<row, spent>>
     \/ Readable /\ lab \notin Contradicted /\ Leave(t) /\ UNCHANGED <<row, spent>>
     \/ LabRaises(t) /\ UNCHANGED row
  /\ UNCHANGED <<status, lease, incident, outside, lab>>

-----------------------------------------------------------------------------
(* advance_after_approval, between its transitions.                        *)

(* The snapshot's graph, but the catalogue, the projections and so the     *)
(* findings of the lab as it is now.                                       *)
Rebuild(t) ==
  /\ At(t, "rebuild")
  /\ \/ /\ row.snapshot /\ Readable
        /\ Goto(t, AfterRebuild(t, local[t].mem))
        /\ Keep(t, [local[t] EXCEPT !.view = lab])
        /\ UNCHANGED spent
     \/ ~row.snapshot /\ Leave(t) /\ UNCHANGED spent
     \/ LabRaises(t)
  /\ UNCHANGED <<status, lease, row, incident, outside, lab>>

(* What a thread generates: the templates of its findings, applied to a    *)
(* copy of the lab as it is now.                                           *)
Generated(t) == [findings |-> local[t].view, files |-> lab]

(* generate catches a refused path and an unknown template, nothing else:  *)
(* a bundle of zero units, a YAML file where the AI manifest is expected   *)
(* and a target that is not there raise, and raise again at every resume.  *)
Generate(t) ==
  /\ At(t, "generate")
  /\ \/ /\ Generated(t) \notin Unpatchable
        /\ Keep(t, [local[t] EXCEPT !.patch = Generated(t)])
        /\ row' = [row EXCEPT !.artifact = TRUE]
        /\ Goto(t, "generated")
        /\ UNCHANGED spent
     \/ Generated(t) \in Unpatchable /\ Leave(t) /\ UNCHANGED <<row, spent>>
     \/ Fault /\ Leave(t) /\ UNCHANGED row
  /\ UNCHANGED <<status, lease, incident, outside, lab>>

(* A mutant of Validate: the result is stored and not looked at.           *)
ResultIgnored(t) ==
  /\ At(t, "validate")
  /\ \/ local[t].patch = None /\ Leave(t) /\ UNCHANGED row
     \/ /\ local[t].patch # None
        /\ \/ row' = [row EXCEPT !.validation = "passed",
                                 !.validated = @ \union {local[t].patch}]
           \/ row' = [row EXCEPT !.validation = "failed"]
        /\ Goto(t, "valid")
        /\ UNCHANGED local
  /\ UNCHANGED <<status, lease, incident, outside, lab, spent>>

(* Run the lab's tests on the patched copy.  A thread that resumed from    *)
(* PATCH_GENERATED has no patch object and raises.                         *)
Validate(t) ==
  /\ At(t, "validate")
  /\ \/ local[t].patch = None /\ Leave(t) /\ UNCHANGED row
     \/ /\ local[t].patch # None
        /\ \/ /\ Goto(t, "valid")
              /\ row' = [row EXCEPT !.validation = "passed",
                                    !.validated = @ \union {local[t].patch}]
           \/ /\ Goto(t, "invalid")
              /\ row' = [row EXCEPT !.validation = "failed"]
        /\ UNCHANGED local
  /\ UNCHANGED <<status, lease, incident, outside, lab, spent>>

(* A mutant of Publish: the pull request is opened before the transition.  *)
PublishesFirst(t) ==
  /\ At(t, "publish")
  /\ Keep(t, [local[t] EXCEPT !.passed = (row.validation = "passed")])
  /\ Goto(t, IF local[t].mem = "VALIDATED" /\ RepoConfigured /\ local[t].patch # None
             THEN "openpr" ELSE "pending")
  /\ UNCHANGED <<status, lease, row, incident, outside, lab, spent>>

(* Read the latest validation row, then decide whether there is a pull     *)
(* request to create.                                                      *)
Publish(t) ==
  /\ At(t, "publish")
  /\ Keep(t, [local[t] EXCEPT !.passed = (row.validation = "passed")])
  /\ Goto(t, IF local[t].mem = "VALIDATED" /\ RepoConfigured /\ local[t].patch # None
             THEN "creating" ELSE "pending")
  /\ UNCHANGED <<status, lease, row, incident, outside, lab, spent>>

(* open_pull_request refuses a failed validation and an empty patch; the   *)
(* patch of a contradicted version is empty too when every fix needs a     *)
(* person.  A dry run stops short of GitHub.                               *)
Proposes(t) == local[t].passed /\ local[t].patch.findings \in Contradicted
Pushes(t) == Proposes(t) /\ local[t].live

(* A mutant of PullRequestStatus: the state GitHub lists is taken over.    *)
GitHubStates == {"failed", "dry_run", "open", "closed"}

PullRequestStatus == {"failed", "dry_run", "open"}

(* A mutant of OpenPullRequest: a push that fails is not noticed.          *)
PushUnchecked(t) ==
  /\ At(t, "openpr")
  /\ outside' \in {outside} \union
       IF Pushes(t) THEN {[outside EXCEPT !.github = local[t].patch]} ELSE {}
  /\ Keep(t, [local[t] EXCEPT !.result = IF Pushes(t) THEN "open" ELSE "failed"])
  /\ Goto(t, "recordpr")
  /\ UNCHANGED <<status, lease, row, incident, lab, spent>>

(* It returns "failed" when it refuses, when the push fails, and when no   *)
(* pull request could be created for the branch it has pushed.  A git      *)
(* command that fails or times out anywhere else raises.  The push is one  *)
(* step of this thread's own patch here; what others may do to it in the   *)
(* shared checkout is in LabCheckout.                                      *)
OpenPullRequest(t) ==
  /\ At(t, "openpr")
  /\ outside' \in {outside} \union
       IF Pushes(t) THEN {[outside EXCEPT !.github = local[t].patch]} ELSE {}
  /\ \/ /\ \E outcome \in PullRequestStatus :
             /\ outcome = "dry_run" => Proposes(t) /\ ~Pushes(t)
             /\ outcome = "open" => Pushes(t) /\ outside'.github = local[t].patch
             /\ Keep(t, [local[t] EXCEPT !.result = outcome])
        /\ Goto(t, "recordpr")
        /\ UNCHANGED spent
     \/ Fault /\ Leave(t)
  /\ UNCHANGED <<status, lease, row, incident, lab>>

(* The row is stored and the run moves on, whatever the outcome was.       *)
RecordPullRequest(t) ==
  /\ At(t, "recordpr")
  /\ row' = [row EXCEPT !.pr = local[t].result]
  /\ Keep(t, [local[t] EXCEPT !.result = "none"])
  /\ Goto(t, "opened")
  /\ UNCHANGED <<status, lease, incident, outside, lab, spent>>

(* A call of the write-back reaches DataHub, whether its answer arrives or *)
(* not; without findings there is no asset to write to.  The process may   *)
(* die, or the write-back fail or raise, before or after it.               *)
CallLands(t) ==
  /\ At(t, "writeback")
  /\ local[t].view \in Contradicted
  /\ ~outside.datahub
  /\ outside' = [outside EXCEPT !.datahub = TRUE]
  /\ UNCHANGED <<status, lease, row, incident, lab, pc, local, spent>>

(* The write-back returns, or its session raises: nothing catches          *)
(* DataHubUnavailable here.  "written" stands for verified and partial, of *)
(* which some call was answered.                                           *)
WriteBack(t) ==
  /\ At(t, "writeback")
  /\ \/ \E outcome \in {"written", "failed"} :
          /\ outcome = "written" => local[t].view \in Contradicted /\ outside.datahub
          /\ Keep(t, [local[t] EXCEPT !.result = outcome])
          /\ Goto(t, "recordwb")
          /\ UNCHANGED spent
     \/ Fault /\ Leave(t)
  /\ UNCHANGED <<status, lease, row, incident, outside, lab>>

(* A mutant of RecordWriteback: the last transitions are somebody else's.  *)
StopsAfterWriteback(t) ==
  /\ At(t, "recordwb")
  /\ row' = [row EXCEPT !.writeback = local[t].result]
  /\ Leave(t)
  /\ UNCHANGED <<status, lease, incident, outside, lab, spent>>

RecordWriteback(t) ==
  /\ At(t, "recordwb")
  /\ row' = [row EXCEPT !.writeback = local[t].result]
  /\ Keep(t, [local[t] EXCEPT !.result = "none"])
  /\ Goto(t, "updated")
  /\ UNCHANGED <<status, lease, incident, outside, lab, spent>>

-----------------------------------------------------------------------------
(* Operators.  A handler reads the run once, answers 404 or 409 without    *)
(* changing anything, or goes on to write from what it read.               *)

(* Nothing in the code keeps two threads from driving the same run; with   *)
(* MaxBusy = 1 nobody starts on a run that somebody else is driving.       *)
MayStart(t) ==
  Cardinality({u \in Threads \ {t} : pc[u] \notin {"idle", "done"}}) < MaxBusy

Read(t, step) ==
  /\ At(t, "idle") /\ MayStart(t)
  /\ Keep(t, Load)
  /\ Goto(t, step)
  /\ UNCHANGED <<status, lease, row, incident, outside, lab, spent>>

BeginApprove(r) ==
  /\ "approve" \in Ops
  /\ status = "AWAITING_APPROVAL" /\ row.plan # None /\ row.snapshot
  /\ Read(r, "approve")

(* A mutant of PrLive: the instance's setting, whoever the caller is.      *)
LiveFromSetting(r) == TRUE

(* Whether the task of an approval may push, from the capabilities of the  *)
(* caller.                                                                 *)
PrLive(r) == r \in LivePrincipals

(* A mutant of RecordApproval: the decision is not committed.              *)
ApprovalUnrecorded(r) ==
  /\ At(r, "approve")
  /\ row' = [row EXCEPT !.verdict = "approved"]
  /\ Keep(r, [local[r] EXCEPT !.live = PrLive(r)])
  /\ Goto(r, "approving")
  /\ UNCHANGED <<status, lease, incident, outside, lab, spent>>

(* The approval is a commit of its own, before the transition.             *)
RecordApproval(r) ==
  /\ At(r, "approve")
  /\ row' = [row EXCEPT !.approvals = @ \union {r}, !.verdict = "approved"]
  /\ Keep(r, [local[r] EXCEPT !.live = PrLive(r)])
  /\ Goto(r, "approving")
  /\ UNCHANGED <<status, lease, incident, outside, lab, spent>>

(* A mutant of BeginReject: a decision is taken at any time.               *)
RejectsAnytime(r) ==
  /\ "reject" \in Ops
  /\ status \notin Terminal
  /\ Read(r, "reject")

BeginReject(r) ==
  /\ "reject" \in Ops
  /\ status = "AWAITING_APPROVAL"
  /\ Read(r, "reject")

RecordRejection(r) ==
  /\ At(r, "reject")
  /\ row' = [row EXCEPT !.verdict = "rejected"]
  /\ Goto(r, "rejecting")
  /\ UNCHANGED <<status, lease, incident, outside, lab, local, spent>>

(* A mutant of BeginCancel: no look at the edge.                           *)
CancelsAnything(r) ==
  /\ "cancel" \in Ops
  /\ Read(r, "cancelling")

BeginCancel(r) ==
  /\ "cancel" \in Ops
  /\ "CANCELLED" \in Allowed[status]
  /\ Read(r, "cancelling")

BeginRetry(r) ==
  /\ "retry" \in Ops
  /\ status = "VALIDATION_FAILED"
  /\ Read(r, "retrying")

(* patch_incident refuses the statuses that mirror the run.                *)
PatchIncident(r) ==
  /\ "patch" \in Ops
  /\ At(r, "idle") /\ MayStart(r)
  /\ incident.rows > 0
  /\ \E to \in AssignableStatuses : incident' = [incident EXCEPT !.status = to]
  /\ Goto(r, "done")
  /\ UNCHANGED <<status, lease, row, outside, lab, local, spent>>

-----------------------------------------------------------------------------
(* The recovery worker.                                                    *)

(* A mutant of Sweep: a lease is never reclaimed.                          *)
StaleLeasesStay(w) ==
  /\ status \in Resumable
  /\ lease.by = None
  /\ Read(w, "claim")

(* Select the run: resumable, and no lease or a stale one.                 *)
Sweep(w) ==
  /\ status \in Resumable
  /\ ~lease.fresh
  /\ Read(w, "claim")

(* A mutant of ResumedLive: a resumed run may push.                        *)
ResumesLive == TRUE

(* A worker resumes with pr_live=False: nobody is there to authorise it.   *)
ResumedLive == FALSE

(* claim tests the lease as the sweep loaded it, which the sweep's own     *)
(* filter has already accepted, so it always takes the lease.              *)
Claim(w) ==
  /\ At(w, "claim")
  /\ lease' = [by |-> w, fresh |-> TRUE]
  /\ Keep(w, [local[w] EXCEPT !.held = TRUE, !.live = ResumedLive])
  /\ LET s == local[w].mem
     IN Goto(w, IF s \in AfterApproval THEN "rebuild" ELSE ToApproval(w, s))
  /\ UNCHANGED <<status, row, incident, outside, lab, spent>>

(* The finally clause: clears whatever lease the row has by now, unless    *)
(* this session's own terminal transition has cleared it.                  *)
Release(w) ==
  /\ At(w, "release")
  /\ lease' = IF local[w].held THEN NoLease ELSE lease
  /\ Keep(w, Closed)
  /\ Goto(w, "idle")
  /\ UNCHANGED <<status, row, incident, outside, lab, spent>>

-----------------------------------------------------------------------------
(* The environment.                                                        *)

(* LEASE_SECONDS have passed since the claim; nothing renews a lease.      *)
LeaseExpires ==
  /\ lease.fresh
  /\ lease' = [lease EXCEPT !.fresh = FALSE]
  /\ UNCHANGED <<status, row, incident, outside, lab, pc, local, spent>>

(* A merchant's change, a merged pull request or a demo reset.             *)
LabChanges ==
  /\ lab' \in Lab \ {lab}
  /\ UNCHANGED <<status, lease, row, incident, outside, pc, local, spent>>

(* A process dies: its threads lose what they hold, the database and the   *)
(* world keep what was done.  The API's threads are one process, and a     *)
(* request or task that was under way does not come back.                  *)
Crash(victims, resting) ==
  /\ spent.crashes < MaxCrashes
  /\ spent' = [spent EXCEPT !.crashes = @ + 1]
  /\ \E t \in victims : pc[t] \notin {"idle", "done"}
  /\ pc' = [t \in Threads |->
             IF t \in victims /\ pc[t] # "idle" THEN resting ELSE pc[t]]
  /\ local' = [t \in Threads |-> IF t \in victims THEN Closed ELSE local[t]]
  /\ UNCHANGED <<status, lease, row, incident, outside, lab>>

CrashApi == Crash(ApiThreads, "done")
CrashWorker(w) == Crash({w}, "idle")

-----------------------------------------------------------------------------
(* A step of a thread that drives the run.                                 *)
Drive(t) ==
  \/ Start(t) \/ Move(t) \/ Follow(t) \/ FailValidation(t)
  \/ ResolveContext(t) \/ RunRules(t)
  \/ FindIncident(t) \/ InsertIncident(t) \/ AttachIncident(t) \/ MakePlan(t)
  \/ Rebuild(t) \/ Generate(t) \/ Validate(t) \/ Publish(t)
  \/ OpenPullRequest(t) \/ RecordPullRequest(t)
  \/ CallLands(t) \/ WriteBack(t) \/ RecordWriteback(t)

Handle(r) == RecordApproval(r) \/ RecordRejection(r)

Operate(r) ==
  \/ BeginApprove(r) \/ BeginReject(r) \/ BeginCancel(r) \/ BeginRetry(r)
  \/ PatchIncident(r)

Recover(w) == Sweep(w) \/ Claim(w) \/ Release(w)

Next ==
  \/ \E t \in Threads : Drive(t)
  \/ \E r \in Requests : Operate(r) \/ Handle(r)
  \/ \E w \in Workers : Recover(w) \/ CrashWorker(w)
  \/ LeaseExpires \/ LabChanges \/ CrashApi

Spec == Init /\ [][Next]_vars

(* A live process runs its threads, a worker polls for ever and time       *)
(* passes.  No operator has to act, and nothing has to fail.               *)
Fairness ==
  /\ \A t \in Threads : WF_vars(Drive(t))
  /\ \A r \in Requests : WF_vars(Handle(r))
  /\ \A w \in Workers : WF_vars(Recover(w))
  /\ WF_vars(LeaseExpires)

FairSpec == Spec /\ Fairness

-----------------------------------------------------------------------------
(* Properties.                                                             *)

RowType ==
  [snapshot : BOOLEAN, plan : Lab \union {None}, approvals : SUBSET Requests,
   verdict : {"none", "approved", "rejected"}, artifact : BOOLEAN,
   validated : SUBSET Patches, validation : {"none", "passed", "failed"},
   pr : {"none", "failed", "dry_run", "open"},
   writeback : {"none", "failed", "written"}]

LocalType ==
  [mem : Status \union {None}, held : BOOLEAN, view : Lab, patch : Patches \union {None},
   live : BOOLEAN, passed : BOOLEAN,
   result : {"none", "failed", "dry_run", "open", "written"}]

TypeOK ==
  /\ status \in Status
  /\ lease \in [by : Workers \union {None}, fresh : BOOLEAN]
  /\ row \in RowType
  /\ incident \in [rows : Nat, status : IncidentStatus]
  /\ outside \in [github : Patches \union {None}, datahub : BOOLEAN]
  /\ lab \in Lab
  /\ pc \in [Threads -> Steps]
  /\ local \in [Threads -> LocalType]
  /\ spent \in [crashes : 0 .. MaxCrashes, faults : 0 .. MaxFaults]

(* Nothing is generated, validated, pushed or written back for a run that  *)
(* no operator has approved, in any interleaving of background tasks,      *)
(* workers, concurrent decisions and crashes.                              *)
ApprovalGate ==
  \/ row.artifact \/ row.validation # "none" \/ row.pr # "none"
  \/ row.writeback # "none" \/ outside.github # None \/ outside.datahub
  => row.approvals # {}

(* A real pull request exists only if somebody allowed to open one         *)
(* approved: neither a caller without live:mutate nor a worker that        *)
(* resumes the run turns a dry run into a push.                            *)
LiveGate == outside.github # None => row.approvals \intersect LivePrincipals # {}

(* What the pull request holds is a patch that passed validation, though   *)
(* the thread that pushes reads the latest validation row, which may be    *)
(* another thread's, and the lab may have changed since.                   *)
ShipsWhatWasValidated == outside.github # None => outside.github \in row.validated

(* The database never claims an open pull request that GitHub lacks.       *)
PullRequestRowIsReal == row.pr = "open" => outside.github # None

(* No thread asks transition for an edge the machine does not have,        *)
(* whatever status it found the run in: IllegalTransition is not raised.   *)
NoIllegalTransition ==
  \A t \in Threads :
    pc[t] \in DOMAIN Target => Target[pc[t]] \in Allowed[local[t].mem]

Machine == INSTANCE RunMachine
  WITH verdict <- row.verdict,
       delivered <- (outside.github # None \/ outside.datahub)

Shared == INSTANCE SharedRun
  WITH Party <- Threads, Nobody <- None,
       view <- [t \in Threads |-> local[t].mem],
       approvals <- row.approvals,
       delivered <- (outside.github # None \/ outside.datahub)

(* However many threads drive the run, each moves it along an edge from    *)
(* the status it read or wrote itself, approves only what it saw waiting,  *)
(* and lets something out only where its own steps have brought the run,   *)
(* after some approval: what remains of the machine when transitions       *)
(* overwrite each other, and why a finished run can only be moved by       *)
(* threads that loaded it before it finished.                              *)
KeepsShared == Shared!SharedSpec

(* When one thread at a time is under way, the run keeps the promise of    *)
(* RunMachine: also across crashes, resumed runs, retries and decisions    *)
(* that were recorded but not followed by their transition.                *)
KeepsMachine == Machine!MachineSpec

Quiet == \A t \in Threads : pc[t] \in {"idle", "done"}

(* Once nobody drives a run that has a plan, and if nothing crashed, it    *)
(* has one incident, which shows what the run's status maps to.            *)
(* VALIDATION_FAILED is excepted: the driver enters it without follow_run. *)
IncidentMirrorsRun ==
  /\ Quiet /\ spent.crashes = 0 /\ row.plan # None
  /\ status \in DOMAIN RunToIncident \ {"VALIDATION_FAILED"}
  => incident.rows = 1 /\ incident.status = RunToIncident[status]

(* Work that is owed to a worker gets done: the run comes to rest in a     *)
(* terminal status or with a person.                                       *)
NothingStranded == (status \in Resumable) ~> (status \notin Resumable)

(* The lab stays as the run found it, can be read, and its findings'       *)
(* templates do not raise on its files.                                    *)
SoundLab == 0 \notin Unreadable /\ [findings |-> 0, files |-> 0] \notin Unpatchable

(* Where a thread may leave a run that another one is driving: at a plan   *)
(* that is stored already or has no findings to be made from, and at a     *)
(* validation that is stored already and for which it holds no patch.      *)
TakenOver ==
  \/ status = "REMEDIATION_PLANNING" /\ (row.plan # None \/ lab \notin Contradicted)
  \/ status = "VALIDATION_RUNNING" /\ row.validation # "none"

(* The run is over or with a person, or a second thread has left it.       *)
Settled == status \notin Resumable \/ TakenOver

(* As long as no process dies, DataHub and git answer and the lab stays as *)
(* it is and is sound, a run ends or waits for a person, whatever          *)
(* operators decide and retry, however many threads drive it at the same   *)
(* time and whichever transition overwrites another, except where one took *)
(* it over from another at one of two steps: no other exception or early   *)
(* return of a driver leaves a run behind.                                 *)
UndisturbedSettles ==
  SoundLab /\ [](lab = 0) => []<>(Settled \/ spent.crashes + spent.faults > 0)

(* The statuses from which a thread that finds the run there moves it on.  *)
Enterable ==
  {"RECEIVED", "NORMALIZED", "CONTEXT_PENDING", "CONTEXT_RESOLVED",
   "CHECKS_COMPLETED", "APPROVED", "PATCH_GENERATING", "PATCH_GENERATED",
   "VALIDATED", "PULL_REQUEST_OPENED", "DATAHUB_UPDATED"}

(* Whatever lab its findings are from, a patch for the lab's files can be  *)
(* generated.                                                              *)
Patchable == \A v \in Lab : [findings |-> v, files |-> lab] \notin Unpatchable

(* Wherever a process died, and whoever left a lease, the run does not     *)
(* stay for ever in a status that has an entry, however the lab changes:   *)
(* the worker moves it on, unless the lab cannot be read again and again   *)
(* or, for a patch that is to be generated, a template raises on it, as    *)
(* both then do at every sweep.                                            *)
EnterableMoves ==
  \A s \in Enterable :
    ~<>[](status = s /\ Readable /\ (s = "PATCH_GENERATING" => Patchable))

(* What is pushed was made from the lab version that the approved plan was *)
(* made from.                                                              *)
ShipsWhatWasApproved == outside.github # None => outside.github.findings = row.plan
=============================================================================
