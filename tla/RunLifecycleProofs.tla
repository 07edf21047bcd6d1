------------------------- MODULE RunLifecycleProofs -------------------------
(***************************************************************************)
(* Proofs about RunLifecycle, for any number of requests and workers, any  *)
(* number of threads under way at a time and any bound.                    *)
(***************************************************************************)
EXTENDS RunLifecycle, TLAPS

(* The steps a handler, a driver or a worker names are steps.              *)
LEMMA StepNames ==
  /\ DOMAIN Target \subseteq Steps
  /\ WorkSteps \subseteq Steps
  /\ {"normalize", "pend", "resolve", "checks", "checked", "clean", "planning",
      "await", "giveup", "generating", "generated", "validating", "valid",
      "creating", "opened", "pending", "updated", "complete", "approving",
      "rejecting", "cancelling", "retrying"} = DOMAIN Target
BY DEF Steps, Target

(* What transition writes is a status.                                     *)
LEMMA TargetIsStatus == \A s \in DOMAIN Target : Target[s] \in Status
BY DEF Target, Status, Allowed

(* The drivers' entries are steps; none is the record of a result.         *)
LEMMA EntriesAreSteps ==
  ASSUME NEW t \in Threads, NEW s
  PROVE  /\ ToApproval(t, s) \in Steps \ {"recordpr", "recordwb"}
         /\ AfterRebuild(t, s) \in Steps \ {"recordpr", "recordwb"}
         /\ Over(t) \in Steps \ {"recordpr", "recordwb"}
BY StepNames DEF ToApproval, AfterRebuild, Over, WorkSteps

(* So is what a thread does after it has moved the run.                    *)
LEMMA NextIsStep ==
  ASSUME NEW t \in Threads, NEW s, NEW v
  PROVE  AfterMove(t, s, v) \in Steps \ {"recordpr", "recordwb"}
BY StepNames DEF AfterMove, Over, WorkSteps

(* A thread's step leaves the other threads' steps and sessions alone.     *)
LEMMA OthersRest ==
  ASSUME TypeOK, NEW t \in Threads,
         Drive(t) \/ Handle(t) \/ Operate(t) \/ Recover(t)
  PROVE  \A u \in Threads \ {t} : pc'[u] = pc[u] /\ local'[u] = local[u]
<1> DEFINE Still == \A u \in Threads \ {t} : pc'[u] = pc[u]
           Same == \A u \in Threads \ {t} : local'[u] = local[u]
<1>1. \A step : Goto(t, step) => Still
  BY DEF Goto, TypeOK
<1>2. (\A l : Keep(t, l) => Same) /\ (UNCHANGED local => Same)
  BY DEF Keep, TypeOK
<1>3. Leave(t) => Still /\ Same
  BY <1>1, <1>2 DEF Leave
<1>4. \A step : Read(t, step) => Still /\ Same
  BY <1>1, <1>2 DEF Read
<1>5. CASE Drive(t)
  BY <1>5, <1>1, <1>2, <1>3
  DEF Drive, Move, Follow, Start, FailValidation, ResolveContext, LabRaises, RunRules,
      FindIncident, InsertIncident, AttachIncident, MakePlan, Rebuild, Generate, Generated,
      Validate, Publish, OpenPullRequest, RecordPullRequest, CallLands, WriteBack, RecordWriteback
<1>6. CASE Handle(t)
  BY <1>6, <1>1, <1>2 DEF Handle, RecordApproval, RecordRejection
<1>7. CASE Operate(t)
  BY <1>7, <1>1, <1>2, <1>4
  DEF Operate, BeginApprove, BeginReject, BeginCancel, BeginRetry, PatchIncident
<1>8. CASE Recover(t)
  BY <1>8, <1>1, <1>2, <1>4 DEF Recover, Sweep, Claim, Release
<1> QED BY <1>5, <1>6, <1>7, <1>8

(* What a thread is about to record is what its call outside returned.     *)
ResultFits(t) ==
  /\ pc[t] = "recordpr" => local[t].result \in PullRequestStatus
  /\ pc[t] = "recordwb" => local[t].result \in {"failed", "written"}

TypeInv == TypeOK /\ \A t \in Threads : ResultFits(t)

(* Only the calls outside lead to a step that records their result.        *)
LEMMA RecordSteps ==
  ASSUME TypeOK, NEW t \in Threads,
         Drive(t) \/ Handle(t) \/ Operate(t) \/ Recover(t)
  PROVE  /\ pc'[t] = "recordpr" => OpenPullRequest(t)
         /\ pc'[t] = "recordwb" => WriteBack(t)
<1> DEFINE Elsewhere == pc'[t] \notin {"recordpr", "recordwb"}
<1>1. \A step : Goto(t, step) => pc'[t] = step
  BY DEF Goto, TypeOK
<1>2. Leave(t) => Elsewhere
  BY <1>1, EntriesAreSteps DEF Leave
<1>3. CASE Drive(t)
  <2>1. CASE Move(t) \/ FailValidation(t) \/ Follow(t) \/ Start(t)
    BY <2>1, <1>1, <1>2, EntriesAreSteps, NextIsStep
    DEF Move, FailValidation, Follow, Start
  <2>2. CASE ResolveContext(t) \/ RunRules(t) \/ FindIncident(t) \/ InsertIncident(t)
               \/ AttachIncident(t) \/ MakePlan(t)
    BY <2>2, <1>1, <1>2
    DEF ResolveContext, LabRaises, RunRules, FindIncident, InsertIncident, AttachIncident, MakePlan
  <2>3. CASE Rebuild(t) \/ Generate(t) \/ Validate(t) \/ Publish(t)
    BY <2>3, <1>1, <1>2, EntriesAreSteps DEF Rebuild, LabRaises, Generate, Generated, Validate, Publish
  <2>4. CASE OpenPullRequest(t) \/ CallLands(t) \/ WriteBack(t)
    BY <2>4, <1>1, <1>2 DEF OpenPullRequest, CallLands, At, WriteBack
  <2>5. CASE RecordPullRequest(t) \/ RecordWriteback(t)
    BY <2>5, <1>1 DEF RecordPullRequest, RecordWriteback
  <2> QED BY <1>3, <2>1, <2>2, <2>3, <2>4, <2>5 DEF Drive
<1>4. CASE Handle(t)
  BY <1>4, <1>1 DEF Handle, RecordApproval, RecordRejection
<1>5. CASE Operate(t)
  BY <1>5, <1>1
  DEF Operate, BeginApprove, BeginReject, BeginCancel, BeginRetry, PatchIncident, Read
<1>6. CASE Recover(t)
  BY <1>6, <1>1, EntriesAreSteps DEF Recover, Sweep, Claim, Release, Read
<1> QED BY <1>3, <1>4, <1>5, <1>6

(* So a result is recorded by the thread that got it, unchanged.           *)
LEMMA ResultsFit ==
  ASSUME TypeInv, NEW t \in Threads,
         Drive(t) \/ Handle(t) \/ Operate(t) \/ Recover(t)
  PROVE  \A u \in Threads : ResultFits(u)'
<1>1. \A u \in Threads \ {t} : ResultFits(u)'
  BY OthersRest DEF TypeInv, ResultFits
<1>2. ResultFits(t)'
  <2>1. \A l : Keep(t, l) => local'[t] = l
    BY DEF Keep, TypeInv, TypeOK
  <2>2. local[t] \in LocalType
    BY DEF TypeInv, TypeOK
  <2>3. CASE OpenPullRequest(t)
    <3>1. \A outcome : [local[t] EXCEPT !.result = outcome].result = outcome
      BY <2>2 DEF LocalType
    <3>2. CASE Fault /\ Leave(t)
      BY <3>2, EntriesAreSteps DEF Leave, Goto, TypeInv, TypeOK, ResultFits
    <3>3. ASSUME NEW outcome \in PullRequestStatus, Goto(t, "recordpr"),
                 Keep(t, [local[t] EXCEPT !.result = outcome])
          PROVE  ResultFits(t)'
      <4>1. local'[t].result = outcome
        BY <3>1, <3>3, <2>1
      <4>2. pc'[t] = "recordpr"
        BY <3>3 DEF Goto, TypeInv, TypeOK
      <4> QED BY <3>3, <4>1, <4>2 DEF ResultFits
    <3> QED BY <2>3, <3>2, <3>3 DEF OpenPullRequest
  <2>4. CASE WriteBack(t)
    <3>1. \A outcome : [local[t] EXCEPT !.result = outcome].result = outcome
      BY <2>2 DEF LocalType
    <3>2. CASE Fault /\ Leave(t)
      BY <3>2, EntriesAreSteps DEF Leave, Goto, TypeInv, TypeOK, ResultFits
    <3> QED BY <2>4, <3>1, <3>2, <2>1 DEF CallLands, WriteBack, Goto, TypeInv, TypeOK, ResultFits
  <2> QED BY <2>3, <2>4, RecordSteps DEF TypeInv, ResultFits
<1> QED BY <1>1, <1>2

(* A session that is closed, or has just read the run, is well typed.      *)
LEMMA SessionTypes ==
  ASSUME TypeOK
  PROVE  Closed \in LocalType /\ Load \in LocalType
<1>1. 0 \in Lab
  BY BoundsAssumption DEF Lab
<1>2. Closed \in LocalType
  BY <1>1 DEF Closed, LocalType
<1>3. status \in Status /\ (lease.by # None) \in BOOLEAN
  BY DEF TypeOK
<1>4. [Closed EXCEPT !.mem = status, !.held = (lease.by # None)] \in LocalType
  BY <1>2, <1>3 DEF LocalType
<1> QED BY <1>2, <1>4 DEF Load

(* The building blocks of the actions keep the types: Goto and Keep,       *)
LEMMA GotoType ==
  ASSUME TypeOK, NEW t \in Threads, NEW step \in Steps, Goto(t, step)
  PROVE  pc' \in [Threads -> Steps]
BY DEF TypeOK, Goto

(* ... a session that is kept,                                             *)
LEMMA KeepType ==
  ASSUME TypeOK, NEW t \in Threads, NEW l \in LocalType, Keep(t, l)
  PROVE  local' \in [Threads -> LocalType]
BY DEF TypeOK, Keep

(* ... Leave,                                                              *)
LEMMA LeaveType ==
  ASSUME TypeOK, NEW t \in Threads, Leave(t)
  PROVE  pc' \in [Threads -> Steps] /\ local' \in [Threads -> LocalType]
<1>1. pc' \in [Threads -> Steps]
  BY EntriesAreSteps, GotoType DEF Leave
<1>2. Closed \in LocalType /\ local[t] \in LocalType
  BY SessionTypes DEF TypeOK
<1>3. [Closed EXCEPT !.held = local[t].held] \in LocalType
  BY <1>2 DEF LocalType
<1>4. local' \in [Threads -> LocalType]
  BY <1>2, <1>3, KeepType DEF Leave
<1> QED BY <1>1, <1>4

(* ... Fault                                                               *)
LEMMA FaultType ==
  ASSUME TypeOK, Fault
  PROVE  spent' \in [crashes : 0 .. MaxCrashes, faults : 0 .. MaxFaults]
BY BoundsAssumption DEF TypeOK, Fault

(* ... and FollowRun.                                                      *)
LEMMA FollowRunType ==
  ASSUME TypeOK, NEW s, FollowRun(s)
  PROVE  incident' \in [rows : Nat, status : IncidentStatus]
<1>1. \A x \in DOMAIN RunToIncident : RunToIncident[x] \in IncidentStatus
  BY DEF RunToIncident, IncidentStatus
<1> QED BY <1>1 DEF TypeOK, FollowRun

(* What transition and what follows it do to the types.                    *)
LEMMA DriveTypes ==
  ASSUME TypeOK, NEW t \in Threads,
         Move(t) \/ FailValidation(t) \/ Follow(t) \/ Start(t)
  PROVE  TypeOK'
<1> USE DEF Threads
<1>0. local[t] \in LocalType /\ pc[t] \in Steps
  BY DEF TypeOK
<1>1. CASE Move(t)
  <2>1. Target[pc[t]] \in Status
    BY <1>1, TargetIsStatus DEF Move
  <2>2. status' \in Status /\ lease' \in [by : Workers \union {None}, fresh : BOOLEAN]
    BY <1>1, <2>1 DEF Move, TypeOK, NoLease
  <2>3. pc' \in [Threads -> Steps]
    BY <1>1, StepNames, GotoType DEF Move, WorkSteps
  <2>4. local' \in [Threads -> LocalType]
    <3> DEFINE clears == Target[pc[t]] \in Terminal /\ local[t].held
               l == [local[t] EXCEPT !.mem = Target[pc[t]], !.held = @ /\ ~clears]
    <3>1. l \in LocalType
      BY <1>0, <2>1 DEF LocalType
    <3>2. Keep(t, l)
      BY <1>1 DEF Move
    <3> QED BY <3>1, <3>2, KeepType
  <2> QED BY <1>1, <2>2, <2>3, <2>4 DEF Move, TypeOK
<1>2. CASE FailValidation(t)
  <2>1. "VALIDATION_FAILED" \in Status
    BY DEF Status, Allowed
  <2> QED BY <1>2, <2>1, LeaveType DEF FailValidation, TypeOK
<1>3. CASE Follow(t)
  <2>1. incident' \in [rows : Nat, status : IncidentStatus]
    BY <1>3, FollowRunType DEF Follow
  <2> DEFINE next == AfterMove(t, local[t].mem, local[t].view)
  <2>2. next \in Steps
    BY NextIsStep
  <2>3. [Closed EXCEPT !.live = local[t].live] \in LocalType
    BY <1>0, SessionTypes DEF LocalType
  <2>4. pc' \in [Threads -> Steps] /\ local' \in [Threads -> LocalType]
    <3>1. CASE Leave(t)
      BY <3>1, LeaveType
    <3>2. CASE Goto(t, next) /\ Keep(t, [Closed EXCEPT !.live = local[t].live])
      BY <3>2, <2>2, <2>3, GotoType, KeepType
    <3>3. CASE Goto(t, next) /\ UNCHANGED local
      BY <3>3, <2>2, GotoType DEF TypeOK
    <3> QED BY <1>3, <3>1, <3>2, <3>3 DEF Follow
  <2> QED BY <1>3, <2>1, <2>4 DEF Follow, TypeOK
<1>4. CASE Start(t)
  <2>1. [Load EXCEPT !.live = local[t].live] \in LocalType
    BY <1>0, SessionTypes DEF LocalType
  <2>2. local' \in [Threads -> LocalType]
    BY <1>4, <2>1, KeepType DEF Start
  <2>3. pc' \in [Threads -> Steps]
    BY <1>4, EntriesAreSteps, StepNames, GotoType DEF Start, WorkSteps
  <2> QED BY <1>4, <2>2, <2>3 DEF Start, TypeOK
<1> QED BY <1>1, <1>2, <1>3, <1>4

(* What advance_to_approval does between transitions keeps the types.      *)
LEMMA ToApprovalTypes ==
  ASSUME TypeOK, NEW t \in Threads,
         ResolveContext(t) \/ RunRules(t) \/ FindIncident(t) \/ InsertIncident(t)
           \/ AttachIncident(t) \/ MakePlan(t)
  PROVE  TypeOK'
<1>0. /\ local[t] \in LocalType /\ row \in RowType /\ lab \in Lab
      /\ {"resolve", "giveup", "checked", "insert", "attach", "planning", "await",
          "idle", "done"} \subseteq Steps
  BY StepNames DEF TypeOK, WorkSteps
<1>1. CASE ResolveContext(t)
  <2>1. row' \in RowType
    BY <1>0, <1>1 DEF ResolveContext, LabRaises, RowType
  <2>2. pc' \in [Threads -> Steps] /\ local' \in [Threads -> LocalType]
    BY <1>0, <1>1, GotoType, LeaveType DEF ResolveContext, LabRaises, TypeOK
  <2>3. spent' \in [crashes : 0 .. MaxCrashes, faults : 0 .. MaxFaults]
    BY <1>1, FaultType DEF ResolveContext, LabRaises, TypeOK
  <2> QED BY <1>1, <2>1, <2>2, <2>3 DEF ResolveContext, LabRaises, TypeOK
<1>2. CASE RunRules(t)
  <2>1. [local[t] EXCEPT !.view = lab] \in LocalType
    BY <1>0 DEF LocalType
  <2>2. pc' \in [Threads -> Steps] /\ local' \in [Threads -> LocalType]
    BY <1>0, <1>2, <2>1, GotoType, KeepType, LeaveType DEF RunRules, LabRaises, TypeOK
  <2>3. spent' \in [crashes : 0 .. MaxCrashes, faults : 0 .. MaxFaults]
    BY <1>2, FaultType DEF RunRules, LabRaises, TypeOK
  <2> QED BY <1>2, <2>2, <2>3 DEF RunRules, LabRaises, TypeOK
<1>3. CASE FindIncident(t)
  <2>1. pc' \in [Threads -> Steps]
    BY <1>0, <1>3, GotoType DEF FindIncident, TypeOK
  <2> QED BY <1>3, <2>1 DEF FindIncident, TypeOK
<1>4. CASE InsertIncident(t)
  <2>1. incident' \in [rows : Nat, status : IncidentStatus]
    BY <1>4 DEF InsertIncident, TypeOK, IncidentStatus
  <2> QED BY <1>0, <1>4, <2>1, GotoType DEF InsertIncident, TypeOK
<1>5. CASE AttachIncident(t)
  BY <1>0, <1>5, FollowRunType, GotoType DEF AttachIncident, TypeOK
<1>6. CASE MakePlan(t)
  <2>1. row' \in RowType
    BY <1>0, <1>6 DEF MakePlan, LabRaises, RowType
  <2>2. pc' \in [Threads -> Steps] /\ local' \in [Threads -> LocalType]
    BY <1>0, <1>6, GotoType, KeepType, LeaveType, SessionTypes DEF MakePlan, LabRaises, TypeOK
  <2>3. spent' \in [crashes : 0 .. MaxCrashes, faults : 0 .. MaxFaults]
    BY <1>6, FaultType DEF MakePlan, LabRaises, TypeOK
  <2> QED BY <1>6, <2>1, <2>2, <2>3 DEF MakePlan, LabRaises, TypeOK
<1> QED BY <1>1, <1>2, <1>3, <1>4, <1>5, <1>6

(* So does advance_after_approval; ResultFits says what it records.        *)
LEMMA AfterApprovalTypes ==
  ASSUME TypeInv, NEW t \in Threads,
         Rebuild(t) \/ Generate(t) \/ Validate(t) \/ Publish(t) \/ OpenPullRequest(t)
           \/ RecordPullRequest(t) \/ CallLands(t) \/ WriteBack(t) \/ RecordWriteback(t)
  PROVE  TypeOK'
<1>a. TypeOK
  BY DEF TypeInv
<1>0. /\ local[t] \in LocalType /\ row \in RowType /\ lab \in Lab
      /\ {"generated", "valid", "invalid", "creating", "pending", "recordpr",
          "opened", "recordwb", "updated"} \subseteq Steps
  BY <1>a, StepNames DEF TypeOK, WorkSteps
<1>1. CASE Rebuild(t)
  <2>1. [local[t] EXCEPT !.view = lab] \in LocalType
    BY <1>a, <1>0 DEF LocalType
  <2>2. pc' \in [Threads -> Steps] /\ local' \in [Threads -> LocalType]
    BY <1>a, <1>1, <2>1, EntriesAreSteps, GotoType, KeepType, LeaveType DEF Rebuild, LabRaises, TypeOK
  <2>3. spent' \in [crashes : 0 .. MaxCrashes, faults : 0 .. MaxFaults]
    BY <1>a, <1>1, FaultType DEF Rebuild, LabRaises, TypeOK
  <2> QED BY <1>a, <1>1, <2>2, <2>3 DEF Rebuild, LabRaises, TypeOK
<1>2. CASE Generate(t)
  <2>1. [local[t] EXCEPT !.patch = [findings |-> local[t].view, files |-> lab]] \in LocalType
    BY <1>a, <1>0 DEF LocalType, Patches
  <2>2. pc' \in [Threads -> Steps] /\ local' \in [Threads -> LocalType]
    BY <1>a, <1>0, <1>2, <2>1, GotoType, KeepType, LeaveType DEF Generate, Generated, TypeOK
  <2>3. row' \in RowType
    BY <1>a, <1>0, <1>2 DEF Generate, Generated, RowType
  <2>4. spent' \in [crashes : 0 .. MaxCrashes, faults : 0 .. MaxFaults]
    BY <1>a, <1>2, FaultType DEF Generate, Generated, TypeOK
  <2> QED BY <1>a, <1>2, <2>2, <2>3, <2>4 DEF Generate, Generated, TypeOK
<1>3. CASE Validate(t)
  <2> DEFINE good == [row EXCEPT !.validation = "passed",
                                 !.validated = @ \union {local[t].patch}]
             bad == [row EXCEPT !.validation = "failed"]
  <2>a. ASSUME local[t].patch # None PROVE good \in RowType
    <3>1. local[t].patch \in Patches
      BY <1>a, <1>0, <2>a DEF LocalType
    <3> QED BY <1>a, <1>0, <3>1 DEF RowType
  <2>b. bad \in RowType
    BY <1>a, <1>0 DEF RowType
  <2>1. row' \in RowType
    BY <1>0, <1>3, <2>a, <2>b DEF Validate
  <2>2. pc' \in [Threads -> Steps] /\ local' \in [Threads -> LocalType]
    BY <1>a, <1>0, <1>3, GotoType, LeaveType DEF Validate, TypeOK
  <2> QED BY <1>a, <1>3, <2>1, <2>2 DEF Validate, TypeOK
<1>4. CASE Publish(t)
  <2>1. [local[t] EXCEPT !.passed = (row.validation = "passed")] \in LocalType
    BY <1>a, <1>0 DEF LocalType
  <2>2. pc' \in [Threads -> Steps] /\ local' \in [Threads -> LocalType]
    BY <1>a, <1>0, <1>4, <2>1, GotoType, KeepType DEF Publish
  <2> QED BY <1>a, <1>4, <2>2 DEF Publish, TypeOK
<1>5. CASE OpenPullRequest(t)
  <2>1. ASSUME Pushes(t) PROVE local[t].patch \in Patches \union {None}
    BY <1>a, <1>0 DEF LocalType
  <2>2. outside' \in [github : Patches \union {None}, datahub : BOOLEAN]
    BY <1>a, <1>5, <2>1 DEF OpenPullRequest, TypeOK
  <2>3. \A outcome \in PullRequestStatus :
          [local[t] EXCEPT !.result = outcome] \in LocalType
    BY <1>a, <1>0 DEF LocalType, PullRequestStatus
  <2>4. pc' \in [Threads -> Steps] /\ local' \in [Threads -> LocalType]
    BY <1>a, <1>0, <1>5, <2>3, GotoType, KeepType, LeaveType DEF OpenPullRequest
  <2>5. spent' \in [crashes : 0 .. MaxCrashes, faults : 0 .. MaxFaults]
    BY <1>a, <1>5, FaultType DEF OpenPullRequest, TypeOK
  <2> QED BY <1>a, <1>5, <2>2, <2>4, <2>5 DEF OpenPullRequest, TypeOK
<1>6. CASE RecordPullRequest(t)
  <2>1. local[t].result \in PullRequestStatus
    BY <1>6 DEF RecordPullRequest, At, TypeInv, ResultFits
  <2>2. row' \in RowType
    BY <1>0, <1>6, <2>1 DEF RecordPullRequest, PullRequestStatus, RowType
  <2>3. [local[t] EXCEPT !.result = "none"] \in LocalType
    BY <1>0 DEF LocalType
  <2>4. pc' \in [Threads -> Steps] /\ local' \in [Threads -> LocalType]
    BY <1>a, <1>0, <1>6, <2>3, GotoType, KeepType DEF RecordPullRequest
  <2> QED BY <1>a, <1>6, <2>2, <2>4 DEF RecordPullRequest, TypeOK
<1>7. CASE WriteBack(t)
  <2>1. \A outcome \in {"written", "failed"} :
          [local[t] EXCEPT !.result = outcome] \in LocalType
    BY <1>a, <1>0 DEF LocalType
  <2>2. pc' \in [Threads -> Steps] /\ local' \in [Threads -> LocalType]
    BY <1>a, <1>0, <1>7, <2>1, GotoType, KeepType, LeaveType DEF CallLands, WriteBack
  <2>3. spent' \in [crashes : 0 .. MaxCrashes, faults : 0 .. MaxFaults]
    BY <1>a, <1>7, FaultType DEF WriteBack, TypeOK
  <2> QED BY <1>a, <1>7, <2>2, <2>3 DEF WriteBack, TypeOK
<1>9. CASE CallLands(t)
  BY <1>a, <1>9 DEF CallLands, TypeOK
<1>8. CASE RecordWriteback(t)
  <2>1. local[t].result \in {"failed", "written"}
    BY <1>8 DEF RecordWriteback, At, TypeInv, ResultFits
  <2>2. row' \in RowType
    BY <1>0, <1>8, <2>1 DEF RecordWriteback, RowType
  <2>3. [local[t] EXCEPT !.result = "none"] \in LocalType
    BY <1>0 DEF LocalType
  <2>4. pc' \in [Threads -> Steps] /\ local' \in [Threads -> LocalType]
    BY <1>a, <1>0, <1>8, <2>3, GotoType, KeepType DEF RecordWriteback
  <2> QED BY <1>a, <1>8, <2>2, <2>4 DEF RecordWriteback, TypeOK
<1> QED BY <1>1, <1>2, <1>3, <1>4, <1>5, <1>6, <1>7, <1>8, <1>9

(* So do the operators' handlers,                                          *)
LEMMA OperatorTypes ==
  ASSUME TypeOK, NEW r \in Requests, Operate(r) \/ Handle(r)
  PROVE  TypeOK'
<1>0. /\ r \in Threads /\ local[r] \in LocalType /\ row \in RowType
      /\ {"approve", "reject", "approving", "rejecting", "cancelling", "retrying",
          "done"} \subseteq Steps
  BY StepNames DEF TypeOK, Threads, ApiThreads, WorkSteps
<1>1. CASE BeginApprove(r) \/ BeginReject(r) \/ BeginCancel(r) \/ BeginRetry(r)
  <2>1. PICK step \in Steps : Read(r, step)
    BY <1>0, <1>1 DEF BeginApprove, BeginReject, BeginCancel, BeginRetry
  <2> QED BY <1>0, <2>1, GotoType, KeepType, SessionTypes DEF Read, TypeOK
<1>2. CASE RecordApproval(r)
  <2>1. [local[r] EXCEPT !.live = PrLive(r)] \in LocalType
    <3>1. PrLive(r) \in BOOLEAN
      BY DEF PrLive
    <3> QED BY <1>0, <3>1 DEF LocalType
  <2>2. row' \in RowType
    BY <1>0, <1>2 DEF RecordApproval, RowType
  <2> QED BY <1>0, <1>2, <2>1, <2>2, GotoType, KeepType DEF RecordApproval, TypeOK
<1>3. CASE RecordRejection(r)
  <2>1. row' \in RowType
    BY <1>0, <1>3 DEF RecordRejection, RowType
  <2> QED BY <1>0, <1>3, <2>1, GotoType DEF RecordRejection, TypeOK
<1>4. CASE PatchIncident(r)
  <2>1. incident' \in [rows : Nat, status : IncidentStatus]
    BY <1>4 DEF PatchIncident, TypeOK, AssignableStatuses, IncidentStatus
  <2> QED BY <1>0, <1>4, <2>1, GotoType DEF PatchIncident, TypeOK
<1> QED BY <1>1, <1>2, <1>3, <1>4 DEF Operate, Handle

(* ... the recovery worker,                                                *)
LEMMA WorkerTypes ==
  ASSUME TypeOK, NEW w \in Workers, Recover(w)
  PROVE  TypeOK'
<1>0. w \in Threads /\ local[w] \in LocalType /\ {"claim", "rebuild", "idle"} \subseteq Steps
  BY StepNames DEF TypeOK, Threads, WorkSteps
<1>1. CASE Sweep(w)
  BY <1>0, <1>1, GotoType, KeepType, SessionTypes DEF Sweep, Read, TypeOK
<1>2. CASE Claim(w)
  <2>1. [local[w] EXCEPT !.held = TRUE, !.live = ResumedLive] \in LocalType
    BY <1>0 DEF LocalType, ResumedLive
  <2>2. local' \in [Threads -> LocalType]
    BY <1>0, <1>2, <2>1, KeepType DEF Claim
  <2>3. pc' \in [Threads -> Steps]
    BY <1>0, <1>2, EntriesAreSteps, GotoType DEF Claim
  <2>4. lease' \in [by : Workers \union {None}, fresh : BOOLEAN]
    BY <1>2 DEF Claim
  <2> QED BY <1>2, <2>2, <2>3, <2>4 DEF Claim, TypeOK
<1>3. CASE Release(w)
  <2>1. lease' \in [by : Workers \union {None}, fresh : BOOLEAN]
    BY <1>3 DEF Release, TypeOK, NoLease
  <2> QED BY <1>0, <1>3, <2>1, GotoType, KeepType, SessionTypes DEF Release, TypeOK
<1> QED BY <1>1, <1>2, <1>3 DEF Recover

(* ... a process that dies,                                                *)
LEMMA CrashTypes ==
  ASSUME TypeOK, NEW victims, NEW resting \in {"idle", "done"}, Crash(victims, resting)
  PROVE  TypeOK'
<1>1. resting \in Steps
  BY StepNames DEF WorkSteps
<1>2. pc' \in [Threads -> Steps] /\ local' \in [Threads -> LocalType]
  BY <1>1, SessionTypes DEF Crash, TypeOK
<1>3. spent' \in [crashes : 0 .. MaxCrashes, faults : 0 .. MaxFaults]
  BY BoundsAssumption DEF Crash, TypeOK
<1> QED BY <1>2, <1>3 DEF Crash, TypeOK

(* ... time and the lab.                                                   *)
LEMMA WorldTypes ==
  ASSUME TypeOK, LeaseExpires \/ LabChanges
  PROVE  TypeOK'
BY DEF LeaseExpires, LabChanges, TypeOK

(* The initial states are well typed.                                      *)
LEMMA InitTypes == Init => TypeInv
<1> SUFFICES ASSUME Init PROVE TypeInv
  OBVIOUS
<1>1. 0 \in Lab
  BY BoundsAssumption DEF Lab
<1>2. NoRows \in RowType
  BY DEF NoRows, RowType
<1>3. Closed \in LocalType
  BY <1>1 DEF Closed, LocalType
<1>4. Triggers \subseteq Status
  BY ScopeAssumption DEF Status, Allowed
<1>5. TypeOK
  BY <1>1, <1>2, <1>3, <1>4, BoundsAssumption, StepNames
  DEF Init, TypeOK, NoLease, IncidentStatus, WorkSteps
<1> QED BY <1>5 DEF Init, TypeInv, ResultFits

ThreadStep(t) ==
  Drive(t) \/ (t \in Requests /\ (Operate(t) \/ Handle(t))) \/ (t \in Workers /\ Recover(t))

(* A step is a thread's, a crash or the world's.                           *)
LEMMA NextCases ==
  ASSUME Next
  PROVE  \/ \E t \in Threads : ThreadStep(t)
         \/ \E victims, resting : resting \in {"idle", "done"} /\ Crash(victims, resting)
         \/ LeaseExpires \/ LabChanges
BY DEF ThreadStep, Next, CrashApi, CrashWorker, Threads, ApiThreads

(* Every step keeps the types and what is about to be recorded.            *)
LEMMA StepTypes == TypeInv /\ [Next]_vars => TypeInv'
<1> SUFFICES ASSUME TypeInv, [Next]_vars PROVE TypeInv'
  OBVIOUS
<1>0. TypeOK
  BY DEF TypeInv
<1>1. TypeOK'
  <2>1. ASSUME NEW t \in Threads, Drive(t) PROVE TypeOK'
    BY <1>0, <2>1, DriveTypes, ToApprovalTypes, AfterApprovalTypes DEF Drive
  <2>2. ASSUME NEW r \in Requests, Operate(r) \/ Handle(r) PROVE TypeOK'
    BY <1>0, <2>2, OperatorTypes
  <2>3. ASSUME NEW w \in Workers, Recover(w) \/ CrashWorker(w) PROVE TypeOK'
    BY <1>0, <2>3, WorkerTypes, CrashTypes DEF CrashWorker
  <2>4. CASE CrashApi
    BY <1>0, <2>4, CrashTypes DEF CrashApi
  <2>5. CASE UNCHANGED vars
    BY <1>0, <2>5 DEF vars, TypeOK
  <2> QED BY <1>0, <2>1, <2>2, <2>3, <2>4, <2>5, WorldTypes DEF Next
<1>2. \A u \in Threads : ResultFits(u)'
  <2>1. ASSUME NEW t \in Threads, Drive(t) \/ Handle(t) \/ Operate(t) \/ Recover(t)
        PROVE  \A u \in Threads : ResultFits(u)'
    BY <2>1, ResultsFit
  <2>2. ASSUME NEW victims, NEW resting \in {"idle", "done"}, Crash(victims, resting)
        PROVE  \A u \in Threads : ResultFits(u)'
    BY <2>2 DEF Crash, TypeInv, TypeOK, ResultFits
  <2>3. CASE LeaseExpires \/ LabChanges \/ UNCHANGED vars
    BY <2>3 DEF LeaseExpires, LabChanges, vars, TypeInv, ResultFits
  <2> QED BY <2>1, <2>2, <2>3, NextCases DEF ThreadStep
<1> QED BY <1>1, <1>2 DEF TypeInv

(* Every variable keeps its type, in every behaviour of the system.        *)
THEOREM TypeCorrect == Spec => []TypeOK
<1>1. TypeInv => TypeOK
  BY DEF TypeInv
<1> QED BY <1>1, InitTypes, StepTypes, PTL DEF Spec

-----------------------------------------------------------------------------
(* The gates.  ApprovalGate and LiveGate speak about the rows and the      *)
(* world; a step that fills them is taken by a thread that acts on what it *)
(* read before.  The inductive invariants add what a thread's position and *)
(* session say about the approvals that the row has got meanwhile.         *)

Granted == AfterApproval \union {"VALIDATION_FAILED"}

GrantedSteps ==
  {"approving", "rebuild", "generating", "generate", "generated", "validating",
   "validate", "valid", "invalid", "publish", "creating", "openpr", "recordpr",
   "opened", "pending", "writeback", "recordwb", "updated"}

(* The thread is past an approval, or its task waits to be.                *)
Begun(t) ==
  \/ pc[t] \in GrantedSteps
  \/ local[t].mem \in Granted
  \/ pc[t] = "queued" /\ t # Creator

GateInv ==
  /\ ApprovalGate
  /\ status \in Granted => row.approvals # {}
  /\ \A t \in Threads : Begun(t) => row.approvals # {}

LiveInv ==
  /\ LiveGate
  /\ \A t \in Threads : local[t].live => row.approvals \intersect LivePrincipals # {}

(* The thread is at one of the steps, or has just moved the run to s.      *)
Near(t, steps, s) == pc[t] \in steps \/ (pc[t] = "follow" /\ local[t].mem = s)

(* On its way to the pull request a thread holds a patch that has passed,  *)
(* or none.                                                                *)
Vetted(t) ==
  /\ pc[t] \in {"claim", "rebuild"} => local[t].patch = None
  /\ Near(t, {"valid", "publish"}, "VALIDATED")
     => local[t].patch \in row.validated \union {None}
  /\ Near(t, {"creating", "openpr"}, "PULL_REQUEST_CREATING")
     => local[t].patch \in row.validated
  /\ local[t].result = "open" => outside.github # None

ShipInv ==
  /\ ShipsWhatWasValidated
  /\ PullRequestRowIsReal
  /\ \A t \in Threads : Vetted(t)

(* Only a step past an approval writes a status past an approval, and only *)
(* from such a status does a thread get to such a step.                    *)
LEMMA GrantedTargets ==
  \A s \in DOMAIN Target : s \notin GrantedSteps => Target[s] \notin Granted
BY DEF Target, GrantedSteps, Granted, AfterApproval

(* A session that believes in no status past an approval enters nowhere    *)
(* past an approval.                                                       *)
LEMMA UngrantedEntries ==
  ASSUME NEW t, NEW s, NEW v
  PROVE  /\ ToApproval(t, s) \notin GrantedSteps \union {"queued"}
         /\ Over(t) \notin GrantedSteps \union {"queued"}
         /\ s \notin Granted => AfterMove(t, s, v) \notin GrantedSteps \union {"queued"}
BY DEF ToApproval, Over, AfterMove, GrantedSteps, Granted, AfterApproval

(* Approvals and passed validations are never taken back.                  *)
LEMMA RowGrows ==
  ASSUME TypeOK, [Next]_vars
  PROVE  row.approvals \subseteq row'.approvals /\ row.validated \subseteq row'.validated
<1>0. row \in RowType
  BY DEF TypeOK
<1>1. ASSUME NEW t \in Threads, Drive(t) PROVE row.approvals \subseteq row'.approvals
                                           /\ row.validated \subseteq row'.validated
  <2>1. CASE UNCHANGED row
    BY <2>1
  <2>2. CASE ResolveContext(t) \/ MakePlan(t) \/ Generate(t)
    BY <1>0, <2>2 DEF ResolveContext, LabRaises, MakePlan, Generate, Generated, RowType
  <2>3. CASE Validate(t)
    BY <1>0, <2>3 DEF Validate, RowType
  <2>4. CASE RecordPullRequest(t) \/ RecordWriteback(t)
    BY <1>0, <2>4 DEF RecordPullRequest, RecordWriteback, RowType
  <2> QED BY <1>1, <2>1, <2>2, <2>3, <2>4
    DEF Drive, Move, FailValidation, Follow, Start, RunRules, LabRaises, FindIncident, InsertIncident,
        AttachIncident, Rebuild, Publish, OpenPullRequest, CallLands, WriteBack
<1>2. ASSUME NEW r \in Requests, Operate(r) \/ Handle(r)
      PROVE  row.approvals \subseteq row'.approvals /\ row.validated \subseteq row'.validated
  BY <1>0, <1>2 DEF Operate, Handle, BeginApprove, BeginReject, BeginCancel, BeginRetry,
     PatchIncident, Read, RecordApproval, RecordRejection, RowType
<1>3. ASSUME NEW w \in Workers, Recover(w) \/ CrashWorker(w) PROVE UNCHANGED row
  BY <1>3 DEF Recover, Sweep, Read, Claim, Release, CrashWorker, Crash
<1>4. CASE LeaseExpires \/ LabChanges \/ CrashApi \/ UNCHANGED vars
  BY <1>4 DEF LeaseExpires, LabChanges, CrashApi, Crash, vars
<1> QED BY <1>1, <1>2, <1>3, <1>4 DEF Next

(* While nobody has approved, no step of a thread gets past an approval.   *)
LEMMA UnapprovedStep ==
  ASSUME TypeInv, GateInv, NEW t \in Threads, row.approvals = {}, row'.approvals = {},
         ThreadStep(t)
  PROVE  /\ ~Begun(t)' /\ status' \notin Granted
         /\ UNCHANGED outside
         /\ UNCHANGED <<row.artifact, row.validation, row.pr, row.writeback>>
<1>0. TypeOK /\ ~Begun(t) /\ status \notin Granted /\ row \in RowType
  BY DEF TypeInv, TypeOK, GateInv
<1>1. /\ \A step : Goto(t, step) => pc'[t] = step
      /\ \A l : Keep(t, l) => local'[t] = l
  BY <1>0 DEF Goto, Keep, TypeOK
<1>2. local[t] \in LocalType /\ Closed \in LocalType /\ Load \in LocalType
  BY <1>0, SessionTypes DEF TypeOK
<1>3. None \notin Granted
  BY ThreadsAssumption DEF Granted, AfterApproval, Status, Allowed
<1>4. Closed.mem = None /\ Load.mem = status
  BY <1>2 DEF Closed, Load
<1>5. pc'[t] \notin GrantedSteps \union {"queued"} /\ local'[t].mem \notin Granted => ~Begun(t)'
  BY DEF Begun
<1>6. Leave(t) => pc'[t] \notin GrantedSteps \union {"queued"} /\ local'[t].mem \notin Granted
  <2>1. [Closed EXCEPT !.held = local[t].held].mem = None
    BY <1>2, <1>4 DEF LocalType
  <2> QED BY <1>1, <1>3, <1>4, <2>1, UngrantedEntries DEF Leave
<1>7. pc[t] \notin GrantedSteps /\ local[t].mem \notin Granted
  BY <1>0 DEF Begun
<1>8. CASE Drive(t)
  <2>1. CASE Move(t)
    <3>1. Target[pc[t]] \notin Granted
      BY <1>7, <2>1, GrantedTargets DEF Move
    <3>2. local'[t].mem = Target[pc[t]]
      BY <1>1, <1>2, <2>1 DEF Move, LocalType
    <3>3. pc'[t] = "follow"
      BY <1>1, <2>1 DEF Move
    <3> QED BY <1>5, <2>1, <3>1, <3>2, <3>3 DEF Move, GrantedSteps
  <2>2. CASE Follow(t)
    <3>1. pc'[t] \notin GrantedSteps \union {"queued"} /\ local'[t].mem \notin Granted
      BY <1>1, <1>6, <1>7, <2>2, UngrantedEntries DEF Follow
    <3> QED BY <1>0, <1>5, <2>2, <3>1 DEF Follow
  <2>3. CASE Start(t)
    <3>1. t = Creator
      BY <1>0, <2>3 DEF Start, At, Begun
    <3>2. pc'[t] \notin GrantedSteps \union {"queued"}
      BY <1>1, <2>3, <3>1, UngrantedEntries DEF Start
    <3>3. local'[t].mem = status
      BY <1>1, <1>2, <1>4, <2>3 DEF Start, LocalType
    <3> QED BY <1>0, <1>5, <2>3, <3>2, <3>3 DEF Start
  <2>4. CASE ResolveContext(t) \/ FindIncident(t) \/ InsertIncident(t) \/ AttachIncident(t)
    BY <1>0, <1>1, <1>5, <1>6, <1>7, <2>4
    DEF ResolveContext, LabRaises, FindIncident, InsertIncident, AttachIncident, GrantedSteps, RowType
  <2>5. CASE RunRules(t)
    <3>1. [local[t] EXCEPT !.view = lab].mem = local[t].mem
      BY <1>2 DEF LocalType
    <3> QED BY <1>0, <1>1, <1>5, <1>6, <1>7, <2>5, <3>1 DEF RunRules, LabRaises, GrantedSteps
  <2>6. CASE MakePlan(t)
    BY <1>0, <1>1, <1>3, <1>4, <1>5, <1>6, <1>7, <2>6 DEF MakePlan, LabRaises, GrantedSteps, RowType
  <2> QED BY <1>7, <1>8, <2>1, <2>2, <2>3, <2>4, <2>5, <2>6
    DEF Drive, FailValidation, Rebuild, LabRaises, Generate, Generated, Validate, Publish, OpenPullRequest,
        RecordPullRequest, CallLands, WriteBack, RecordWriteback, At, GrantedSteps
<1>9. CASE t \in Requests /\ (Operate(t) \/ Handle(t))
  <2>1. ~RecordApproval(t)
    BY <1>0 DEF RecordApproval, RowType
  <2>2. CASE RecordRejection(t)
    BY <1>0, <1>1, <1>5, <1>7, <2>2 DEF RecordRejection, GrantedSteps, RowType
  <2>3. CASE PatchIncident(t)
    BY <1>0, <1>1, <1>5, <1>7, <2>3 DEF PatchIncident, GrantedSteps
  <2>4. CASE Operate(t) /\ ~PatchIncident(t)
    BY <1>0, <1>1, <1>4, <1>5, <2>4
    DEF Operate, BeginApprove, BeginReject, BeginCancel, BeginRetry, Read, GrantedSteps
  <2> QED BY <1>9, <2>1, <2>2, <2>3, <2>4 DEF Handle
<1>10. CASE t \in Workers /\ Recover(t)
  <2>1. CASE Sweep(t)
    BY <1>0, <1>1, <1>4, <1>5, <2>1 DEF Sweep, Read, GrantedSteps
  <2>2. CASE Claim(t)
    <3>1. [local[t] EXCEPT !.held = TRUE, !.live = ResumedLive].mem = local[t].mem
      BY <1>2 DEF LocalType
    <3> QED BY <1>0, <1>1, <1>5, <1>7, <2>2, <3>1, UngrantedEntries DEF Claim, Granted
  <2>3. CASE Release(t)
    BY <1>0, <1>1, <1>3, <1>4, <1>5, <2>3 DEF Release, GrantedSteps
  <2> QED BY <1>10, <2>1, <2>2, <2>3 DEF Recover
<1> QED BY <1>8, <1>9, <1>10 DEF ThreadStep

(* At first nobody has approved, and nobody is past an approval.           *)
LEMMA InitGate == Init => GateInv
<1> SUFFICES ASSUME Init PROVE GateInv
  OBVIOUS
<1>1. ApprovalGate
  BY DEF Init, NoRows, ApprovalGate
<1>2. status \notin Granted
  BY ScopeAssumption DEF Init, Granted, AfterApproval
<1>3. ASSUME NEW t \in Threads PROVE ~Begun(t)
  <2>1. None \notin Granted
    BY ThreadsAssumption DEF Granted, AfterApproval, Status, Allowed
  <2> QED BY <2>1 DEF Init, Closed, Begun, GrantedSteps
<1> QED BY <1>1, <1>2, <1>3 DEF GateInv

(* The invariant is kept: a step after which there is an approval keeps it *)
(* trivially; before there is one, no thread is past an approval.          *)
LEMMA StepGate == TypeInv /\ GateInv /\ [Next]_vars => GateInv'
<1> SUFFICES ASSUME TypeInv, GateInv, [Next]_vars PROVE GateInv'
  OBVIOUS
<1>1. CASE row'.approvals # {}
  BY <1>1 DEF GateInv, ApprovalGate
<1>2. CASE row'.approvals = {}
  <2>0. TypeOK /\ row.approvals = {} /\ row \in RowType
    BY <1>2, RowGrows DEF TypeInv, TypeOK
  <2>1. ASSUME NEW t \in Threads, ThreadStep(t) PROVE GateInv'
    <3>1. /\ ~Begun(t)' /\ status' \notin Granted
          /\ UNCHANGED outside
          /\ UNCHANGED <<row.artifact, row.validation, row.pr, row.writeback>>
      BY <1>2, <2>0, <2>1, UnapprovedStep
    <3>2. ApprovalGate'
      BY <2>0, <3>1 DEF GateInv, ApprovalGate
    <3>3. \A u \in Threads \ {t} : ~Begun(u)'
      BY <2>0, <2>1, OthersRest DEF ThreadStep, GateInv, Begun
    <3> QED BY <3>1, <3>2, <3>3 DEF GateInv
  <2>2. ASSUME NEW victims, NEW resting \in {"idle", "done"}, Crash(victims, resting)
        PROVE  GateInv'
    <3>1. ASSUME NEW u \in Threads PROVE ~Begun(u)'
      <4>1. ~Begun(u)
        BY <2>0 DEF GateInv
      <4>2. None \notin Granted
        BY ThreadsAssumption DEF Granted, AfterApproval, Status, Allowed
      <4>3. local'[u] = local[u] \/ local'[u].mem = None
        BY <2>2 DEF Crash, Closed
      <4>4. pc'[u] = pc[u] \/ pc'[u] = resting
        BY <2>2 DEF Crash
      <4> QED BY <4>1, <4>2, <4>3, <4>4 DEF Begun, GrantedSteps
    <3> QED BY <2>2, <3>1 DEF Crash, GateInv, ApprovalGate
  <2>3. CASE LeaseExpires \/ LabChanges \/ UNCHANGED vars
    BY <2>3 DEF LeaseExpires, LabChanges, vars, GateInv, ApprovalGate, Begun
  <2> QED BY <2>1, <2>2, <2>3, NextCases
<1> QED BY <1>1, <1>2

(* Nothing is generated, validated, pushed or written back for a run that  *)
(* nobody approved (approve, advance_after_approval, Worker).              *)
THEOREM ApprovalGateHolds == Spec => []ApprovalGate
<1>1. GateInv => ApprovalGate
  BY DEF GateInv
<1> QED BY <1>1, InitTypes, StepTypes, InitGate, StepGate, PTL DEF Spec

(* The permission to push comes from an approval, and only a thread that   *)
(* has it reaches GitHub.                                                  *)
LEMMA LiveSource ==
  ASSUME TypeInv, NEW t \in Threads, ThreadStep(t)
  PROVE  /\ local'[t].live
            => local[t].live \/ t \in row'.approvals \intersect LivePrincipals
         /\ outside'.github # outside.github => local[t].live
<1>0. TypeOK /\ local[t] \in LocalType /\ row \in RowType
  BY DEF TypeInv, TypeOK
<1> DEFINE Goal == local'[t].live
                   => local[t].live \/ t \in row'.approvals \intersect LivePrincipals
<1>1. \A l : Keep(t, l) => local'[t] = l
  BY <1>0 DEF Keep, TypeOK
<1>2. \A l : Keep(t, l) /\ (l.live => local[t].live) => Goal
  BY <1>1
<1>3. Closed \in LocalType /\ Load \in LocalType /\ ~Closed.live /\ ~Load.live
  BY <1>0, SessionTypes DEF Closed, Load
<1>4. Leave(t) => Goal
  <2>1. ~[Closed EXCEPT !.held = local[t].held].live
    BY <1>3 DEF LocalType
  <2> QED BY <1>2, <1>3, <2>1 DEF Leave
<1>5. UNCHANGED local => Goal
  OBVIOUS
<1>6. CASE Drive(t)
  <2>1. CASE Move(t)
    <3> DEFINE clears == Target[pc[t]] \in Terminal /\ local[t].held
               l == [local[t] EXCEPT !.mem = Target[pc[t]], !.held = @ /\ ~clears]
    <3>1. Keep(t, l) /\ UNCHANGED outside
      BY <2>1 DEF Move
    <3>2. l.live = local[t].live
      BY <1>0 DEF LocalType
    <3> QED BY <1>2, <3>1, <3>2
  <2>2. CASE Follow(t) \/ Start(t) \/ FailValidation(t)
    <3>1. [Closed EXCEPT !.live = local[t].live].live = local[t].live
      BY <1>3 DEF LocalType
    <3>2. [Load EXCEPT !.live = local[t].live].live = local[t].live
      BY <1>3 DEF LocalType
    <3>3. UNCHANGED outside
      BY <2>2 DEF Follow, Start, FailValidation
    <3>4. Goal
      BY <1>2, <1>4, <1>5, <2>2, <3>1, <3>2 DEF Follow, Start, FailValidation
    <3> QED BY <3>3, <3>4
  <2>3. CASE ResolveContext(t) \/ RunRules(t) \/ FindIncident(t) \/ InsertIncident(t)
               \/ AttachIncident(t) \/ MakePlan(t) \/ Rebuild(t)
    <3>1. [local[t] EXCEPT !.view = lab].live = local[t].live
      BY <1>0 DEF LocalType
    <3>2. UNCHANGED outside
      BY <2>3 DEF ResolveContext, LabRaises, RunRules, FindIncident, InsertIncident, AttachIncident,
                  MakePlan, Rebuild
    <3>3. Goal
      BY <1>2, <1>3, <1>4, <1>5, <2>3, <3>1
      DEF ResolveContext, LabRaises, RunRules, FindIncident, InsertIncident, AttachIncident,
          MakePlan, Rebuild
    <3> QED BY <3>2, <3>3
  <2>4. CASE Generate(t) \/ Validate(t) \/ Publish(t)
    <3>1. /\ [local[t] EXCEPT !.patch = [findings |-> local[t].view, files |-> lab]].live
                = local[t].live
          /\ [local[t] EXCEPT !.passed = (row.validation = "passed")].live = local[t].live
      BY <1>0 DEF LocalType
    <3>2. UNCHANGED outside
      BY <2>4 DEF Generate, Generated, Validate, Publish
    <3>3. Goal
      BY <1>2, <1>4, <1>5, <2>4, <3>1 DEF Generate, Generated, Validate, Publish
    <3> QED BY <3>2, <3>3
  <2>5. CASE OpenPullRequest(t) \/ RecordPullRequest(t) \/ CallLands(t) \/ WriteBack(t)
               \/ RecordWriteback(t)
    <3>1. \A result : [local[t] EXCEPT !.result = result].live = local[t].live
      BY <1>0 DEF LocalType
    <3>2. Goal
      BY <1>2, <1>4, <1>5, <2>5, <3>1
      DEF OpenPullRequest, RecordPullRequest, CallLands, WriteBack, RecordWriteback
    <3>3. CASE OpenPullRequest(t)
      BY <3>2, <3>3 DEF OpenPullRequest, Pushes
    <3>4. CASE CallLands(t) \/ WriteBack(t)
      <4>1. outside'.github = outside.github
        BY <1>0, <3>4 DEF CallLands, WriteBack, TypeOK
      <4> QED BY <3>2, <4>1
    <3>5. CASE RecordPullRequest(t) \/ RecordWriteback(t)
      BY <3>2, <3>5 DEF RecordPullRequest, RecordWriteback
    <3> QED BY <2>5, <3>3, <3>4, <3>5
  <2> QED BY <1>6, <2>1, <2>2, <2>3, <2>4, <2>5 DEF Drive
<1>7. CASE Operate(t) \/ Handle(t)
  <2>1. CASE RecordApproval(t)
    <3>1. local'[t].live = PrLive(t)
      BY <1>0, <1>1, <2>1 DEF RecordApproval, LocalType
    <3>2. t \in row'.approvals
      BY <1>0, <2>1 DEF RecordApproval, RowType
    <3> QED BY <2>1, <3>1, <3>2 DEF RecordApproval, PrLive
  <2>2. CASE RecordRejection(t) \/ PatchIncident(t)
    BY <1>5, <2>2 DEF RecordRejection, PatchIncident
  <2>3. CASE BeginApprove(t) \/ BeginReject(t) \/ BeginCancel(t) \/ BeginRetry(t)
    BY <1>2, <1>3, <2>3
    DEF BeginApprove, BeginReject, BeginCancel, BeginRetry, Read
  <2> QED BY <1>7, <2>1, <2>2, <2>3 DEF Operate, Handle
<1>8. CASE Recover(t)
  <2>1. ~[local[t] EXCEPT !.held = TRUE, !.live = ResumedLive].live
    BY <1>0 DEF LocalType, ResumedLive
  <2> QED BY <1>2, <1>3, <1>8, <2>1 DEF Recover, Sweep, Read, Claim, Release
<1> QED BY <1>6, <1>7, <1>8 DEF ThreadStep

(* At first no session may push.                                           *)
LEMMA InitLive == Init => LiveInv
BY DEF Init, Closed, LiveInv, LiveGate

(* Every step keeps the permission tied to an approval that grants it.     *)
LEMMA StepLive == TypeInv /\ LiveInv /\ [Next]_vars => LiveInv'
<1> SUFFICES ASSUME TypeInv, LiveInv, [Next]_vars PROVE LiveInv'
  OBVIOUS
<1>0. TypeOK /\ row.approvals \subseteq row'.approvals
  BY RowGrows DEF TypeInv
<1>1. ASSUME NEW t \in Threads, ThreadStep(t) PROVE LiveInv'
  <2>1. /\ local'[t].live => row'.approvals \intersect LivePrincipals # {}
        /\ outside'.github # outside.github => row'.approvals \intersect LivePrincipals # {}
    BY <1>0, <1>1, LiveSource DEF LiveInv
  <2>2. \A u \in Threads \ {t} : local'[u] = local[u]
    BY <1>0, <1>1, OthersRest DEF ThreadStep
  <2>3. \A u \in Threads : local'[u].live => row'.approvals \intersect LivePrincipals # {}
    BY <1>0, <2>1, <2>2 DEF LiveInv
  <2>4. outside'.github # None => row'.approvals \intersect LivePrincipals # {}
    BY <1>0, <2>1 DEF LiveInv, LiveGate
  <2> QED BY <2>3, <2>4 DEF LiveInv, LiveGate
<1>2. ASSUME NEW victims, NEW resting \in {"idle", "done"}, Crash(victims, resting)
      PROVE  LiveInv'
  <2>1. \A u \in Threads : local'[u] = local[u] \/ ~local'[u].live
    BY <1>2 DEF Crash, Closed
  <2> QED BY <1>2, <2>1 DEF Crash, LiveInv, LiveGate
<1>3. CASE LeaseExpires \/ LabChanges \/ UNCHANGED vars
  BY <1>3 DEF LeaseExpires, LabChanges, vars, LiveInv, LiveGate
<1> QED BY <1>1, <1>2, <1>3, NextCases

(* GitHub is reached only for a run that somebody allowed to open a pull   *)
(* request has approved (pr_live_allowed, Worker's pr_live=False).         *)
THEOREM LiveGateHolds == Spec => []LiveGate
<1>1. LiveInv => LiveGate
  BY DEF LiveInv
<1> QED BY <1>1, InitTypes, StepTypes, InitLive, StepLive, PTL DEF Spec

(* The steps at which a thread's patch matters to Vetted.                  *)
VettedSteps ==
  {"claim", "rebuild", "valid", "publish", "creating", "openpr", "follow"}

(* A resumed thread enters at none of these steps but publish,             *)
LEMMA UnvettedEntries ==
  /\ \A t : Over(t) \notin VettedSteps
  /\ \A t, s : ToApproval(t, s) \notin VettedSteps
  /\ \A t, s : AfterRebuild(t, s) \notin VettedSteps \ {"publish"}
BY DEF ToApproval, Over, AfterRebuild, VettedSteps

(* ... and a thread that moves the run gets to two of them, from the       *)
(* status that belongs to the step.                                        *)
LEMMA VettedMoves ==
  ASSUME NEW t, NEW s, NEW v
  PROVE  \/ AfterMove(t, s, v) \notin VettedSteps
         \/ AfterMove(t, s, v) = "publish" /\ s = "VALIDATED"
         \/ AfterMove(t, s, v) = "openpr" /\ s = "PULL_REQUEST_CREATING"
BY DEF AfterMove, Over, VettedSteps

(* The statuses of the way to the pull request are written by one step.    *)
LEMMA VettedTargets ==
  \A s \in DOMAIN Target :
    /\ Target[s] = "VALIDATED" => s = "valid"
    /\ Target[s] = "PULL_REQUEST_CREATING" => s = "creating"
BY DEF Target

(* What GitHub and the pull request's row get, they get from a thread at   *)
(* the step that says so.                                                  *)
LEMMA ShipSource ==
  ASSUME TypeInv, NEW t \in Threads, ThreadStep(t)
  PROVE  /\ outside'.github # outside.github
            => At(t, "openpr") /\ outside'.github = local[t].patch
         /\ row'.pr # row.pr => At(t, "recordpr") /\ row'.pr = local[t].result
<1>0. TypeOK /\ row \in RowType
  BY DEF TypeInv, TypeOK
<1>1. CASE OpenPullRequest(t)
  <2>1. [outside EXCEPT !.github = local[t].patch].github = local[t].patch
    BY <1>0 DEF TypeOK
  <2> QED BY <1>1, <2>1 DEF OpenPullRequest
<1>2. CASE CallLands(t) \/ WriteBack(t)
  BY <1>0, <1>2 DEF CallLands, WriteBack, TypeOK
<1>3. CASE RecordPullRequest(t)
  BY <1>0, <1>3 DEF RecordPullRequest, RowType
<1>4. CASE ResolveContext(t) \/ MakePlan(t) \/ Generate(t) \/ Validate(t) \/ RecordWriteback(t)
  <2>1. UNCHANGED outside
    BY <1>4 DEF ResolveContext, LabRaises, MakePlan, Generate, Generated, Validate, RecordWriteback
  <2>2. row'.pr = row.pr
    BY <1>0, <1>4
    DEF ResolveContext, LabRaises, MakePlan, Generate, Generated, Validate, RecordWriteback, RowType
  <2> QED BY <2>1, <2>2
<1>5. CASE Move(t) \/ Follow(t) \/ Start(t) \/ FailValidation(t) \/ RunRules(t)
             \/ FindIncident(t) \/ InsertIncident(t) \/ AttachIncident(t)
             \/ Rebuild(t) \/ Publish(t)
  BY <1>5
  DEF Move, Follow, Start, FailValidation, RunRules, LabRaises, FindIncident, InsertIncident,
      AttachIncident, Rebuild, Publish
<1>6. CASE Operate(t) \/ Handle(t)
  BY <1>0, <1>6
  DEF Operate, Handle, BeginApprove, BeginReject, BeginCancel, BeginRetry, Read,
      PatchIncident, RecordApproval, RecordRejection, RowType
<1>7. CASE Recover(t)
  BY <1>7 DEF Recover, Sweep, Read, Claim, Release
<1> QED BY <1>1, <1>2, <1>3, <1>4, <1>5, <1>6, <1>7 DEF ThreadStep, Drive

(* A thread's own step keeps what Vetted says of its patch.                *)
LEMMA VettedStep ==
  ASSUME TypeInv, ShipInv, NEW t \in Threads, ThreadStep(t)
  PROVE  Vetted(t)'
<1>0. /\ TypeOK /\ local[t] \in LocalType /\ row \in RowType /\ Vetted(t)
      /\ row.validated \subseteq Patches /\ None \notin Patches
  BY ThreadsAssumption DEF TypeInv, TypeOK, RowType, ShipInv
<1>1. /\ \A step : Goto(t, step) => pc'[t] = step
      /\ \A l : Keep(t, l) => local'[t] = l
  BY <1>0 DEF Goto, Keep, TypeOK
<1>2. Closed \in LocalType /\ Load \in LocalType /\ Closed.patch = None /\ Load.patch = None
      /\ Closed.result = "none" /\ Load.result = "none"
  BY <1>0, SessionTypes DEF Closed, Load
<1>3. outside.github # None => outside'.github # None
  BY <1>0, ShipSource DEF At, Vetted, Near
<1>4. /\ pc'[t] \notin VettedSteps
      /\ local'[t].result = "open" => local[t].result = "open"
      => Vetted(t)'
  BY <1>0, <1>3 DEF Vetted, Near, VettedSteps
<1>5. Leave(t) => Vetted(t)'
  <2>1. [Closed EXCEPT !.held = local[t].held].result = "none"
    BY <1>2 DEF LocalType
  <2> QED BY <1>1, <1>2, <1>4, <2>1, UnvettedEntries DEF Leave
<1>6. CASE Move(t)
  <2> DEFINE clears == Target[pc[t]] \in Terminal /\ local[t].held
             l == [local[t] EXCEPT !.mem = Target[pc[t]], !.held = @ /\ ~clears]
  <2>1. local'[t] = l /\ pc'[t] = "follow" /\ UNCHANGED <<row, outside>>
    BY <1>1, <1>6 DEF Move
  <2>2. l.mem = Target[pc[t]] /\ l.patch = local[t].patch /\ l.result = local[t].result
    BY <1>0 DEF LocalType
  <2>3. /\ l.mem = "VALIDATED" => pc[t] = "valid"
        /\ l.mem = "PULL_REQUEST_CREATING" => pc[t] = "creating"
    BY <1>6, <2>2, VettedTargets DEF Move
  <2>4. /\ local'[t].mem = "VALIDATED" => local'[t].patch \in row'.validated \union {None}
        /\ local'[t].mem = "PULL_REQUEST_CREATING" => local'[t].patch \in row'.validated
        /\ local'[t].result = "open" => outside'.github # None
    BY <1>0, <2>1, <2>2, <2>3 DEF Vetted, Near
  <2> QED BY <2>1, <2>4 DEF Vetted, Near
<1>7. CASE Follow(t)
  <2> DEFINE next == AfterMove(t, local[t].mem, local[t].view)
  <2>1. CASE Leave(t)
    BY <1>5, <2>1
  <2>2. CASE next = "queued" /\ Goto(t, next)
             /\ Keep(t, [Closed EXCEPT !.live = local[t].live])
    <3>1. [Closed EXCEPT !.live = local[t].live].result = "none"
      BY <1>2 DEF LocalType
    <3> QED BY <1>1, <1>4, <2>2, <3>1 DEF VettedSteps
  <2>3. CASE Goto(t, next) /\ UNCHANGED local
    <3>1. pc'[t] = next /\ pc[t] = "follow" /\ UNCHANGED <<row, outside, local>>
      BY <1>1, <1>7, <2>3 DEF Follow, At
    <3>2. CASE next \notin VettedSteps
      BY <1>4, <3>1, <3>2
    <3>3. CASE next = "publish" /\ local[t].mem = "VALIDATED"
      BY <1>0, <3>1, <3>3 DEF Vetted, Near
    <3>4. CASE next = "openpr" /\ local[t].mem = "PULL_REQUEST_CREATING"
      BY <1>0, <3>1, <3>4 DEF Vetted, Near
    <3> QED BY <3>2, <3>3, <3>4, VettedMoves
  <2> QED BY <1>7, <2>1, <2>2, <2>3 DEF Follow
<1>8. CASE FailValidation(t)
  BY <1>5, <1>8 DEF FailValidation
<1>9. CASE Start(t)
  <2>1. LET l == [Load EXCEPT !.live = local[t].live]
        IN l.patch = None /\ l.result = "none"
    BY <1>2 DEF LocalType
  <2>2. local'[t].patch = None /\ local'[t].result = "none"
    BY <1>1, <1>9, <2>1 DEF Start
  <2>3. pc'[t] = "rebuild" \/ pc'[t] \notin VettedSteps
    BY <1>1, <1>9, UnvettedEntries DEF Start
  <2> QED BY <1>4, <2>2, <2>3 DEF Vetted, Near
<1>10. CASE ResolveContext(t) \/ FindIncident(t) \/ InsertIncident(t) \/ AttachIncident(t)
              \/ MakePlan(t)
  BY <1>1, <1>2, <1>4, <1>5, <1>10
  DEF ResolveContext, LabRaises, FindIncident, InsertIncident, AttachIncident, MakePlan, VettedSteps
<1>11. CASE RunRules(t)
  <2>1. [local[t] EXCEPT !.view = lab].result = local[t].result
    BY <1>0 DEF LocalType
  <2> QED BY <1>1, <1>4, <1>5, <1>11, <2>1 DEF RunRules, LabRaises, VettedSteps
<1>12. CASE Rebuild(t)
  <2>1. CASE Leave(t)
    BY <1>5, <2>1
  <2>2. CASE /\ Goto(t, AfterRebuild(t, local[t].mem))
             /\ Keep(t, [local[t] EXCEPT !.view = lab])
    <3>1. /\ [local[t] EXCEPT !.view = lab].result = local[t].result
          /\ [local[t] EXCEPT !.view = lab].patch = local[t].patch
      BY <1>0 DEF LocalType
    <3>2. local'[t].patch = None /\ local'[t].result = local[t].result
      BY <1>0, <1>1, <1>12, <2>2, <3>1 DEF Rebuild, LabRaises, At, Vetted
    <3>3. pc'[t] = "publish" \/ pc'[t] \notin VettedSteps
      BY <1>1, <2>2, UnvettedEntries
    <3>4. CASE pc'[t] = "publish"
      <4>1. local'[t].result = "open" => outside'.github # None
        BY <1>0, <1>3, <3>2 DEF Vetted
      <4> QED BY <3>2, <3>4, <4>1 DEF Vetted, Near
    <3> QED BY <1>4, <3>2, <3>3, <3>4
  <2> QED BY <1>12, <2>1, <2>2 DEF Rebuild, LabRaises
<1>13. CASE Generate(t)
  <2>1. [local[t] EXCEPT !.patch = [findings |-> local[t].view, files |-> lab]].result
          = local[t].result
    BY <1>0 DEF LocalType
  <2> QED BY <1>1, <1>4, <1>5, <1>13, <2>1 DEF Generate, Generated, VettedSteps
<1>14. CASE Validate(t)
  <2>1. CASE Leave(t)
    BY <1>5, <2>1
  <2>2. CASE Goto(t, "invalid") /\ UNCHANGED local
    BY <1>1, <1>4, <2>2 DEF VettedSteps
  <2>3. CASE /\ Goto(t, "valid") /\ UNCHANGED local
             /\ row' = [row EXCEPT !.validation = "passed",
                                   !.validated = @ \union {local[t].patch}]
    <3>1. local'[t].patch \in row'.validated
      BY <1>0, <2>3 DEF RowType
    <3>2. local'[t].result = "open" => outside'.github # None
      BY <1>0, <1>3, <2>3 DEF Vetted
    <3>3. pc'[t] = "valid"
      BY <1>1, <2>3
    <3> QED BY <3>1, <3>2, <3>3 DEF Vetted, Near
  <2> QED BY <1>14, <2>1, <2>2, <2>3 DEF Validate
<1>15. CASE Publish(t)
  <2>1. LET l == [local[t] EXCEPT !.passed = (row.validation = "passed")]
        IN l.patch = local[t].patch /\ l.result = local[t].result
    BY <1>0 DEF LocalType
  <2>2. local'[t].patch = local[t].patch /\ local'[t].result = local[t].result
    BY <1>1, <1>15, <2>1 DEF Publish
  <2>3. pc'[t] = "pending" \/ (pc'[t] = "creating" /\ local[t].patch # None)
    BY <1>1, <1>15 DEF Publish
  <2>4. CASE pc'[t] = "pending"
    BY <1>4, <2>2, <2>4 DEF VettedSteps
  <2>5. CASE pc'[t] = "creating" /\ local[t].patch # None
    <3>1. local[t].patch \in row.validated /\ UNCHANGED row
      BY <1>0, <1>15, <2>5 DEF Publish, At, Vetted, Near
    <3>2. local'[t].result = "open" => outside'.github # None
      BY <1>0, <1>3, <2>2 DEF Vetted
    <3> QED BY <2>2, <2>5, <3>1, <3>2 DEF Vetted, Near
  <2> QED BY <2>3, <2>4, <2>5
<1>16. CASE OpenPullRequest(t)
  <2>1. CASE Leave(t)
    BY <1>5, <2>1
  <2>2. ASSUME NEW outcome \in PullRequestStatus, Goto(t, "recordpr"),
               Keep(t, [local[t] EXCEPT !.result = outcome]),
               outcome = "open" => outside'.github = local[t].patch
        PROVE  Vetted(t)'
    <3>1. [local[t] EXCEPT !.result = outcome].result = outcome
      BY <1>0 DEF LocalType
    <3>2. local'[t].result = outcome /\ pc'[t] = "recordpr"
      BY <1>1, <2>2, <3>1
    <3>3. local[t].patch # None
      BY <1>0, <1>16 DEF OpenPullRequest, At, Vetted, Near
    <3>4. local'[t].result = "open" => outside'.github # None
      BY <2>2, <3>2, <3>3
    <3> QED BY <3>2, <3>4 DEF Vetted, Near
  <2> QED BY <1>16, <2>1, <2>2 DEF OpenPullRequest
<1>17. CASE CallLands(t)
  <2>1. UNCHANGED <<pc[t], local[t], row.validated, outside.github>>
    BY <1>0, <1>17 DEF CallLands, TypeInv, TypeOK
  <2> QED BY <1>0, <2>1 DEF Vetted, Near
<1>22. CASE WriteBack(t)
  <2>1. \A outcome \in {"written", "failed"} :
          [local[t] EXCEPT !.result = outcome].result # "open"
    BY <1>0 DEF LocalType
  <2> QED BY <1>1, <1>4, <1>5, <1>22, <2>1 DEF WriteBack, VettedSteps
<1>18. CASE RecordPullRequest(t) \/ RecordWriteback(t)
  <2>1. [local[t] EXCEPT !.result = "none"].result # "open"
    BY <1>0 DEF LocalType
  <2> QED BY <1>1, <1>4, <1>18, <2>1 DEF RecordPullRequest, RecordWriteback, VettedSteps
<1>19. CASE Handle(t)
  <2>1. [local[t] EXCEPT !.live = PrLive(t)].result = local[t].result
    BY <1>0 DEF LocalType
  <2> QED BY <1>1, <1>4, <1>19, <2>1 DEF Handle, RecordApproval, RecordRejection, VettedSteps
<1>20. CASE Operate(t)
  BY <1>1, <1>2, <1>4, <1>20
  DEF Operate, BeginApprove, BeginReject, BeginCancel, BeginRetry, PatchIncident, Read,
      VettedSteps
<1>21. CASE Recover(t)
  <2>1. CASE Sweep(t)
    BY <1>1, <1>2, <2>1 DEF Sweep, Read, Vetted, Near
  <2>2. CASE Claim(t)
    <3>1. LET l == [local[t] EXCEPT !.held = TRUE, !.live = ResumedLive]
          IN l.patch = local[t].patch /\ l.result = local[t].result
      BY <1>0 DEF LocalType
    <3>2. local'[t].patch = None /\ local'[t].result = local[t].result
      BY <1>0, <1>1, <2>2, <3>1 DEF Claim, At, Vetted
    <3>3. pc'[t] = "rebuild" \/ pc'[t] \notin VettedSteps
      BY <1>1, <2>2, UnvettedEntries DEF Claim
    <3>4. local'[t].result = "open" => outside'.github # None
      BY <1>0, <1>3, <3>2 DEF Vetted
    <3> QED BY <1>4, <3>2, <3>3, <3>4 DEF Vetted, Near
  <2>3. CASE Release(t)
    BY <1>1, <1>2, <1>4, <2>3 DEF Release, VettedSteps
  <2> QED BY <1>21, <2>1, <2>2, <2>3 DEF Recover
<1> QED
  BY <1>6, <1>7, <1>8, <1>9, <1>10, <1>11, <1>12, <1>13, <1>14, <1>15, <1>16, <1>17,
     <1>18, <1>19, <1>20, <1>21, <1>22
  DEF ThreadStep, Drive

(* At first there is no patch, no pull request and no push.                *)
LEMMA InitShip == Init => ShipInv
BY DEF Init, NoRows, Closed, ShipInv, ShipsWhatWasValidated, PullRequestRowIsReal, Vetted, Near

(* Every step keeps the way to the pull request vetted.                    *)
LEMMA StepShip == TypeInv /\ ShipInv /\ [Next]_vars => ShipInv'
<1> SUFFICES ASSUME TypeInv, ShipInv, [Next]_vars PROVE ShipInv'
  OBVIOUS
<1>0. /\ TypeOK /\ row.validated \subseteq row'.validated
      /\ row.validated \subseteq Patches /\ None \notin Patches
  BY RowGrows, ThreadsAssumption DEF TypeInv, TypeOK, RowType
<1>1. ASSUME NEW t \in Threads, ThreadStep(t) PROVE ShipInv'
  <2>1. Vetted(t) /\ Vetted(t)'
    BY <1>1, VettedStep DEF ShipInv
  <2>2. outside'.github # outside.github => outside'.github \in row.validated
    BY <1>1, <2>1, ShipSource DEF At, Vetted, Near
  <2>3. outside.github # None => outside'.github # None
    BY <1>0, <2>2
  <2>4. ShipsWhatWasValidated'
    BY <1>0, <2>2 DEF ShipInv, ShipsWhatWasValidated
  <2>5. PullRequestRowIsReal'
    <3>1. row'.pr # row.pr => row'.pr = local[t].result
      BY <1>1, ShipSource
    <3> QED BY <2>1, <2>3, <3>1 DEF ShipInv, PullRequestRowIsReal, Vetted
  <2>6. ASSUME NEW u \in Threads \ {t} PROVE Vetted(u)'
    <3>1. pc'[u] = pc[u] /\ local'[u] = local[u] /\ Vetted(u)
      BY <1>0, <1>1, OthersRest DEF ThreadStep, ShipInv
    <3> QED BY <1>0, <2>3, <3>1 DEF Vetted, Near
  <2> QED BY <2>1, <2>4, <2>5, <2>6 DEF ShipInv
<1>2. ASSUME NEW victims, NEW resting \in {"idle", "done"}, Crash(victims, resting)
      PROVE  ShipInv'
  <2>1. ASSUME NEW u \in Threads PROVE Vetted(u)'
    <3>1. Vetted(u) /\ UNCHANGED <<row, outside>>
      BY <1>2 DEF ShipInv, Crash
    <3>2. CASE u \in victims
      <4>1. local'[u].patch = None /\ local'[u].result = "none"
        BY <1>2, <3>2 DEF Crash, Closed
      <4>2. pc'[u] \notin VettedSteps
        BY <1>2, <3>2 DEF Crash, VettedSteps
      <4> QED BY <4>1, <4>2 DEF Vetted, Near, VettedSteps
    <3>3. CASE u \notin victims
      <4>1. pc'[u] = pc[u] /\ local'[u] = local[u]
        BY <1>2, <3>3 DEF Crash
      <4> QED BY <3>1, <4>1 DEF Vetted, Near
    <3> QED BY <3>2, <3>3
  <2> QED BY <1>2, <2>1 DEF Crash, ShipInv, ShipsWhatWasValidated, PullRequestRowIsReal
<1>3. CASE LeaseExpires \/ LabChanges \/ UNCHANGED vars
  BY <1>3
  DEF LeaseExpires, LabChanges, vars, ShipInv, ShipsWhatWasValidated, PullRequestRowIsReal,
      Vetted, Near
<1> QED BY <1>1, <1>2, <1>3, NextCases

(* The pull request on GitHub holds a patch that passed validation         *)
(* (open_pull_request), with any number of threads.                        *)
THEOREM ShipsValidated == Spec => []ShipsWhatWasValidated
<1>1. ShipInv => ShipsWhatWasValidated
  BY DEF ShipInv
<1> QED BY <1>1, InitTypes, StepTypes, InitShip, StepShip, PTL DEF Spec

(* The database claims an open pull request only when GitHub has it        *)
(* (_push_and_open).                                                       *)
THEOREM PullRequestsReal == Spec => []PullRequestRowIsReal
<1>1. ShipInv => PullRequestRowIsReal
  BY DEF ShipInv
<1> QED BY <1>1, InitTypes, StepTypes, InitShip, StepShip, PTL DEF Spec

-----------------------------------------------------------------------------
(* Every call of transition finds, in the session's own copy of the run, a *)
(* status that the edge starts from: what a thread is about to do fits the *)
(* status it has in memory, at the calls and at the work between them.     *)

Fits(step, s) ==
  /\ step = "normalize" => s = "RECEIVED"
  /\ step = "pend" => s = "NORMALIZED"
  /\ step \in {"context", "resolve"} => s = "CONTEXT_PENDING"
  /\ step = "checks" => s = "CONTEXT_RESOLVED"
  /\ step \in {"rules", "checked"} => s = "CHECKS_RUNNING"
  /\ step = "giveup" => s \in {"CONTEXT_PENDING", "CHECKS_RUNNING"}
  /\ step \in {"clean", "open", "insert", "attach", "planning"} => s = "CHECKS_COMPLETED"
  /\ step \in {"plan", "await"} => s = "REMEDIATION_PLANNING"
  /\ step = "generating" => s = "APPROVED"
  /\ step \in {"generate", "generated"} => s = "PATCH_GENERATING"
  /\ step = "validating" => s = "PATCH_GENERATED"
  /\ step \in {"validate", "valid", "invalid"} => s = "VALIDATION_RUNNING"
  /\ step \in {"publish", "pending"} => s \in {"VALIDATED", "PULL_REQUEST_OPENED"}
  /\ step = "creating" => s = "VALIDATED"
  /\ step \in {"openpr", "recordpr", "opened"} => s = "PULL_REQUEST_CREATING"
  /\ step \in {"writeback", "recordwb", "updated"} => s = "DATAHUB_WRITEBACK_PENDING"
  /\ step = "complete" => s = "DATAHUB_UPDATED"
  /\ step \in {"approve", "approving", "reject", "rejecting"} => s = "AWAITING_APPROVAL"
  /\ step = "cancelling" => s \in Status /\ "CANCELLED" \in Allowed[s]
  /\ step = "retrying" => s = "VALIDATION_FAILED"

EdgeInv == \A t \in Threads : Fits(pc[t], local[t].mem)

(* A transition that fits is an edge of the machine.                       *)
LEMMA FitsIsEdge ==
  ASSUME NEW step \in DOMAIN Target, NEW s, Fits(step, s)
  PROVE  Target[step] \in Allowed[s]
BY DEF Target, Fits, Allowed

(* The steps that nothing is expected of.                                  *)
LEMMA FreeSteps ==
  /\ \A step \in {"idle", "queued", "claim", "release", "done", "follow", "rebuild"} :
        \A s : Fits(step, s)
  /\ \A t, s : Fits(Over(t), s)
BY DEF Fits, Over

(* The drivers' branches enter where the status fits.                      *)
LEMMA EntriesFit ==
  /\ \A t, s : Fits(ToApproval(t, s), s)
  /\ \A t, s : Fits(AfterRebuild(t, s), s)
BY DEF Fits, ToApproval, AfterRebuild, Over

(* What a thread does after it has moved the run fits where it moved it.   *)
LEMMA MovesFit ==
  ASSUME NEW t, NEW s, NEW v PROVE Fits(AfterMove(t, s, v), s)
BY DEF Fits, AfterMove, Over

(* At first every thread is at a step that nothing is expected of.         *)
LEMMA InitEdge == Init => EdgeInv
<1>1. Init => \A t \in Threads : pc[t] \in {"queued", "idle"}
  BY DEF Init
<1> QED BY <1>1, FreeSteps DEF EdgeInv

(* A thread's step leads it to a step that fits its status in memory.      *)
LEMMA EdgeStep ==
  ASSUME TypeInv, EdgeInv, NEW t \in Threads, ThreadStep(t)
  PROVE  Fits(pc'[t], local'[t].mem)
<1> DEFINE Goal == Fits(pc'[t], local'[t].mem)
           m == local[t].mem
<1>0. TypeOK /\ local[t] \in LocalType /\ Fits(pc[t], m) /\ status \in Status
  BY DEF TypeInv, TypeOK, EdgeInv
<1>1. /\ \A step : Goto(t, step) => pc'[t] = step
      /\ \A l : Keep(t, l) => local'[t] = l
  BY <1>0 DEF Goto, Keep, TypeOK
<1>2. \A step : Goto(t, step) /\ UNCHANGED local => (Fits(step, m) => Goal)
  BY <1>1
<1>3. \A step, l : Goto(t, step) /\ Keep(t, l) /\ l.mem = m => (Fits(step, m) => Goal)
  BY <1>1
<1>4. Leave(t) => Goal
  BY <1>1, FreeSteps DEF Leave
<1>5. Load \in LocalType /\ Load.mem = status
  BY <1>0, SessionTypes DEF Load, Closed
<1>6. CASE Move(t) \/ FailValidation(t)
  BY <1>1, <1>4, <1>6, FreeSteps DEF Move, FailValidation
<1>7. CASE Follow(t)
  <2> DEFINE next == AfterMove(t, m, local[t].view)
  <2>1. CASE Goto(t, next) /\ UNCHANGED local
    BY <1>2, <2>1, MovesFit
  <2>2. CASE next = "queued" /\ Goto(t, next)
    BY <1>1, <2>2, FreeSteps
  <2> QED BY <1>4, <1>7, <2>1, <2>2 DEF Follow
<1>8. CASE Start(t)
  <2>1. [Load EXCEPT !.live = local[t].live].mem = status
    BY <1>5 DEF LocalType
  <2>2. local'[t].mem = status
    BY <1>1, <1>8, <2>1 DEF Start
  <2>3. pc'[t] = ToApproval(t, status) \/ pc'[t] = "rebuild"
    BY <1>1, <1>8 DEF Start
  <2> QED BY <2>2, <2>3, EntriesFit, FreeSteps
<1>9. CASE ResolveContext(t) \/ RunRules(t)
  <2>1. [local[t] EXCEPT !.view = lab].mem = m
    BY <1>0 DEF LocalType
  <2>2. /\ At(t, "context") => Fits("resolve", m) /\ Fits("giveup", m)
        /\ At(t, "rules") => Fits("checked", m) /\ Fits("giveup", m)
    BY <1>0 DEF At, Fits
  <2> QED BY <1>2, <1>3, <1>4, <1>9, <2>1, <2>2 DEF ResolveContext, LabRaises, RunRules
<1>10. CASE FindIncident(t) \/ InsertIncident(t) \/ AttachIncident(t)
  <2>1. /\ pc[t] \in {"open", "insert", "attach"}
        /\ UNCHANGED local
        /\ \E step \in {"insert", "attach", "planning"} : Goto(t, step)
    BY <1>10 DEF FindIncident, InsertIncident, AttachIncident, At
  <2>2. \A step \in {"insert", "attach", "planning"} : Fits(step, m)
    BY <1>0, <2>1 DEF Fits
  <2> QED BY <1>2, <2>1, <2>2
<1>11. CASE MakePlan(t)
  <2>1. Fits("await", m)
    BY <1>0, <1>11 DEF MakePlan, LabRaises, At, Fits
  <2>2. CASE \E step \in {"idle", "done"} : Goto(t, step)
    BY <1>1, <2>2, FreeSteps
  <2> QED BY <1>2, <1>4, <1>11, <2>1, <2>2 DEF MakePlan, LabRaises
<1>12. CASE Rebuild(t)
  <2>1. [local[t] EXCEPT !.view = lab].mem = m
    BY <1>0 DEF LocalType
  <2> QED BY <1>3, <1>4, <1>12, <2>1, EntriesFit DEF Rebuild, LabRaises
<1>13. CASE Generate(t) \/ Validate(t)
  <2>1. [local[t] EXCEPT !.patch = [findings |-> local[t].view, files |-> lab]].mem = m
    BY <1>0 DEF LocalType
  <2>2. /\ At(t, "generate") => Fits("generated", m)
        /\ At(t, "validate") => Fits("valid", m) /\ Fits("invalid", m)
    BY <1>0 DEF At, Fits
  <2> QED BY <1>2, <1>3, <1>4, <1>13, <2>1, <2>2 DEF Generate, Generated, Validate
<1>14. CASE Publish(t)
  <2>1. [local[t] EXCEPT !.passed = (row.validation = "passed")].mem = m
    BY <1>0 DEF LocalType
  <2>2. Fits("pending", m) /\ (m = "VALIDATED" => Fits("creating", m))
    BY <1>0, <1>14 DEF Publish, At, Fits
  <2>3. local'[t].mem = m
    BY <1>1, <1>14, <2>1 DEF Publish
  <2>4. pc'[t] = "pending" \/ (pc'[t] = "creating" /\ m = "VALIDATED")
    BY <1>1, <1>14 DEF Publish
  <2> QED BY <2>2, <2>3, <2>4
<1>19. CASE CallLands(t)
  BY <1>0, <1>19 DEF CallLands
<1>15. CASE OpenPullRequest(t) \/ RecordPullRequest(t) \/ WriteBack(t) \/ RecordWriteback(t)
  <2>1. \A result : [local[t] EXCEPT !.result = result].mem = m
    BY <1>0 DEF LocalType
  <2>2. /\ At(t, "openpr") => Fits("recordpr", m)
        /\ At(t, "recordpr") => Fits("opened", m)
        /\ At(t, "writeback") => Fits("recordwb", m)
        /\ At(t, "recordwb") => Fits("updated", m)
    BY <1>0 DEF At, Fits
  <2> QED BY <1>3, <1>4, <1>15, <2>1, <2>2
    DEF OpenPullRequest, RecordPullRequest, CallLands, WriteBack, RecordWriteback
<1>16. CASE Handle(t)
  <2>1. [local[t] EXCEPT !.live = PrLive(t)].mem = m
    BY <1>0 DEF LocalType
  <2>2. /\ At(t, "approve") => Fits("approving", m)
        /\ At(t, "reject") => Fits("rejecting", m)
    BY <1>0 DEF At, Fits
  <2> QED BY <1>2, <1>3, <1>16, <2>1, <2>2 DEF Handle, RecordApproval, RecordRejection
<1>17. CASE Operate(t)
  <2>1. CASE PatchIncident(t)
    BY <1>1, <2>1, FreeSteps DEF PatchIncident
  <2>2. ASSUME NEW step, Read(t, step), Fits(step, status) PROVE Goal
    BY <1>1, <1>5, <2>2 DEF Read
  <2>3. /\ status = "AWAITING_APPROVAL" => Fits("approve", status) /\ Fits("reject", status)
        /\ "CANCELLED" \in Allowed[status] => Fits("cancelling", status)
        /\ status = "VALIDATION_FAILED" => Fits("retrying", status)
    BY <1>0 DEF Fits
  <2> QED BY <1>17, <2>1, <2>2, <2>3
    DEF Operate, BeginApprove, BeginReject, BeginCancel, BeginRetry
<1>18. CASE Recover(t)
  <2>1. CASE Sweep(t) \/ Release(t)
    BY <1>1, <2>1, FreeSteps DEF Sweep, Release, Read
  <2>2. CASE Claim(t)
    <3>1. [local[t] EXCEPT !.held = TRUE, !.live = ResumedLive].mem = m
      BY <1>0 DEF LocalType
    <3>2. local'[t].mem = m /\ (pc'[t] = "rebuild" \/ pc'[t] = ToApproval(t, m))
      BY <1>1, <2>2, <3>1 DEF Claim
    <3> QED BY <3>2, EntriesFit, FreeSteps
  <2> QED BY <1>18, <2>1, <2>2 DEF Recover
<1> QED
  BY <1>6, <1>7, <1>8, <1>9, <1>10, <1>11, <1>12, <1>13, <1>14, <1>15, <1>16, <1>17, <1>18,
     <1>19
  DEF ThreadStep, Drive

(* Every step keeps what the threads are about to do fitting.              *)
LEMMA StepEdge == TypeInv /\ EdgeInv /\ [Next]_vars => EdgeInv'
<1> SUFFICES ASSUME TypeInv, EdgeInv, [Next]_vars PROVE EdgeInv'
  OBVIOUS
<1>1. ASSUME NEW t \in Threads, ThreadStep(t) PROVE EdgeInv'
  BY <1>1, EdgeStep, OthersRest DEF ThreadStep, TypeInv, EdgeInv
<1>2. ASSUME NEW victims, NEW resting \in {"idle", "done"}, Crash(victims, resting)
      PROVE  EdgeInv'
  <2>1. \A u \in Threads :
          \/ pc'[u] = pc[u] /\ local'[u] = local[u]
          \/ pc'[u] \in {"idle", "done"}
    BY <1>2 DEF Crash
  <2> QED BY <2>1, FreeSteps DEF EdgeInv
<1>3. CASE LeaseExpires \/ LabChanges \/ UNCHANGED vars
  BY <1>3 DEF LeaseExpires, LabChanges, vars, EdgeInv
<1> QED BY <1>1, <1>2, <1>3, NextCases

(* transition never raises IllegalTransition: no driver, handler or worker *)
(* asks it for an edge that the machine does not have.                     *)
THEOREM NoIllegalEdge == Spec => []NoIllegalTransition
<1>1. EdgeInv => NoIllegalTransition
  BY FitsIsEdge DEF EdgeInv, NoIllegalTransition
<1> QED BY <1>1, InitTypes, StepTypes, InitEdge, StepEdge, PTL DEF Spec

=============================================================================
