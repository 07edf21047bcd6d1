--------------------------- MODULE SharedRunProofs ---------------------------
(***************************************************************************)
(* What holds of RunLifecycle when any number of threads drive the same    *)
(* run, each from a session that may be stale: the run implements          *)
(* SharedRun, a finished run that nobody remembers otherwise stays         *)
(* finished, and a run that nothing disturbs is not left behind.           *)
(***************************************************************************)
EXTENDS RunLifecycleProofs

(* On its way to APPROVED, and with a remediation scheduled, a thread is   *)
(* an operator's request whose approval is recorded.                       *)
Asked(t) ==
  \/ pc[t] = "approving"
  \/ pc[t] = "follow" /\ local[t].mem = "APPROVED"
  \/ pc[t] = "queued" /\ t # Creator

AskedInv == \A t \in Threads : Asked(t) => t \in row.approvals

Delivered == outside.github # None \/ outside.datahub

-----------------------------------------------------------------------------
(* What a thread's step may do to the parts SharedRun knows.               *)

(* Only transition moves the run.                                          *)
LEMMA WhoMoves ==
  ASSUME NEW t \in Threads, ThreadStep(t), ~Move(t), ~FailValidation(t)
  PROVE  UNCHANGED status
<1>1. CASE Drive(t)
  BY <1>1
  DEF Drive, Follow, Start, ResolveContext, RunRules, FindIncident, InsertIncident,
      AttachIncident, MakePlan, Rebuild, Generate, Validate, Publish, OpenPullRequest,
      RecordPullRequest, CallLands, WriteBack, RecordWriteback
<1>2. CASE Operate(t) \/ Handle(t)
  BY <1>2
  DEF Operate, BeginApprove, BeginReject, BeginCancel, BeginRetry, PatchIncident, Read,
      Handle, RecordApproval, RecordRejection
<1>3. CASE Recover(t)
  BY <1>3 DEF Recover, Sweep, Claim, Release, Read
<1> QED BY <1>1, <1>2, <1>3 DEF ThreadStep

(* Only an operator's approval is recorded as one.                         *)
LEMMA WhoApproves ==
  ASSUME TypeOK, NEW t \in Threads, ThreadStep(t), ~RecordApproval(t)
  PROVE  UNCHANGED row.approvals
<1>0. row \in RowType
  BY DEF TypeOK
<1>1. CASE Drive(t)
  <2>1. CASE UNCHANGED row
    BY <2>1
  <2>2. CASE ResolveContext(t) \/ MakePlan(t) \/ Generate(t) \/ Validate(t)
               \/ RecordPullRequest(t) \/ RecordWriteback(t)
    BY <1>0, <2>2
    DEF ResolveContext, LabRaises, MakePlan, Generate, Validate, RecordPullRequest,
        RecordWriteback, RowType
  <2> QED BY <1>1, <2>1, <2>2
    DEF Drive, Move, FailValidation, Follow, Start, RunRules, FindIncident, InsertIncident,
        AttachIncident, Rebuild, Publish, OpenPullRequest, CallLands, WriteBack
<1>2. CASE Operate(t) \/ Handle(t)
  BY <1>0, <1>2
  DEF Operate, BeginApprove, BeginReject, BeginCancel, BeginRetry, PatchIncident, Read,
      Handle, RecordRejection, RowType
<1>3. CASE Recover(t)
  BY <1>3 DEF Recover, Sweep, Claim, Release, Read
<1> QED BY <1>1, <1>2, <1>3 DEF ThreadStep

(* Only a push and a call of the write-back let something out.             *)
LEMMA WhoDelivers ==
  ASSUME NEW t \in Threads, ThreadStep(t), ~OpenPullRequest(t), ~CallLands(t)
  PROVE  UNCHANGED outside
<1>1. CASE Drive(t)
  BY <1>1
  DEF Drive, Move, FailValidation, Follow, Start, ResolveContext, RunRules, FindIncident,
      InsertIncident, AttachIncident, MakePlan, Rebuild, Generate, Validate, Publish,
      RecordPullRequest, WriteBack, RecordWriteback
<1>2. CASE Operate(t) \/ Handle(t)
  BY <1>2
  DEF Operate, BeginApprove, BeginReject, BeginCancel, BeginRetry, PatchIncident, Read,
      Handle, RecordApproval, RecordRejection
<1>3. CASE Recover(t)
  BY <1>3 DEF Recover, Sweep, Claim, Release, Read
<1> QED BY <1>1, <1>2, <1>3 DEF ThreadStep

(* The thread believes of the run what it believed, or nothing.            *)
Forgets(t) == local'[t].mem \in {local[t].mem, None}

(* A thread that neither moves nor loads the run forgets at most; one that *)
(* loads it believes what is stored.                                       *)
LEMMA WhoSees ==
  ASSUME TypeOK, NEW t \in Threads, ThreadStep(t), ~Move(t)
  PROVE  Forgets(t) \/ (local'[t].mem = status /\ (Start(t) \/ \E step : Read(t, step)))
<1> DEFINE m == local[t].mem
<1>0. local[t] \in LocalType
  BY DEF TypeOK
<1>1. \A l : Keep(t, l) => local'[t] = l
  BY DEF Keep, TypeOK
<1>2. Closed \in LocalType /\ Load \in LocalType /\ Closed.mem = None /\ Load.mem = status
  BY SessionTypes DEF Load, Closed
<1>3. Leave(t) => Forgets(t)
  <2>1. [Closed EXCEPT !.held = local[t].held].mem = None
    BY <1>2 DEF LocalType
  <2> QED BY <1>1, <1>2, <2>1 DEF Leave, Forgets
<1>4. UNCHANGED local => Forgets(t)
  BY DEF Forgets
<1>5. CASE Drive(t)
  <2>1. CASE Start(t)
    <3>1. [Load EXCEPT !.live = local[t].live].mem = status
      BY <1>2 DEF LocalType
    <3> QED BY <1>1, <2>1, <3>1 DEF Start
  <2>2. CASE Follow(t)
    <3>1. [Closed EXCEPT !.live = local[t].live].mem = None
      BY <1>2 DEF LocalType
    <3> QED BY <1>1, <1>3, <1>4, <2>2, <3>1 DEF Follow, Forgets
  <2>3. CASE FailValidation(t) \/ FindIncident(t) \/ InsertIncident(t) \/ AttachIncident(t)
               \/ Validate(t) \/ CallLands(t)
    BY <1>3, <1>4, <2>3
    DEF FailValidation, FindIncident, InsertIncident, AttachIncident, Validate, CallLands
  <2>4. CASE ResolveContext(t) \/ RunRules(t) \/ MakePlan(t) \/ Rebuild(t)
    <3>1. [local[t] EXCEPT !.view = lab].mem = m
      BY <1>0 DEF LocalType
    <3> QED BY <1>1, <1>2, <1>3, <1>4, <2>4, <3>1
      DEF ResolveContext, RunRules, MakePlan, Rebuild, LabRaises, Forgets
  <2>5. CASE Generate(t) \/ Publish(t)
    <3>1. /\ [local[t] EXCEPT !.patch = Generated(t)].mem = m
          /\ [local[t] EXCEPT !.passed = (row.validation = "passed")].mem = m
      BY <1>0 DEF LocalType
    <3> QED BY <1>1, <1>3, <2>5, <3>1 DEF Generate, Publish, Forgets
  <2>6. CASE OpenPullRequest(t) \/ RecordPullRequest(t) \/ WriteBack(t) \/ RecordWriteback(t)
    <3>1. \A result : [local[t] EXCEPT !.result = result].mem = m
      BY <1>0 DEF LocalType
    <3> QED BY <1>1, <1>3, <2>6, <3>1
      DEF OpenPullRequest, RecordPullRequest, WriteBack, RecordWriteback, Forgets
  <2> QED BY <1>5, <2>1, <2>2, <2>3, <2>4, <2>5, <2>6 DEF Drive
<1>6. CASE Handle(t)
  <2>1. [local[t] EXCEPT !.live = PrLive(t)].mem = m
    BY <1>0 DEF LocalType
  <2> QED BY <1>1, <1>4, <1>6, <2>1 DEF Handle, RecordApproval, RecordRejection, Forgets
<1>7. CASE Operate(t)
  <2>1. CASE PatchIncident(t)
    BY <1>4, <2>1 DEF PatchIncident
  <2>2. CASE \E step : Read(t, step)
    BY <1>1, <1>2, <2>2 DEF Read
  <2> QED BY <1>7, <2>1, <2>2
    DEF Operate, BeginApprove, BeginReject, BeginCancel, BeginRetry
<1>8. CASE Recover(t)
  <2>1. [local[t] EXCEPT !.held = TRUE, !.live = ResumedLive].mem = m
    BY <1>0 DEF LocalType
  <2> QED BY <1>1, <1>2, <1>8, <2>1 DEF Recover, Sweep, Read, Claim, Release, Forgets
<1> QED BY <1>5, <1>6, <1>7, <1>8 DEF ThreadStep

(* A request's own approval precedes everything Asked speaks of.           *)
LEMMA AskedStep ==
  ASSUME TypeInv, EdgeInv, AskedInv, NEW t \in Threads, ThreadStep(t), Asked(t)'
  PROVE  t \in row'.approvals
<1>0. /\ TypeOK /\ local[t] \in LocalType /\ row \in RowType
      /\ Asked(t) => t \in row'.approvals
  BY RowGrows DEF TypeInv, TypeOK, AskedInv, Next, ThreadStep, Threads, ApiThreads
<1>1. /\ \A step : Goto(t, step) => pc'[t] = step
      /\ \A l : Keep(t, l) => local'[t] = l
  BY <1>0 DEF Goto, Keep, TypeOK
<1> DEFINE Aside == pc'[t] \notin {"approving", "follow", "queued"}
<1>2. ~Aside
  BY DEF Asked
<1>3. Leave(t) => Aside
  BY <1>1 DEF Leave, Over
<1>4. CASE Move(t)
  <2>1. pc'[t] = "follow" /\ local'[t].mem = Target[pc[t]]
    BY <1>0, <1>1, <1>4 DEF Move, LocalType
  <2>2. Target[pc[t]] = "APPROVED"
    BY <2>1 DEF Asked
  <2>3. pc[t] = "approving"
    BY <1>4, <2>2 DEF Move, Target
  <2> QED BY <1>0, <2>3 DEF Asked
<1>5. CASE Follow(t)
  <2>1. AfterMove(t, local[t].mem, local[t].view) \in {"approving", "follow", "queued"}
        => local[t].mem = "APPROVED"
    BY DEF AfterMove, Over
  <2>2. pc[t] = "follow" /\ local[t].mem = "APPROVED"
    BY <1>1, <1>2, <1>3, <1>5, <2>1 DEF Follow, At
  <2> QED BY <1>0, <2>2 DEF Asked
<1>6. CASE RecordApproval(t)
  BY <1>0, <1>6 DEF RecordApproval, RowType
<1>7. CASE CallLands(t)
  BY <1>2, <1>7 DEF CallLands, At
<1>8. ~(Drive(t) /\ ~Move(t) /\ ~Follow(t) /\ ~CallLands(t))
  BY <1>1, <1>2, <1>3
  DEF Drive, Start, FailValidation, ResolveContext, RunRules, LabRaises, FindIncident,
      InsertIncident, AttachIncident, MakePlan, Rebuild, Generate, Validate, Publish,
      OpenPullRequest, RecordPullRequest, WriteBack, RecordWriteback, ToApproval,
      AfterRebuild, Over
<1>9. ~RecordRejection(t) /\ ~Operate(t)
  BY <1>1, <1>2
  DEF RecordRejection, Operate, BeginApprove, BeginReject, BeginCancel, BeginRetry,
      PatchIncident, Read
<1>10. ~Recover(t)
  BY <1>1, <1>2 DEF Recover, Sweep, Read, Claim, Release, ToApproval, Over
<1> QED BY <1>4, <1>5, <1>6, <1>7, <1>8, <1>9, <1>10 DEF ThreadStep, Handle

(* Nobody asks at first.                                                   *)
LEMMA InitAsked == Init => AskedInv
BY DEF Init, AskedInv, Asked, Closed

(* Every step keeps AskedInv.                                              *)
LEMMA StepAsked == TypeInv /\ EdgeInv /\ AskedInv /\ [Next]_vars => AskedInv'
<1> SUFFICES ASSUME TypeInv, EdgeInv, AskedInv, [Next]_vars PROVE AskedInv'
  OBVIOUS
<1>0. TypeOK /\ row.approvals \subseteq row'.approvals
  BY RowGrows DEF TypeInv
<1>1. ASSUME NEW t \in Threads, ThreadStep(t) PROVE AskedInv'
  <2>1. ASSUME NEW u \in Threads \ {t}, Asked(u)' PROVE u \in row'.approvals
    <3>1. pc'[u] = pc[u] /\ local'[u] = local[u]
      BY <1>0, <1>1, OthersRest DEF ThreadStep
    <3> QED BY <1>0, <2>1, <3>1 DEF Asked, AskedInv
  <2> QED BY <1>1, <2>1, AskedStep DEF AskedInv
<1>2. ASSUME NEW victims, NEW resting \in {"idle", "done"}, Crash(victims, resting)
      PROVE  AskedInv'
  <2>1. \A u \in Threads :
          \/ pc'[u] = pc[u] /\ local'[u] = local[u]
          \/ pc'[u] \in {"idle", "done"}
    BY <1>2 DEF Crash
  <2> QED BY <1>0, <2>1 DEF Asked, AskedInv
<1>3. CASE LeaseExpires \/ LabChanges \/ UNCHANGED vars
  BY <1>3 DEF LeaseExpires, LabChanges, vars, AskedInv, Asked
<1> QED BY <1>1, <1>2, <1>3, NextCases

-----------------------------------------------------------------------------
(* The run implements SharedRun.                                           *)

(* The machine of SharedRun is the machine of the code.                    *)
LEMMA SameEdges == Shared!Allowed = Allowed
BY DEF Shared!Allowed, Allowed

(* A thread that calls transition has loaded the run.                      *)
LEMMA MoversHaveLooked ==
  ASSUME NEW step \in DOMAIN Target, NEW s, Fits(step, s)
  PROVE  s # None
BY ThreadsAssumption DEF Target, Fits, Status, Allowed

(* A thread's step changes what that thread believes only.                 *)
LEMMA OneLooks ==
  ASSUME TypeOK, NEW t \in Threads, ThreadStep(t), NEW m, local'[t].mem = m
  PROVE  [u \in Threads |-> local'[u].mem]
           = [[u \in Threads |-> local[u].mem] EXCEPT ![t] = m]
BY OthersRest DEF ThreadStep

(* transition advances the run from what its session believes.             *)
LEMMA MoveShared ==
  ASSUME TypeInv, EdgeInv, AskedInv, NEW t \in Threads, ThreadStep(t),
         Move(t) \/ FailValidation(t)
  PROVE  Shared!Advance(t)
<1>0. TypeOK /\ local[t] \in LocalType /\ Fits(pc[t], local[t].mem)
  BY DEF TypeInv, TypeOK, EdgeInv
<1>1. \A l : Keep(t, l) => local'[t] = l
  BY <1>0 DEF Keep, TypeOK
<1>2. UNCHANGED <<row.approvals, Delivered>>
  BY DEF Move, FailValidation, Delivered
<1>3. CASE Move(t)
  <2>1. local[t].mem # None
    BY <1>0, <1>3, MoversHaveLooked DEF Move
  <2>2. status' \in Allowed[local[t].mem] /\ local'[t].mem = status'
    BY <1>0, <1>1, <1>3 DEF Move, LocalType
  <2>3. status' = "APPROVED" => t \in row.approvals
    BY <1>3 DEF Move, Target, AskedInv, Asked
  <2> QED BY <1>0, <1>2, <2>1, <2>2, <2>3, OneLooks, SameEdges DEF Shared!Advance, Delivered
<1>4. CASE FailValidation(t)
  <2>1. local[t].mem = "VALIDATION_RUNNING" /\ "VALIDATION_RUNNING" # None
    BY <1>0, <1>4, ThreadsAssumption DEF FailValidation, At, Fits, Status, Allowed
  <2>2. status' \in Allowed[local[t].mem] /\ status' # "APPROVED"
    BY <1>4 DEF FailValidation
  <2>3. local'[t].mem = None
    <3>1. Closed \in LocalType /\ Closed.mem = None
      BY <1>0, SessionTypes DEF Closed
    <3>2. [Closed EXCEPT !.held = local[t].held].mem = None
      BY <3>1 DEF LocalType
    <3> QED BY <1>1, <1>4, <3>1, <3>2 DEF FailValidation, Leave
  <2> QED BY <1>0, <1>2, <2>1, <2>2, <2>3, OneLooks, SameEdges DEF Shared!Advance, Delivered
<1> QED BY <1>3, <1>4

(* A push and a call of the write-back deliver, where the thread's own     *)
(* steps have brought the run and after an approval.                       *)
LEMMA DeliverShared ==
  ASSUME TypeInv, EdgeInv, GateInv, ShipInv, NEW t \in Threads, ThreadStep(t),
         OpenPullRequest(t) \/ CallLands(t), outside' # outside
  PROVE  Shared!Deliver(t)
<1>0. TypeOK /\ Fits(pc[t], local[t].mem) /\ Vetted(t)
  BY DEF TypeInv, EdgeInv, ShipInv
<1>1. pc[t] \in {"openpr", "writeback"}
  BY DEF OpenPullRequest, CallLands, At
<1>2. local[t].mem \in {"PULL_REQUEST_CREATING", "DATAHUB_WRITEBACK_PENDING"}
  BY <1>0, <1>1 DEF Fits
<1>3. row.approvals # {}
  BY <1>1 DEF GateInv, Begun, GrantedSteps
<1>4. Delivered'
  <2>1. CASE CallLands(t)
    BY <1>0, <2>1 DEF CallLands, Delivered, TypeOK
  <2>2. CASE OpenPullRequest(t)
    <3>1. outside' = [outside EXCEPT !.github = local[t].patch]
      BY <2>2 DEF OpenPullRequest
    <3>2. local[t].patch # None
      <4>1. local[t].patch \in row.validated /\ row.validated \subseteq Patches
        BY <1>0, <2>2 DEF OpenPullRequest, At, Vetted, Near, TypeOK, RowType
      <4> QED BY <4>1, ThreadsAssumption
    <3> QED BY <1>0, <3>1, <3>2 DEF Delivered, TypeOK
  <2> QED BY <2>1, <2>2
<1>5. UNCHANGED <<status, row>>
  BY DEF OpenPullRequest, CallLands
<1>6. Forgets(t)
  <2>1. ~Move(t)
    BY <1>1 DEF Move, Target
  <2>2. ~Start(t) /\ \A step : ~Read(t, step)
    BY <1>1 DEF Start, Read, At
  <2> QED BY <1>0, <2>1, <2>2, WhoSees
<1>7. [u \in Threads |-> local'[u].mem]
        \in {[u \in Threads |-> local[u].mem],
             [[u \in Threads |-> local[u].mem] EXCEPT ![t] = None]}
  BY <1>0, <1>6, OneLooks DEF Forgets
<1> QED BY <1>2, <1>3, <1>4, <1>5, <1>7 DEF Shared!Deliver, Delivered

(* An approval that is recorded approves, of a thread that saw the run     *)
(* waiting.                                                                *)
LEMMA ApproveShared ==
  ASSUME TypeInv, EdgeInv, NEW t \in Threads, ThreadStep(t), RecordApproval(t)
  PROVE  Shared!Approve(t)
<1>0. TypeOK /\ Fits(pc[t], local[t].mem) /\ row \in RowType /\ local[t] \in LocalType
  BY DEF TypeInv, TypeOK, EdgeInv
<1>1. local[t].mem = "AWAITING_APPROVAL"
  BY <1>0 DEF RecordApproval, At, Fits
<1>2. row'.approvals = row.approvals \union {t}
  BY <1>0 DEF RecordApproval, RowType
<1>3. local'[t].mem = local[t].mem
  <2>1. [local[t] EXCEPT !.live = PrLive(t)].mem = local[t].mem
    BY <1>0 DEF LocalType
  <2> QED BY <1>0, <2>1 DEF RecordApproval, Keep, TypeOK
<1>4. [u \in Threads |-> local'[u].mem] = [u \in Threads |-> local[u].mem]
  BY <1>0, <1>3, OneLooks
<1> QED BY <1>1, <1>2, <1>4 DEF RecordApproval, Shared!Approve

(* Every other step of a thread loads the run, forgets it or does nothing  *)
(* that SharedRun knows of.                                                *)
LEMMA RestShared ==
  ASSUME TypeInv, NEW t \in Threads, ThreadStep(t), ~Move(t), ~FailValidation(t),
         ~RecordApproval(t), UNCHANGED outside
  PROVE  [Shared!Look(t) \/ Shared!Forget({t})]_(Shared!sharedVars)
<1>0. TypeOK
  BY DEF TypeInv
<1>1. UNCHANGED <<status, row.approvals, Delivered>>
  BY <1>0, WhoMoves, WhoApproves DEF Delivered
<1> DEFINE seen == [u \in Threads |-> local[u].mem]
<1>2. CASE local'[t].mem = local[t].mem
  <2>1. seen' = seen
    BY <1>0, <1>2, OneLooks
  <2> QED BY <1>1, <2>1 DEF Shared!sharedVars, Delivered
<1>3. CASE local'[t].mem = None
  <2>1. seen' = [u \in Threads |-> IF u \in {t} THEN None ELSE seen[u]]
    BY <1>0, <1>3, OneLooks
  <2> QED BY <1>1, <2>1 DEF Shared!Forget, Delivered
<1>4. CASE local'[t].mem = status
  <2>1. seen' = [seen EXCEPT ![t] = status]
    BY <1>0, <1>4, OneLooks
  <2> QED BY <1>1, <2>1 DEF Shared!Look, Delivered
<1> QED BY <1>0, <1>2, <1>3, <1>4, WhoSees DEF Forgets

SharedInv == TypeInv /\ EdgeInv /\ GateInv /\ ShipInv /\ AskedInv

(* Each step of the system is a step of SharedRun, or none.                *)
LEMMA StepShared == SharedInv /\ [Next]_vars => [Shared!SharedNext]_(Shared!sharedVars)
<1> DEFINE Goal == [Shared!SharedNext]_(Shared!sharedVars)
<1> SUFFICES ASSUME SharedInv, [Next]_vars PROVE Goal
  OBVIOUS
<1> USE DEF SharedInv
<1>1. ASSUME NEW t \in Threads, ThreadStep(t) PROVE Goal
  <2>1. CASE Move(t) \/ FailValidation(t)
    BY <1>1, <2>1, MoveShared DEF Shared!SharedNext
  <2>2. CASE (OpenPullRequest(t) \/ CallLands(t)) /\ outside' # outside
    BY <1>1, <2>2, DeliverShared DEF Shared!SharedNext
  <2>3. CASE RecordApproval(t)
    BY <1>1, <2>3, ApproveShared DEF Shared!SharedNext
  <2>4. CASE UNCHANGED outside /\ ~Move(t) /\ ~FailValidation(t) /\ ~RecordApproval(t)
    <3>1. {t} \in SUBSET Threads
      OBVIOUS
    <3> QED BY <1>1, <2>4, <3>1, RestShared DEF Shared!SharedNext
  <2> QED BY <1>1, <2>1, <2>2, <2>3, <2>4, WhoDelivers
<1>2. ASSUME NEW victims, NEW resting, Crash(victims, resting) PROVE Goal
  <2> DEFINE seen == [u \in Threads |-> local[u].mem]
             gone == victims \intersect Threads
  <2>1. UNCHANGED <<status, row, outside>>
    BY <1>2 DEF Crash
  <2>2. seen' = [u \in Threads |-> IF u \in gone THEN None ELSE seen[u]]
    BY <1>2 DEF Crash, Closed
  <2>3. gone \in SUBSET Threads
    OBVIOUS
  <2>4. Shared!Forget(gone)
    BY <2>1, <2>2 DEF Shared!Forget
  <2> QED BY <2>3, <2>4 DEF Shared!SharedNext
<1>3. CASE LeaseExpires \/ LabChanges \/ UNCHANGED vars
  BY <1>3 DEF LeaseExpires, LabChanges, vars, Shared!sharedVars
<1> QED BY <1>1, <1>2, <1>3, NextCases

(* A run begins where SharedRun does, and nobody has loaded it.            *)
LEMMA InitShared == Init => Shared!SharedInit
BY ScopeAssumption DEF Init, NoRows, Closed, Shared!SharedInit

(* However many operators, background tasks and workers share a run, from  *)
(* sessions that may be stale, and whatever crashes: transition, approve   *)
(* and the calls outside keep to SharedRun.                                *)
THEOREM SharedKept == Spec => KeepsShared
<1>1. Init => SharedInv
  BY InitTypes, InitEdge, InitGate, InitShip, InitAsked DEF SharedInv
<1>2. SharedInv /\ [Next]_vars => SharedInv'
  BY StepTypes, StepEdge, StepGate, StepShip, StepAsked DEF SharedInv
<1> QED BY <1>1, <1>2, InitShared, StepShared, PTL DEF Spec, KeepsShared, Shared!SharedSpec

(* A run in a terminal status that no thread remembers in another one.     *)
Finished ==
  /\ status \in Terminal
  /\ \A t \in Threads : local[t].mem \in Terminal \union {None}

(* By SharedRun alone, such a run is not moved any more.                   *)
LEMMA PromiseIsWorth == KeepsShared => [](Finished => []Finished)
<1> DEFINE seen == [u \in Threads |-> local[u].mem]
<1>1. Finished /\ [Shared!SharedNext]_(Shared!sharedVars) => Finished'
  <2> SUFFICES ASSUME Finished, [Shared!SharedNext]_(Shared!sharedVars) PROVE Finished'
    OBVIOUS
  <2>1. \A t \in Threads : seen[t] = local[t].mem /\ seen'[t] = local'[t].mem
    OBVIOUS
  <2>2. ASSUME NEW p \in Threads PROVE ~Shared!Advance(p)
    <3>1. local[p].mem # None => Allowed[local[p].mem] = {}
      BY DEF Finished, Terminal, Allowed
    <3> QED BY <3>1, SameEdges DEF Shared!Advance
  <2>3. ASSUME NEW p \in Threads, Shared!Look(p) \/ Shared!Approve(p) \/ Shared!Deliver(p)
        PROVE  Finished'
    <3>1. UNCHANGED status /\ \A t \in Threads : seen'[t] \in {seen[t], status, None}
      BY <2>3 DEF Shared!Look, Shared!Approve, Shared!Deliver
    <3> QED BY <2>1, <3>1 DEF Finished
  <2>4. ASSUME NEW gone, Shared!Forget(gone) PROVE Finished'
    <3>1. UNCHANGED status /\ \A t \in Threads : seen'[t] \in {seen[t], None}
      BY <2>4 DEF Shared!Forget
    <3> QED BY <2>1, <3>1 DEF Finished
  <2>5. CASE UNCHANGED Shared!sharedVars
    <3>1. UNCHANGED status /\ \A t \in Threads : seen'[t] = seen[t]
      BY <2>5 DEF Shared!sharedVars
    <3> QED BY <2>1, <3>1 DEF Finished
  <2> QED BY <2>2, <2>3, <2>4, <2>5 DEF Shared!SharedNext
<1> QED BY <1>1, PTL DEF KeepsShared, Shared!SharedSpec

(* A cancelled, rejected, failed or completed run can be moved again only  *)
(* by a thread that loaded it before: once the sessions of that time are   *)
(* closed, it stays as it is, whatever operators and workers do.           *)
THEOREM FinishedForGood == Spec => [](Finished => []Finished)
BY SharedKept, PromiseIsWorth, PTL

-----------------------------------------------------------------------------
(* A run that nothing disturbs is not left behind.  Whoever moved it last  *)
(* drives it on; it gives it up where TakenOver says, and nowhere else.    *)

Calm == spent.crashes = 0 /\ spent.faults = 0

(* The thread has the run where it is and goes on with it, or its task is  *)
(* scheduled to.                                                           *)
Owner(t) ==
  \/ pc[t] = "queued" /\ status = (IF t = Creator THEN "RECEIVED" ELSE "APPROVED")
  \/ /\ local[t].mem = status
     /\ pc[t] \notin {"idle", "done", "queued", "claim", "release"}
     /\ pc[t] = "rebuild" => status = "APPROVED"

(* The thread carries a generated patch to its validation.                 *)
Carrier(t) ==
  /\ local[t].patch # None
  /\ \/ pc[t] \in {"generated", "validating", "validate"}
     \/ pc[t] = "follow" /\ local[t].mem \in {"PATCH_GENERATED", "VALIDATION_RUNNING"}

Generates == {"PATCH_GENERATED", "VALIDATION_RUNNING"}

(* What a status, a decision or a session says of the rows.                *)
RowsInv ==
  /\ status # "SIGNATURE_VERIFIED"
  /\ \A t \in Threads : local[t].view = 0
  /\ \A t \in Threads : pc[t] = "follow" => local[t].mem # "RECEIVED"
  /\ \A t \in Threads : pc[t] = "approve" => row.snapshot
  /\ row.approvals # {} => row.snapshot
  /\ \A t \in Threads : pc[t] = "generated" \/ local[t].mem \in Generates => row.artifact
  /\ status \in Generates => row.artifact

OwnedInv ==
  /\ row.artifact => row.validation # "none" \/ \E t \in Threads : Carrier(t)
  /\ status \in Resumable =>
       \/ \E t \in Threads : Owner(t)
       \/ status = "REMEDIATION_PLANNING" /\ (row.plan # None \/ lab \notin Contradicted)
       \/ status = "VALIDATION_RUNNING"

(* A run at rest that nothing has disturbed is settled.                    *)
RestsSettled == Quiet /\ Calm => Settled

PeaceInv == Calm => RowsInv /\ OwnedInv

(* Nothing to show at first: the creator's task is scheduled.              *)
LEMMA InitPeace ==
  ASSUME Triggers = {"RECEIVED"}
  PROVE  Init => PeaceInv
<1> SUFFICES ASSUME Init PROVE PeaceInv
  OBVIOUS
<1>1. status = "RECEIVED" /\ row = NoRows /\ \A t \in Threads : local[t] = Closed
  BY DEF Init
<1>2. Creator \in Threads /\ pc[Creator] = "queued"
  BY DEF Init, Threads, ApiThreads
<1>3. \A t \in Threads : pc[t] \in {"queued", "idle"}
  BY DEF Init
<1>4. None \notin Generates
  BY ThreadsAssumption DEF Generates, Status, Allowed
<1>5. Owner(Creator)
  BY <1>1, <1>2 DEF Owner
<1> QED BY <1>1, <1>2, <1>3, <1>4, <1>5
  DEF PeaceInv, RowsInv, OwnedInv, NoRows, Closed, Generates

(* The invariant is worth what it should be.                               *)
LEMMA PeaceIsWorth == TypeOK /\ PeaceInv => RestsSettled
<1> SUFFICES ASSUME TypeOK, PeaceInv, Quiet, Calm PROVE Settled
  BY DEF RestsSettled
<1>1. \A t \in Threads : ~Owner(t) /\ ~Carrier(t)
  BY DEF Quiet, Owner, Carrier
<1> QED BY <1>1 DEF PeaceInv, RowsInv, OwnedInv, Settled, TakenOver, Generates

(* What the rows have got they keep.                                       *)
LEMMA RowsKeep ==
  ASSUME TypeOK, NEW t \in Threads, ThreadStep(t)
  PROVE  /\ row.snapshot => row'.snapshot
         /\ row.artifact => row'.artifact
         /\ row.plan # None => row'.plan # None
         /\ row.validation # "none" => row'.validation # "none"
<1>0. row \in RowType /\ lab # None
  BY ThreadsAssumption DEF TypeOK
<1>1. CASE UNCHANGED row
  BY <1>1
<1>2. CASE ResolveContext(t) \/ MakePlan(t) \/ Generate(t) \/ Validate(t)
             \/ RecordPullRequest(t) \/ RecordWriteback(t)
  BY <1>0, <1>2
  DEF ResolveContext, LabRaises, MakePlan, Generate, Validate, RecordPullRequest,
      RecordWriteback, RowType
<1>3. CASE Handle(t)
  BY <1>0, <1>3 DEF Handle, RecordApproval, RecordRejection, RowType
<1>4. CASE Operate(t) \/ Recover(t)
  BY <1>4
  DEF Operate, BeginApprove, BeginReject, BeginCancel, BeginRetry, PatchIncident, Read,
      Recover, Sweep, Claim, Release
<1> QED BY <1>1, <1>2, <1>3, <1>4
  DEF ThreadStep, Drive, Move, FailValidation, Follow, Start, RunRules, FindIncident,
      InsertIncident, AttachIncident, Rebuild, Publish, OpenPullRequest, CallLands, WriteBack

(* The findings of a thread come from the lab.                             *)
LEMMA ViewStep ==
  ASSUME TypeOK, NEW t \in Threads, ThreadStep(t), local[t].view = 0, lab = 0
  PROVE  local'[t].view = 0
<1>0. local[t] \in LocalType
  BY DEF TypeOK
<1>1. \A l : Keep(t, l) => local'[t] = l
  BY DEF Keep, TypeOK
<1>2. Closed \in LocalType /\ Load \in LocalType /\ Closed.view = 0 /\ Load.view = 0
  BY SessionTypes DEF Load, Closed
<1>3. Leave(t) => local'[t].view = 0
  <2>1. [Closed EXCEPT !.held = local[t].held].view = 0
    BY <1>2 DEF LocalType
  <2> QED BY <1>1, <1>2, <2>1 DEF Leave
<1>4. CASE UNCHANGED local
  BY <1>4
<1>5. CASE Move(t)
  BY <1>0, <1>1, <1>5 DEF Move, LocalType
<1>6. CASE Follow(t) \/ Start(t)
  <2>1. /\ [Closed EXCEPT !.live = local[t].live].view = 0
        /\ [Load EXCEPT !.live = local[t].live].view = 0
    BY <1>2 DEF LocalType
  <2> QED BY <1>1, <1>3, <1>6, <2>1 DEF Follow, Start
<1>7. CASE ResolveContext(t) \/ RunRules(t) \/ MakePlan(t) \/ Rebuild(t)
  <2>1. [local[t] EXCEPT !.view = lab].view = lab
    BY <1>0 DEF LocalType
  <2> QED BY <1>1, <1>2, <1>3, <1>7, <2>1
    DEF ResolveContext, RunRules, MakePlan, Rebuild, LabRaises
<1>8. CASE Generate(t) \/ Validate(t) \/ Publish(t) \/ FailValidation(t)
  <2>1. /\ [local[t] EXCEPT !.patch = Generated(t)].view = 0
        /\ [local[t] EXCEPT !.passed = (row.validation = "passed")].view = 0
    BY <1>0 DEF LocalType
  <2> QED BY <1>1, <1>3, <1>8, <2>1 DEF Generate, Validate, Publish, FailValidation
<1>9. CASE OpenPullRequest(t) \/ RecordPullRequest(t) \/ WriteBack(t) \/ RecordWriteback(t)
  <2>1. \A result : [local[t] EXCEPT !.result = result].view = 0
    BY <1>0 DEF LocalType
  <2> QED BY <1>1, <1>3, <1>9, <2>1
    DEF OpenPullRequest, RecordPullRequest, WriteBack, RecordWriteback
<1>10. CASE Handle(t)
  <2>1. [local[t] EXCEPT !.live = PrLive(t)].view = 0
    BY <1>0 DEF LocalType
  <2> QED BY <1>1, <1>10, <2>1 DEF Handle, RecordApproval, RecordRejection
<1>11. CASE Operate(t)
  BY <1>1, <1>2, <1>11
  DEF Operate, BeginApprove, BeginReject, BeginCancel, BeginRetry, PatchIncident, Read
<1>12. CASE Recover(t)
  <2>1. [local[t] EXCEPT !.held = TRUE, !.live = ResumedLive].view = 0
    BY <1>0 DEF LocalType
  <2> QED BY <1>1, <1>2, <1>12, <2>1 DEF Recover, Sweep, Read, Claim, Release
<1> QED BY <1>4, <1>5, <1>6, <1>7, <1>8, <1>9, <1>10, <1>11, <1>12
  DEF ThreadStep, Drive, FindIncident, InsertIncident, AttachIncident, CallLands

(* Only approve leads to the record of an approval, only generate to the   *)
(* transition that follows it, and only a transition to what follows one.  *)
LEMMA WhoGetsThere ==
  ASSUME TypeOK, NEW t \in Threads, ThreadStep(t)
  PROVE  /\ pc'[t] = "approve" => BeginApprove(t)
         /\ pc'[t] = "generated" => Generate(t)
         /\ pc'[t] = "follow" => Move(t)
<1> DEFINE Aside == pc'[t] \notin {"approve", "generated", "follow"}
<1>1. \A step : Goto(t, step) => pc'[t] = step
  BY DEF Goto, TypeOK
<1>2. /\ \A s : ToApproval(t, s) \notin {"approve", "generated", "follow"}
      /\ \A s : AfterRebuild(t, s) \notin {"approve", "generated", "follow"}
      /\ \A s, v : AfterMove(t, s, v) \notin {"approve", "generated", "follow"}
      /\ Over(t) \notin {"approve", "generated", "follow"}
  BY DEF ToApproval, AfterRebuild, AfterMove, Over
<1>3. Leave(t) => Aside
  BY <1>1, <1>2 DEF Leave
<1>4. CASE Drive(t)
  <2>1. CASE Move(t) \/ FailValidation(t) \/ Follow(t) \/ Start(t)
    BY <1>1, <1>2, <1>3, <2>1 DEF Move, FailValidation, Follow, Start
  <2>2. CASE ResolveContext(t) \/ RunRules(t) \/ FindIncident(t) \/ InsertIncident(t)
               \/ AttachIncident(t) \/ MakePlan(t)
    BY <1>1, <1>3, <2>2
    DEF ResolveContext, LabRaises, RunRules, FindIncident, InsertIncident, AttachIncident,
        MakePlan
  <2>3. CASE Rebuild(t) \/ Validate(t) \/ Publish(t)
    BY <1>1, <1>2, <1>3, <2>3 DEF Rebuild, LabRaises, Validate, Publish
  <2>4. CASE OpenPullRequest(t) \/ RecordPullRequest(t) \/ WriteBack(t) \/ RecordWriteback(t)
    BY <1>1, <1>3, <2>4
    DEF OpenPullRequest, RecordPullRequest, WriteBack, RecordWriteback
  <2>5. CASE CallLands(t)
    BY <2>5 DEF CallLands, At
  <2>6. CASE Generate(t)
    BY <1>1, <1>3, <2>6 DEF Generate
  <2> QED BY <1>4, <2>1, <2>2, <2>3, <2>4, <2>5, <2>6 DEF Drive
<1>5. CASE Handle(t)
  BY <1>1, <1>5 DEF Handle, RecordApproval, RecordRejection
<1>6. CASE Operate(t)
  BY <1>1, <1>6
  DEF Operate, BeginReject, BeginCancel, BeginRetry, BeginApprove, PatchIncident, Read
<1>7. CASE Recover(t)
  BY <1>1, <1>2, <1>7 DEF Recover, Sweep, Read, Claim, Release
<1> QED BY <1>4, <1>5, <1>6, <1>7 DEF ThreadStep

(* In calm, only generate leads to PATCH_GENERATED.                        *)
LEMMA StatusGenerates ==
  ASSUME TypeOK, EdgeInv, RowsInv, NEW t \in Threads, Move(t),
         Target[pc[t]] \in Generates
  PROVE  row.artifact
<1>1. pc[t] \in {"generated", "validating"}
  BY DEF Move, Target, Generates
<1>2. pc[t] = "validating" => local[t].mem \in Generates
  BY DEF EdgeInv, Fits, Generates
<1> QED BY <1>1, <1>2 DEF RowsInv

(* A thread's step keeps RowsInv.                                          *)
LEMMA StepRows ==
  ASSUME TypeInv, EdgeInv, RowsInv, NEW t \in Threads, ThreadStep(t), lab = 0
  PROVE  RowsInv'
<1>0. TypeOK /\ local[t] \in LocalType
  BY DEF TypeInv, TypeOK
<1>1. \A u \in Threads \ {t} : pc'[u] = pc[u] /\ local'[u] = local[u]
  BY <1>0, OthersRest DEF ThreadStep
<1>2. (row.snapshot => row'.snapshot) /\ (row.artifact => row'.artifact)
  BY <1>0, RowsKeep
<1>3. \A l : Keep(t, l) => local'[t] = l
  BY <1>0 DEF Keep, TypeOK
<1>4. \A u \in Threads : local'[u].view = 0
  BY <1>0, <1>1, ViewStep DEF RowsInv
<1>5. \A u \in Threads : pc'[u] = "approve" => row'.snapshot
  BY <1>0, <1>1, <1>2, WhoGetsThere DEF RowsInv, BeginApprove
<1>6. row'.approvals # {} => row'.snapshot
  <2>1. CASE RecordApproval(t)
    BY <1>2, <2>1 DEF RecordApproval, At, RowsInv
  <2>2. CASE ~RecordApproval(t)
    BY <1>0, <1>2, <2>2, WhoApproves DEF RowsInv
  <2> QED BY <2>1, <2>2
<1>7. CASE Move(t)
  <2>1. pc'[t] = "follow" /\ local'[t].mem = Target[pc[t]] /\ status' = Target[pc[t]]
    BY <1>0, <1>3, <1>7 DEF Move, Goto, LocalType, TypeOK
  <2>2. Target[pc[t]] # "SIGNATURE_VERIFIED"
    BY <1>7 DEF Move, Target
  <2>5. \A u \in Threads : pc'[u] = "follow" => local'[u].mem # "RECEIVED"
    BY <1>1, <1>7, <2>1 DEF RowsInv, Move, Target
  <2>3. Target[pc[t]] \in Generates => row'.artifact
    BY <1>0, <1>2, <1>7, StatusGenerates
  <2>4. \A u \in Threads :
          pc'[u] = "generated" \/ local'[u].mem \in Generates => row'.artifact
    BY <1>1, <1>2, <2>1, <2>3 DEF RowsInv
  <2> QED BY <1>4, <1>5, <1>6, <2>1, <2>2, <2>3, <2>4, <2>5 DEF RowsInv
<1>8. CASE ~Move(t)
  <2>1. status' \in {status, "VALIDATION_FAILED"}
    BY <1>8, WhoMoves DEF FailValidation
  <2>2. local'[t].mem \in {local[t].mem, None, status}
    BY <1>0, <1>8, WhoSees DEF Forgets
  <2>3. None \notin Generates
    BY ThreadsAssumption DEF Generates, Status, Allowed
  <2>4. pc'[t] = "generated" => row'.artifact
    <3>1. CASE pc'[t] = "generated"
      <4>1. Generate(t) /\ ~Leave(t)
        BY <1>0, <3>1, WhoGetsThere DEF Leave, Goto, Over, TypeOK
      <4> QED BY <1>0, <4>1 DEF Generate, TypeOK, RowType
    <3> QED BY <3>1
  <2>5. \A u \in Threads :
          pc'[u] = "generated" \/ local'[u].mem \in Generates => row'.artifact
    BY <1>1, <1>2, <2>2, <2>3, <2>4 DEF RowsInv
  <2>6. \A u \in Threads : pc'[u] = "follow" => local'[u].mem # "RECEIVED"
    BY <1>0, <1>1, <1>8, WhoGetsThere DEF RowsInv
  <2> QED BY <1>2, <1>4, <1>5, <1>6, <2>1, <2>5, <2>6 DEF RowsInv, Generates
<1> QED BY <1>7, <1>8

(* What a thread would generate from the sound lab does not raise.         *)
LEMMA SoundPatch ==
  ASSUME SoundLab, RowsInv, NEW t \in Threads, lab = 0
  PROVE  Readable /\ Generated(t) \notin Unpatchable /\ Generated(t) # None
<1>1. 0 \in Lab
  BY BoundsAssumption DEF Lab
<1>2. Generated(t) = [findings |-> 0, files |-> 0]
  BY DEF Generated, RowsInv
<1>3. Generated(t) \in Patches
  BY <1>1, <1>2 DEF Patches
<1> QED BY <1>2, <1>3, ThreadsAssumption DEF SoundLab, Readable

(* A thread that has generated a patch carries it,                         *)
LEMMA GenerateCarries ==
  ASSUME TypeOK, SoundLab, RowsInv, NEW t \in Threads, ThreadStep(t), lab = 0,
         ~row.artifact, row'.artifact
  PROVE  Carrier(t)'
<1>0. row \in RowType /\ local[t] \in LocalType
  BY DEF TypeOK
<1>1. CASE Generate(t)
  <2>1. Generated(t) # None /\ [local[t] EXCEPT !.patch = Generated(t)].patch = Generated(t)
    BY <1>0, SoundPatch DEF LocalType
  <2> QED BY <1>1, <2>1 DEF Generate, Goto, Keep, TypeOK, Carrier
<1>2. CASE ~Generate(t)
  <2>1. CASE Drive(t)
    BY <1>0, <1>2, <2>1
    DEF Drive, Move, FailValidation, Follow, Start, ResolveContext, LabRaises, RunRules,
        FindIncident, InsertIncident, AttachIncident, MakePlan, Rebuild, Validate, Publish,
        OpenPullRequest, RecordPullRequest, CallLands, WriteBack, RecordWriteback, RowType
  <2>2. CASE Operate(t) \/ Handle(t)
    BY <1>0, <2>2
    DEF Operate, BeginApprove, BeginReject, BeginCancel, BeginRetry, PatchIncident, Read,
        Handle, RecordApproval, RecordRejection, RowType
  <2>3. CASE Recover(t)
    BY <2>3 DEF Recover, Sweep, Claim, Release, Read
  <2> QED BY <2>1, <2>2, <2>3 DEF ThreadStep
<1> QED BY <1>1, <1>2

(* ... until it has validated it.                                          *)
LEMMA CarryStep ==
  ASSUME TypeOK, EdgeInv, NEW t \in Threads, ThreadStep(t), Carrier(t)
  PROVE  Carrier(t)' \/ row'.validation # "none"
<1>0. row \in RowType /\ local[t] \in LocalType
  BY DEF TypeOK
<1>1. /\ \A step : Goto(t, step) => pc'[t] = step
      /\ \A l : Keep(t, l) => local'[t] = l
  BY DEF Goto, Keep, TypeOK
<1>2. CASE Move(t)
  <2>1. pc'[t] = "follow" /\ local'[t].mem = Target[pc[t]] /\ local'[t].patch = local[t].patch
    BY <1>0, <1>1, <1>2 DEF Move, LocalType
  <2>2. pc[t] \in {"generated", "validating"}
    BY <1>2 DEF Move, Target, Carrier
  <2>3. Target[pc[t]] \in {"PATCH_GENERATED", "VALIDATION_RUNNING"}
    BY <2>2 DEF Target
  <2> QED BY <2>1, <2>3 DEF Carrier
<1>3. CASE Follow(t)
  <2>1. local[t].mem \in {"PATCH_GENERATED", "VALIDATION_RUNNING"}
    BY <1>3 DEF Follow, At, Carrier
  <2>2. AfterMove(t, local[t].mem, local[t].view) \in {"validating", "validate"}
    BY <2>1 DEF AfterMove
  <2>3. pc'[t] \in {"validating", "validate"} /\ UNCHANGED local
    BY <1>1, <1>3, <2>2 DEF Follow, Over
  <2> QED BY <2>3 DEF Carrier
<1>4. CASE Validate(t)
  BY <1>0, <1>4 DEF Validate, Carrier, RowType
<1>5. CASE ~Move(t) /\ ~Follow(t) /\ ~Validate(t)
  <2>1. pc[t] \in {"generated", "validating", "validate", "follow"}
    BY DEF Carrier
  <2> QED BY <1>5, <2>1
    DEF ThreadStep, Drive, Start, FailValidation, ResolveContext, RunRules, FindIncident,
        InsertIncident, AttachIncident, MakePlan, Rebuild, Generate, Publish,
        OpenPullRequest, RecordPullRequest, CallLands, WriteBack, RecordWriteback, At,
        Operate, BeginApprove, BeginReject, BeginCancel, BeginRetry, PatchIncident, Read,
        Handle, RecordApproval, RecordRejection, Recover, Sweep, Claim, Release
<1> QED BY <1>2, <1>3, <1>4, <1>5

(* Where a driver that has the run may leave it.                           *)
Given ==
  \/ status = "REMEDIATION_PLANNING" /\ (row.plan # None \/ lab \notin Contradicted)
  \/ status = "VALIDATION_RUNNING"

(* A thread that has moved an unfinished run goes on with it: every status *)
(* that a sweep would select has a branch behind the transition to it.     *)
LEMMA FollowOwns ==
  ASSUME TypeInv, AskedInv, RowsInv, NEW t \in Threads, Follow(t), Owner(t),
         status \in Resumable
  PROVE  Owner(t)'
<1> DEFINE next == AfterMove(t, local[t].mem, local[t].view)
<1>0. TypeOK /\ row \in RowType /\ Creator \notin Requests
  BY ThreadsAssumption DEF TypeInv, TypeOK
<1>1. /\ \A step : Goto(t, step) => pc'[t] = step
      /\ \A l : Keep(t, l) => local'[t] = l
  BY <1>0 DEF Goto, Keep, TypeOK
<1>2. pc[t] = "follow" /\ local[t].mem = status /\ status \notin {"SIGNATURE_VERIFIED", "RECEIVED"}
  BY DEF Follow, At, Owner, RowsInv
<1>3. next \notin {"idle", "done", "claim", "release", "rebuild"}
  BY <1>2 DEF AfterMove, Resumable, AfterApproval
<1>4. CASE next = "queued"
  <2>1. status = "APPROVED"
    BY <1>2, <1>4 DEF AfterMove, Over
  <2>2. t # Creator
    BY <1>0, <1>2, <2>1 DEF AskedInv, Asked, RowType
  <2>3. pc'[t] = "queued" /\ UNCHANGED status
    BY <1>1, <1>4 DEF Follow, Over
  <2> QED BY <2>1, <2>2, <2>3 DEF Owner
<1>5. CASE next # "queued"
  <2>1. pc'[t] = next /\ UNCHANGED <<status, local>>
    BY <1>1, <1>3, <1>5 DEF Follow, Over
  <2> QED BY <1>2, <1>3, <1>5, <2>1 DEF Owner
<1> QED BY <1>4, <1>5

(* The thread that has the run goes on with it, or leaves it where Given   *)
(* says, as long as nothing raises that may not.                           *)
LEMMA OwnStep ==
  ASSUME TypeInv, EdgeInv, GateInv, AskedInv, RowsInv, SoundLab, lab = 0, lab' = 0, ~Fault,
         NEW t \in Threads, ThreadStep(t), Owner(t), status \in Resumable,
         status' \in Resumable, ~Move(t)
  PROVE  Owner(t)' \/ Given'
<1>0. /\ TypeOK /\ row \in RowType /\ local[t] \in LocalType
      /\ Fits(pc[t], local[t].mem) /\ Readable /\ Generated(t) \notin Unpatchable
  BY SoundPatch DEF TypeInv, TypeOK, EdgeInv
<1>1. /\ \A step : Goto(t, step) => pc'[t] = step
      /\ \A l : Keep(t, l) => local'[t] = l
  BY <1>0 DEF Goto, Keep, TypeOK
<1>2. UNCHANGED status
  <2>1. "VALIDATION_FAILED" \notin Resumable
    BY DEF Resumable, AfterApproval
  <2> QED BY <2>1, WhoMoves DEF FailValidation
<1> DEFINE On == {"idle", "done", "queued", "claim", "release", "rebuild"}
<1>3. pc'[t] \notin On /\ local'[t].mem = local[t].mem /\ local[t].mem = status => Owner(t)'
  BY <1>2 DEF Owner
<1>4. CASE Start(t)
  <2>1. [Load EXCEPT !.live = local[t].live].mem = status
    <3>1. Load \in LocalType /\ Load.mem = status
      BY <1>0, SessionTypes DEF Load, Closed
    <3> QED BY <3>1 DEF LocalType
  <2>2. local'[t].mem = status /\ pc[t] = "queued"
    BY <1>1, <1>4, <2>1 DEF Start, At
  <2>3. CASE t = Creator
    <3>1. pc'[t] = "normalize"
      BY <1>1, <1>4, <2>2, <2>3 DEF Start, Owner, ToApproval
    <3> QED BY <1>2, <2>2, <3>1 DEF Owner
  <2>4. CASE t # Creator
    <3>1. pc'[t] = "rebuild" /\ status = "APPROVED"
      BY <1>1, <1>4, <2>2, <2>4 DEF Start, Owner
    <3> QED BY <1>2, <2>2, <3>1 DEF Owner
  <2> QED BY <2>3, <2>4
<1>5. CASE Follow(t)
  BY <1>5, FollowOwns
<1>6. CASE FailValidation(t)
  BY <1>6 DEF FailValidation, Resumable, AfterApproval
<1> DEFINE Mine == local[t].mem = status
<1>7. CASE ResolveContext(t) \/ RunRules(t) \/ FindIncident(t) \/ InsertIncident(t)
             \/ AttachIncident(t)
  <2>1. Mine
    BY <1>7 DEF Owner, ResolveContext, RunRules, FindIncident, InsertIncident,
       AttachIncident, At
  <2>2. [local[t] EXCEPT !.view = lab].mem = local[t].mem
    BY <1>0 DEF LocalType
  <2> QED BY <1>0, <1>1, <1>3, <1>7, <2>1, <2>2
    DEF ResolveContext, RunRules, LabRaises, FindIncident, InsertIncident, AttachIncident
<1>8. CASE MakePlan(t)
  <2>1. Mine /\ status = "REMEDIATION_PLANNING"
    BY <1>0, <1>8 DEF Owner, MakePlan, At, Fits
  <2>2. CASE row.plan = None /\ lab \in Contradicted
    BY <1>0, <1>1, <1>3, <1>8, <2>1, <2>2 DEF MakePlan, LabRaises
  <2>3. CASE row.plan # None \/ lab \notin Contradicted
    <3>1. row'.plan # None \/ lab' \notin Contradicted
      BY <1>0, <2>3, RowsKeep
    <3> QED BY <1>2, <2>1, <3>1 DEF Given
  <2> QED BY <2>2, <2>3
<1>9. CASE Rebuild(t)
  <2>1. Mine /\ status = "APPROVED"
    BY <1>9 DEF Owner, Rebuild, At
  <2>2. row.snapshot
    BY <1>9 DEF Rebuild, At, GateInv, Begun, GrantedSteps, RowsInv
  <2>3. AfterRebuild(t, local[t].mem) = "generating"
    BY <2>1 DEF AfterRebuild
  <2>4. [local[t] EXCEPT !.view = lab].mem = local[t].mem
    BY <1>0 DEF LocalType
  <2> QED BY <1>0, <1>1, <1>3, <1>9, <2>1, <2>2, <2>3, <2>4 DEF Rebuild, LabRaises
<1>10. CASE Generate(t) \/ Publish(t)
  <2>1. Mine
    BY <1>10 DEF Owner, Generate, Publish, At
  <2>2. /\ [local[t] EXCEPT !.patch = Generated(t)].mem = local[t].mem
        /\ [local[t] EXCEPT !.passed = (row.validation = "passed")].mem = local[t].mem
    BY <1>0 DEF LocalType
  <2> QED BY <1>0, <1>1, <1>3, <1>10, <2>1, <2>2 DEF Generate, Publish
<1>11. CASE Validate(t)
  <2>1. status = "VALIDATION_RUNNING"
    BY <1>0, <1>11 DEF Owner, Validate, At, Fits
  <2> QED BY <1>2, <2>1 DEF Given
<1>12. CASE OpenPullRequest(t) \/ RecordPullRequest(t) \/ WriteBack(t) \/ RecordWriteback(t)
  <2>1. Mine
    BY <1>12
    DEF Owner, OpenPullRequest, RecordPullRequest, WriteBack, RecordWriteback, At
  <2>2. \A result : [local[t] EXCEPT !.result = result].mem = local[t].mem
    BY <1>0 DEF LocalType
  <2> QED BY <1>1, <1>3, <1>12, <2>1, <2>2
    DEF OpenPullRequest, RecordPullRequest, WriteBack, RecordWriteback
<1>13. CASE CallLands(t)
  BY <1>13 DEF CallLands, Owner
<1>14. CASE Handle(t)
  <2>1. Mine
    BY <1>14 DEF Owner, Handle, RecordApproval, RecordRejection, At
  <2>2. [local[t] EXCEPT !.live = PrLive(t)].mem = local[t].mem
    BY <1>0 DEF LocalType
  <2> QED BY <1>1, <1>3, <1>14, <2>1, <2>2 DEF Handle, RecordApproval, RecordRejection
<1>15. ~Operate(t) /\ ~Recover(t)
  BY DEF Operate, BeginApprove, BeginReject, BeginCancel, BeginRetry, PatchIncident, Read,
     Recover, Sweep, Claim, Release, At, Owner
<1> QED
  BY <1>4, <1>5, <1>6, <1>7, <1>8, <1>9, <1>10, <1>11, <1>12, <1>13, <1>14, <1>15
  DEF ThreadStep, Drive

(* In calm nothing has failed and nobody has died.                         *)
LEMMA CalmStep ==
  ASSUME TypeOK, [Next]_vars, Calm'
  PROVE  Calm /\ ~Fault /\ \A victims, resting : ~Crash(victims, resting)
<1>0. /\ spent \in [crashes : 0 .. MaxCrashes, faults : 0 .. MaxFaults]
      /\ MaxCrashes \in Nat /\ MaxFaults \in Nat
  BY BoundsAssumption DEF TypeOK
<1>1. ~Fault /\ \A victims, resting : ~Crash(victims, resting)
  <2>1. /\ [spent EXCEPT !.faults = @ + 1].faults # 0
        /\ [spent EXCEPT !.crashes = @ + 1].crashes # 0
    BY <1>0
  <2> QED BY <2>1 DEF Fault, Crash, Calm
<1>2. ASSUME NEW t \in Threads, Drive(t) PROVE UNCHANGED spent
  <2>1. CASE UNCHANGED spent
    BY <2>1
  <2>2. CASE Fault
    BY <1>1, <2>2
  <2> QED BY <1>2, <2>1, <2>2
    DEF Drive, Move, FailValidation, Follow, Start, ResolveContext, RunRules, LabRaises,
        FindIncident, InsertIncident, AttachIncident, MakePlan, Rebuild, Generate, Validate,
        Publish, OpenPullRequest, RecordPullRequest, CallLands, WriteBack, RecordWriteback
<1>3. ASSUME NEW t \in Threads, ThreadStep(t) PROVE UNCHANGED spent
  BY <1>2, <1>3
  DEF ThreadStep, Operate, BeginApprove, BeginReject, BeginCancel, BeginRetry, PatchIncident,
      Read, Handle, RecordApproval, RecordRejection, Recover, Sweep, Claim, Release
<1>4. ASSUME LeaseExpires \/ LabChanges \/ UNCHANGED vars PROVE UNCHANGED spent
  BY <1>4 DEF LeaseExpires, LabChanges, vars
<1>5. UNCHANGED spent
  BY <1>1, <1>3, <1>4, NextCases
<1> QED BY <1>1, <1>5 DEF Calm

(* A thread's step in calm keeps the run owned.                            *)
LEMMA StepOwned ==
  ASSUME TypeInv, EdgeInv, GateInv, AskedInv, RowsInv, OwnedInv, SoundLab,
         lab = 0, lab' = 0, ~Fault, NEW t \in Threads, ThreadStep(t)
  PROVE  OwnedInv'
<1>0. TypeOK
  BY DEF TypeInv
<1>1. \A u \in Threads \ {t} : pc'[u] = pc[u] /\ local'[u] = local[u]
  BY <1>0, OthersRest DEF ThreadStep
<1>2. row'.artifact => row'.validation # "none" \/ \E u \in Threads : Carrier(u)'
  <2>1. CASE ~row.artifact
    BY <1>0, <2>1, GenerateCarries
  <2>2. CASE row.validation # "none"
    BY <1>0, <2>2, RowsKeep
  <2>3. ASSUME NEW u \in Threads, Carrier(u)
        PROVE  Carrier(u)' \/ row'.validation # "none"
    <3>1. CASE u = t
      BY <1>0, <2>3, <3>1, CarryStep
    <3>2. CASE u # t
      BY <1>1, <2>3, <3>2 DEF Carrier
    <3> QED BY <3>1, <3>2
  <2> QED BY <2>1, <2>2, <2>3 DEF OwnedInv
<1>3. status' \in Resumable => Given' \/ \E u \in Threads : Owner(u)'
  <2> SUFFICES ASSUME status' \in Resumable PROVE Given' \/ \E u \in Threads : Owner(u)'
    OBVIOUS
  <2>1. CASE Move(t)
    <3>1. pc'[t] = "follow" /\ local'[t].mem = status'
      <4> DEFINE clears == Target[pc[t]] \in Terminal /\ local[t].held
                 l == [local[t] EXCEPT !.mem = Target[pc[t]], !.held = @ /\ ~clears]
      <4>1. l.mem = Target[pc[t]]
        BY <1>0 DEF TypeOK, LocalType
      <4>2. local'[t] = l /\ pc'[t] = "follow" /\ status' = Target[pc[t]]
        BY <1>0, <2>1 DEF Move, Goto, Keep, TypeOK
      <4> QED BY <4>1, <4>2
    <3> QED BY <3>1 DEF Owner
  <2>2. CASE ~Move(t)
    <3>1. UNCHANGED status
      BY <2>2, WhoMoves DEF FailValidation, Resumable, AfterApproval
    <3>2. CASE Given
      BY <1>0, <3>1, <3>2, RowsKeep DEF Given
    <3>3. ASSUME NEW u \in Threads, Owner(u) PROVE Owner(u)' \/ Given'
      <4>1. CASE u = t
        BY <2>2, <3>1, <3>3, <4>1, OwnStep
      <4>2. CASE u # t
        BY <1>1, <3>1, <3>3, <4>2 DEF Owner
      <4> QED BY <4>1, <4>2
    <3> QED BY <3>1, <3>2, <3>3 DEF OwnedInv, Given
  <2> QED BY <2>1, <2>2
<1> QED BY <1>2, <1>3 DEF OwnedInv, Given

(* So does every step, as long as the lab stays sound and as it is.        *)
LEMMA StepPeace ==
  ASSUME SoundLab
  PROVE  SharedInv /\ PeaceInv /\ [Next]_vars /\ lab = 0 /\ lab' = 0 => PeaceInv'
<1> SUFFICES ASSUME SharedInv, PeaceInv, [Next]_vars, lab = 0, lab' = 0, Calm'
             PROVE  RowsInv' /\ OwnedInv'
  BY DEF PeaceInv
<1> USE DEF SharedInv
<1>1. /\ TypeOK /\ RowsInv /\ OwnedInv /\ ~Fault
      /\ \A victims, resting : ~Crash(victims, resting)
  BY CalmStep DEF TypeInv, PeaceInv
<1>2. ASSUME NEW t \in Threads, ThreadStep(t) PROVE RowsInv' /\ OwnedInv'
  BY <1>1, <1>2, StepRows, StepOwned
<1>3. CASE LeaseExpires \/ LabChanges \/ UNCHANGED vars
  <2>1. UNCHANGED <<status, row, pc, local, lab>>
    BY <1>3 DEF LeaseExpires, LabChanges, vars
  <2>2. RowsInv'
    BY <1>1, <2>1 DEF RowsInv
  <2>3. OwnedInv'
    BY <1>1, <2>1 DEF OwnedInv, Owner, Carrier
  <2> QED BY <2>2, <2>3
<1> QED BY <1>1, <1>2, <1>3, NextCases

(* A manual run whose lab stays as it is and sound, and that no crash and  *)
(* no failure of DataHub or git meets, comes to rest only where it is over *)
(* or waits for a person, or where a second thread took it over at the     *)
(* plan or at the validation: no other early return or exception of        *)
(* advance_to_approval and advance_after_approval leaves it behind,        *)
(* however many operators and workers share it.                            *)
THEOREM RestsSettledHolds ==
  ASSUME Triggers = {"RECEIVED"}, SoundLab
  PROVE  Spec /\ [](lab = 0) => []RestsSettled
<1>1. Init => SharedInv /\ PeaceInv
  BY InitTypes, InitEdge, InitGate, InitShip, InitAsked, InitPeace DEF SharedInv
<1>2. SharedInv /\ [Next]_vars => SharedInv'
  BY StepTypes, StepEdge, StepGate, StepShip, StepAsked DEF SharedInv
<1>3. SharedInv /\ PeaceInv => RestsSettled
  BY PeaceIsWorth DEF SharedInv, TypeInv
<1>4. SharedInv /\ PeaceInv /\ [Next]_vars /\ lab = 0 /\ (lab = 0)' => PeaceInv'
  BY StepPeace
<1> QED BY <1>1, <1>2, <1>3, <1>4, PTL DEF Spec
=============================================================================
