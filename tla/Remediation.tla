---------------------------- MODULE Remediation ----------------------------
(***************************************************************************)
(* What one run computes: findings from the lab and the DataHub snapshot,  *)
(* a plan from the findings and the model's answer, and, once approved, a  *)
(* patch in a copy of the lab, its validation and what is shipped.         *)
(*                                                                         *)
(* RunLifecycle has the threads and rows around these steps; here is their *)
(* data.  The lab may be edited between any two of them.                   *)
(***************************************************************************)
EXTENDS CommerceLab

CONSTANTS
  Labs,      \* the contents the lab checkout may have
  Contexts,  \* the snapshots DataHub may have given
  Answers,   \* what the model may answer
  NoAnswer,  \* ... or nothing that parses
  MaxEdits   \* how often the lab changes during the run

(* ProposedAction and RemediationPlan, as far as anything looks at them.   *)
(* What the model invents is no rule, template or command.                 *)
RegisteredCommands == {"pytest", "builders"}

Action ==
  [rule : Rules \cup {"invented"}, template : Templates \cup NonFileTemplates \cup {"invented"}]

Answer ==
  [actions : SUBSET Action, numbered : BOOLEAN,
   commands : SUBSET (RegisteredCommands \cup {"invented"})]

ASSUME RemediationAssumption ==
  /\ Labs \subseteq Lab /\ Labs # {}
  /\ Contexts \subseteq [authority : BOOLEAN, assets : [Rules -> Asset \cup {NoAsset}]]
  /\ Answers \subseteq Answer \cup {NoAnswer}
  /\ NoAnswer \in Answers /\ NoAnswer \notin Answer
  /\ MaxEdits \in Nat

VARIABLES
  lab,       \* the checkout
  context,   \* the persisted snapshot
  phase,     \* how far the run is
  change,    \* ctx.change: the product load_catalog returned last
  report,    \* what the rules said last
  plan,      \* the stored plan: source, actions
  copied,    \* the lab as the workspace was copied
  workspace, \* the workspace
  todo,      \* findings generate has not come to
  patch,     \* files, and the findings applied, skipped and rejected
  edits      \* edits of the lab so far

vars == <<lab, context, phase, change, report, plan, copied, workspace,
          todo, patch, edits>>

Phases ==
  {"start", "loaded", "context_failed", "completed", "planning", "replanning",
   "awaiting", "rejected", "approved", "reloaded", "patching", "workspace",
   "generated", "validated", "validation_failed", "shipped", "raised"}

Ended == {"context_failed", "completed", "rejected", "validation_failed",
          "shipped", "raised"}

NoReport == [r \in Rules |-> [status |-> "skipped", findings |-> {}]]

NoPlan == [source |-> "none", actions |-> {}]

NoPatch == [files |-> {}, applied |-> {}, skipped |-> {}, rejected |-> {}]

Init ==
  /\ lab \in Labs
  /\ context \in Contexts
  /\ phase = "start"
  /\ change = lab.catalog[First]
  /\ report = NoReport
  /\ plan = NoPlan
  /\ copied = lab /\ workspace = lab
  /\ todo = {}
  /\ patch = NoPatch
  /\ edits = 0

-----------------------------------------------------------------------------
(* Each half of the runner, and the planning step again, read the          *)
(* catalogue first and build the projections in a second call.             *)

LoadCatalog(from, to) ==
  /\ phase = from
  /\ change' = lab.catalog[First]
  /\ phase' = to
  /\ UNCHANGED <<lab, context, report, plan, copied, workspace, todo, patch, edits>>

(* CHECKS_RUNNING: without an authoritative asset nothing is checked, and  *)
(* without a finding the run is complete.                                  *)
RunChecks ==
  /\ phase = "loaded"
  /\ LET now == RunRules(context.assets, change, lab)
     IN IF ~context.authority
        THEN phase' = "context_failed" /\ UNCHANGED report
        ELSE /\ report' = now
             /\ phase' = IF FindingsOf(now) = {} THEN "completed" ELSE "planning"
  /\ UNCHANGED <<lab, context, change, plan, copied, workspace, todo, patch, edits>>

Codes(findings) == {f.rule : f \in findings}

(* RemediationPlan.model_validate_json *)
SchemaAccepts(answer) ==
  /\ answer # NoAnswer
  /\ answer.actions # {} /\ answer.numbered
  /\ \A a \in answer.actions : a.template \in Templates \cup NonFileTemplates
  /\ answer.commands # {} /\ answer.commands \subseteq RegisteredCommands

(* A mutant of Grounded: some action cites a finding. *)
SomeGrounded(answer, findings) == \E a \in answer.actions : a.rule \in Codes(findings)

(* grounded_in *)
Grounded(answer, findings) == \A a \in answer.actions : a.rule \in Codes(findings)

(* plan_remediation: the model's plan if it passes both guards, otherwise  *)
(* the deterministic one.                                                  *)
PlanFor(answer, findings) ==
  IF SchemaAccepts(answer) /\ Grounded(answer, findings)
  THEN [source |-> "model", actions |-> answer.actions]
  ELSE [source |-> "deterministic",
        actions |-> {[rule |-> f.rule, template |-> f.template] : f \in findings}]

(* The planning step runs the rules again; a plan without an action is     *)
(* refused by its own schema, which nothing catches.                       *)
MakePlan ==
  /\ phase = "replanning"
  /\ report' = RunRules(context.assets, change, lab)
  /\ \E answer \in Answers :
       IF FindingsOf(report') = {}
       THEN phase' = "raised" /\ UNCHANGED plan
       ELSE phase' = "awaiting" /\ plan' = PlanFor(answer, FindingsOf(report'))
  /\ UNCHANGED <<lab, context, change, copied, workspace, todo, patch, edits>>

Approve ==
  /\ phase = "awaiting"
  /\ phase' \in {"approved", "rejected"}
  /\ UNCHANGED <<lab, context, change, report, plan, copied, workspace, todo, patch, edits>>

(* _rebuild_context and run_rules of the remediation. *)
RunChecksAgain ==
  /\ phase = "reloaded"
  /\ report' = RunRules(context.assets, change, lab)
  /\ phase' = "patching"
  /\ UNCHANGED <<lab, context, change, plan, copied, workspace, todo, patch, edits>>

-----------------------------------------------------------------------------
(* generate                                                                *)

PrepareWorkspace ==
  /\ phase = "patching"
  /\ copied' = lab /\ workspace' = lab
  /\ todo' = FindingsOf(report)
  /\ phase' = "workspace"
  /\ UNCHANGED <<lab, context, change, report, plan, patch, edits>>

Skips(f) == f.template \in NonFileTemplates \/ ~f.fixable \/ f.target = NoFile

(* check_writable *)
Writable(target) == target \in Files \cup {"lost"}

(* The file after the finding's template. *)
Edited(f) == ApplyTemplate(f.template, f.target, workspace[f.target], change)

(* What generate does with a finding, and with the files of the patch. *)
Skip(f) ==
  /\ Skips(f)
  /\ patch' = [patch EXCEPT !.skipped = @ \cup {f}]
  /\ UNCHANGED <<workspace, phase>>

(* A mutant of Reject: the finding is dropped. *)
RejectsSilently(f) ==
  /\ ~Skips(f) /\ ~Writable(f.target)
  /\ UNCHANGED <<patch, workspace, phase>>

Reject(f) ==
  /\ ~Skips(f) /\ ~Writable(f.target)
  /\ patch' = [patch EXCEPT !.rejected = @ \cup {f}]
  /\ UNCHANGED <<workspace, phase>>

(* The file does not exist, or the template raises: neither exception is   *)
(* one that generate catches, and it leaves the runner.                    *)
Break(f) ==
  /\ ~Skips(f) /\ Writable(f.target)
  /\ f.target = "lost" \/ TemplateRaises(f.template, f.target, workspace[f.target])
  /\ phase' = "raised"
  /\ UNCHANGED <<patch, workspace>>

Applicable(f) ==
  /\ ~Skips(f) /\ f.target \in Files
  /\ ~TemplateRaises(f.template, f.target, workspace[f.target])

(* "template produced no change" *)
LeaveAlone(f) ==
  /\ Applicable(f) /\ Edited(f) = workspace[f.target]
  /\ patch' = [patch EXCEPT !.skipped = @ \cup {f}]
  /\ UNCHANGED <<workspace, phase>>

(* A mutant of EditFile: the JSON file is edited and not listed. *)
ListsYamlOnly(f) ==
  /\ Applicable(f) /\ Edited(f) # workspace[f.target]
  /\ workspace' = [workspace EXCEPT ![f.target] = Edited(f)]
  /\ patch' = [patch EXCEPT !.files = @ \cup ({f.target} \ {"ai"}), !.applied = @ \cup {f}]
  /\ UNCHANGED phase

EditFile(f) ==
  /\ Applicable(f) /\ Edited(f) # workspace[f.target]
  /\ workspace' = [workspace EXCEPT ![f.target] = Edited(f)]
  /\ patch' = [patch EXCEPT !.files = @ \cup {f.target}, !.applied = @ \cup {f}]
  /\ UNCHANGED phase

(* One turn of the loop over the findings, in their order. *)
NextFinding ==
  /\ phase = "workspace"
  /\ \E f \in todo :
       /\ \A g \in todo : ~Before(g, f)
       /\ todo' = todo \ {f}
       /\ Skip(f) \/ Reject(f) \/ Break(f) \/ LeaveAlone(f) \/ EditFile(f)
  /\ UNCHANGED <<lab, context, change, report, plan, copied, edits>>

Generated ==
  /\ phase = "workspace" /\ todo = {}
  /\ phase' = "generated"
  /\ UNCHANGED <<lab, context, change, report, plan, copied, workspace, todo, patch, edits>>

-----------------------------------------------------------------------------
(* The parity suite of the lab, run in the workspace: the surfaces of the  *)
(* change agree with the catalogue that was copied with them.              *)
Agrees(l) ==
  LET p == l.catalog[First]
  IN /\ l.feeds[First] # Garbled
     /\ l.feeds[First] = Unlisted \/ FeedPrice(l, First) = p.price
     /\ l.bundles[First].committed <= Sellable(p)
     /\ l.promotions[First].active => l.promotions[First].basis = p.price
     /\ Offered(l, First) =>
          OfferPrice(l, First) = p.price /\ OfferAvailable(l, First) = Sellable(p)
     /\ l.policies[First] \in {p.window, Unlisted}

(* run_validation with its one command: passed or failed is the suite's    *)
(* verdict, timed_out and error are the environment's, and only passed     *)
(* lets the run go on.                                                     *)
StepStatus(w) ==
  (IF Agrees(w) THEN {"passed"} ELSE {"failed"}) \cup {"timed_out", "error"}

(* A mutant of Validate: only a failed test blocks. *)
BlocksFailedOnly ==
  /\ phase = "generated"
  /\ \E step \in StepStatus(workspace) :
       phase' = IF step = "failed" THEN "validation_failed" ELSE "validated"
  /\ UNCHANGED <<lab, context, change, report, plan, copied, workspace, todo, patch, edits>>

Validate ==
  /\ phase = "generated"
  /\ \E step \in StepStatus(workspace) :
       phase' = IF step = "passed" THEN "validated" ELSE "validation_failed"
  /\ UNCHANGED <<lab, context, change, report, plan, copied, workspace, todo, patch, edits>>

(* The files of the patch are copied out of the workspace; an empty patch  *)
(* proposes nothing, and the run goes on without.                          *)
Ship ==
  /\ phase = "validated"
  /\ phase' = "shipped"
  /\ UNCHANGED <<lab, context, change, report, plan, copied, workspace, todo, patch, edits>>

(* Somebody merges, resets or edits the checkout. *)
LabChanges ==
  /\ phase \notin Ended /\ edits < MaxEdits
  /\ lab' \in Labs \ {lab}
  /\ edits' = edits + 1
  /\ UNCHANGED <<context, phase, change, report, plan, copied, workspace, todo, patch>>

Next ==
  \/ LoadCatalog("start", "loaded") \/ RunChecks
  \/ LoadCatalog("planning", "replanning") \/ MakePlan
  \/ Approve
  \/ LoadCatalog("approved", "reloaded") \/ RunChecksAgain
  \/ PrepareWorkspace \/ NextFinding \/ Generated
  \/ Validate \/ Ship
  \/ LabChanges

Spec == Init /\ [][Next]_vars

-----------------------------------------------------------------------------
(* Properties.                                                             *)

TypeOK ==
  /\ lab \in Lab
  /\ context \in Contexts
  /\ phase \in Phases
  /\ change \in Product
  /\ \A r \in Rules : report[r].findings \subseteq Finding
  /\ plan.source \in {"none", "model", "deterministic"}
  /\ plan.actions \subseteq Action
  /\ copied \in Lab /\ workspace \in Lab
  /\ todo \subseteq Finding
  /\ patch.files \subseteq Files
  /\ \A k \in {"applied", "skipped", "rejected"} : patch[k] \subseteq Finding
  /\ edits \in 0 .. MaxEdits

(* planner.py: whatever the model answers, a plan that waits for approval  *)
(* has actions, each cites a finding of that run and names a registered    *)
(* template.                                                               *)
PlanIsGrounded ==
  phase = "awaiting" =>
    /\ plan.actions # {}
    /\ \A a \in plan.actions :
         /\ a.rule \in Codes(FindingsOf(report))
         /\ a.template \in Templates \cup NonFileTemplates

(* The catalogue as the run has it, with the files of the workspace. *)
WithChange == [workspace EXCEPT !.catalog[First] = change]

InWorkspace == {"workspace", "generated", "validated", "shipped", "validation_failed"}

(* The patch settles what it was made for: no rule finds anything any more *)
(* about the SKU on a surface whose file was patched for it, and applying  *)
(* the template again changes nothing.  This also holds when the lab was   *)
(* edited between the checks and the copy.                                 *)
PatchConverges ==
  phase \in InWorkspace =>
    \A f \in patch.applied :
      /\ ApplyTemplate(f.template, f.target, workspace[f.target], change)
           = workspace[f.target]
      /\ f.sku = First =>
           \A g \in Check(f.rule, context.assets[f.rule], change, WithChange) :
             g.fixable => g.sku # First

(* A template is a narrow edit: entries of other SKUs, inactive            *)
(* promotions, unpinned offers, how many units make a bundle, and the      *)
(* catalogue stay as they were copied.                                     *)
NarrowEdits ==
  /\ workspace.catalog = copied.catalog
  /\ \A f \in Files, s \in Skus \ {First} : workspace[f][s] = copied[f][s]
  /\ ~copied.promotions[First].active =>
       workspace.promotions[First] = copied.promotions[First]
  /\ copied.ai[First].price = Follow => workspace.ai[First].price = Follow
  /\ copied.ai[First].available = Follow => workspace.ai[First].available = Follow
  /\ workspace.bundles[First].per = copied.bundles[First].per
  /\ workspace.bundles[First].committed <= copied.bundles[First].committed

(* What a merge of the shipped files into the lab they were copied from    *)
(* gives.                                                                  *)
Shipped ==
  [f \in DOMAIN copied |-> IF f \in patch.files THEN workspace[f] ELSE copied[f]]

(* pr.py: what is pushed is exactly what was validated.  The patch lists   *)
(* every file the workspace differs in, so merging it gives the lab that   *)
(* the suite accepted.                                                     *)
ShipsWhatPassed ==
  phase \in {"validated", "shipped"} => Shipped = workspace /\ Agrees(Shipped)

(* Every finding of the remediation is accounted for once: patched,        *)
(* skipped or rejected.  The pull request's body shows what was skipped    *)
(* and why; what was rejected is only in the stored artifact.              *)
EveryFindingAccounted ==
  /\ phase \in InWorkspace =>
       todo \cup patch.applied \cup patch.skipped \cup patch.rejected = FindingsOf(report)
  /\ patch.applied \cap (patch.skipped \cup patch.rejected) = {}
  /\ patch.skipped \cap patch.rejected = {}
=============================================================================
