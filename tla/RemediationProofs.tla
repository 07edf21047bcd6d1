-------------------------- MODULE RemediationProofs --------------------------
(***************************************************************************)
(* Proofs about Remediation, for any catalogue, prices and stock, any      *)
(* labs, snapshots and answers of the model, and any edits of the lab.     *)
(***************************************************************************)
EXTENDS Remediation, TLAPS

-----------------------------------------------------------------------------
(* Rules and templates.                                                    *)

TemplateOf ==
  [price_parity |-> "set_feed_price", inventory_safety |-> "cap_bundle_commitment",
   promotion_integrity |-> "rebase_promotion",
   ai_commerce_freshness |-> "refresh_ai_manifest", policy_consistency |-> "align_policy"]

Status == {"passed", "failed", "skipped", "error"}

(* What a rule may find.                                                   *)
Known ==
  {f \in Finding : \/ f.template = TemplateOf[f.rule]
                   \/ f.template = "assign_owner" /\ ~f.fixable}

(* The names, spelled out.                                                 *)
LEMMA Names ==
  /\ Templates = {"set_feed_price", "cap_bundle_commitment", "rebase_promotion",
                  "refresh_ai_manifest", "align_policy"}
  /\ Severity = {"informational", "low", "medium", "high", "critical"}
  /\ \A r \in Rules : TemplateOf[r] \in Templates
BY DEF Templates, Kind, Severity, Rank, TemplateOf, Rules

(* A severity is one.                                                      *)
LEMMA GradeType ==
  ASSUME NEW asset \in Asset, NEW floor \in {"critical", "high", "medium"}
  PROVE  Grade(asset, floor) \in Severity
BY Names DEF Grade, Asset

(* A contradiction names the rule and its template.                        *)
LEMMA ContradictionKnown ==
  ASSUME NEW asset \in Asset, NEW r \in Rules, NEW s \in Skus, NEW severity \in Severity
  PROVE  /\ Contradiction(r, s, severity, TemplateOf[r], asset) \in Known
         /\ Contradiction(r, s, severity, TemplateOf[r], asset).rule = r
<1>0. asset.file \in Files \cup {NoFile, "catalog", "lost"}
  BY DEF Asset
<1>1. TemplateOf[r] \in Templates /\ asset.file \in Files \cup {NoFile, "catalog", "lost"}
  BY <1>0, Names
<1>2. Contradiction(r, s, severity, TemplateOf[r], asset) \in Finding
  BY <1>1 DEF Contradiction, Finding
<1> QED BY <1>2 DEF Contradiction, Known

(* A rule finds only what it may.                                          *)
LEMMA CheckKnown ==
  ASSUME NEW asset \in Asset, NEW p, NEW l, NEW r \in Rules
  PROVE  Check(r, asset, p, l) \subseteq Known /\ \A f \in Check(r, asset, p, l) : f.rule = r
<1>0. First \in Skus
  BY LabAssumption
<1>1. CASE r = "price_parity"
  <2>1. Contradiction(r, First, Grade(asset, "high"), TemplateOf[r], asset) \in Known
       /\ Contradiction(r, First, Grade(asset, "high"), TemplateOf[r], asset).rule = r
    BY <1>0, ContradictionKnown, GradeType
  <2>2. Check(r, asset, p, l) \subseteq {Contradiction(r, First, Grade(asset, "high"), TemplateOf[r], asset)}
    BY <1>1 DEF Check, PriceParity, TemplateOf
  <2> QED BY <2>1, <2>2
<1>2. CASE r = "inventory_safety"
  <2>1. \A s \in Skus :
          /\ Contradiction(r, s, Grade(asset, "critical"), TemplateOf[r], asset) \in Known
          /\ Contradiction(r, s, Grade(asset, "critical"), TemplateOf[r], asset).rule = r
    BY ContradictionKnown, GradeType
  <2>2. Check(r, asset, p, l) \subseteq
          {Contradiction(r, s, Grade(asset, "critical"), TemplateOf[r], asset) : s \in Skus}
    BY <1>2 DEF Check, InventorySafety, TemplateOf
  <2> QED BY <2>1, <2>2
<1>3. CASE r = "promotion_integrity"
  <2>1. Contradiction(r, First, Grade(asset, "high"), TemplateOf[r], asset) \in Known
       /\ Contradiction(r, First, Grade(asset, "high"), TemplateOf[r], asset).rule = r
    BY <1>0, ContradictionKnown, GradeType
  <2>2. Check(r, asset, p, l) \subseteq {Contradiction(r, First, Grade(asset, "high"), TemplateOf[r], asset)}
    BY <1>3 DEF Check, PromotionIntegrity, TemplateOf
  <2> QED BY <2>1, <2>2
<1>4. CASE r = "ai_commerce_freshness"
  <2> DEFINE unowned == [rule |-> r, sku |-> First, severity |-> "medium",
                         template |-> "assign_owner", fixable |-> FALSE, target |-> NoFile]
  <2>1. Contradiction(r, First, Grade(asset, "high"), TemplateOf[r], asset) \in Known
       /\ Contradiction(r, First, Grade(asset, "high"), TemplateOf[r], asset).rule = r
    BY <1>0, ContradictionKnown, GradeType
  <2>2. unowned \in Known
    <3>1. unowned \in [rule : Rules, sku : Skus, severity : Severity,
                       template : Templates \cup NonFileTemplates, fixable : BOOLEAN, target : Files \cup {NoFile, "catalog", "lost"}]
      BY <1>0, <1>4, Names DEF NonFileTemplates
    <3> QED BY <3>1 DEF Known, Finding
  <2>3. Check(r, asset, p, l) \subseteq
          {Contradiction(r, First, Grade(asset, "high"), TemplateOf[r], asset), unowned}
    BY <1>4 DEF Check, AiCommerceFreshness, TemplateOf
  <2>4. unowned.rule = r
    OBVIOUS
  <2> HIDE DEF unowned
  <2> QED BY <2>1, <2>2, <2>3, <2>4
<1>5. CASE r = "policy_consistency"
  <2>1. Contradiction(r, First, Grade(asset, "medium"), TemplateOf[r], asset) \in Known
       /\ Contradiction(r, First, Grade(asset, "medium"), TemplateOf[r], asset).rule = r
    BY <1>0, ContradictionKnown, GradeType
  <2>2. Check(r, asset, p, l) \subseteq {Contradiction(r, First, Grade(asset, "medium"), TemplateOf[r], asset)}
    BY <1>5 DEF Check, PolicyConsistency, TemplateOf
  <2> QED BY <2>1, <2>2
<1> QED BY <1>1, <1>2, <1>3, <1>4, <1>5 DEF Rules

(* A report holds known findings, each under its rule.                     *)
Reports ==
  [Rules -> [status : Status, findings : SUBSET Known]]

(* The engine reports known findings, each of the rule that found it.      *)
LEMMA RunRulesType ==
  ASSUME NEW assets \in [Rules -> Asset \cup {NoAsset}], NEW p, NEW l
  PROVE  /\ RunRules(assets, p, l) \in Reports
         /\ \A r \in Rules : \A f \in RunRules(assets, p, l)[r].findings :
              /\ f.rule = r /\ f \in Check(r, assets[r], p, l) /\ assets[r] \in Asset
<1>1. ASSUME NEW r \in Rules
      PROVE  /\ Evaluate(r, assets[r], p, l) \in [status : Status, findings : SUBSET Known]
             /\ \A f \in Evaluate(r, assets[r], p, l).findings :
                  f.rule = r /\ f \in Check(r, assets[r], p, l) /\ assets[r] \in Asset
  <2>1. CASE assets[r] = NoAsset \/ Raises(r, l)
    <3>1. PICK status \in Status :
            Evaluate(r, assets[r], p, l) = [status |-> status, findings |-> {}]
      BY <2>1 DEF Evaluate, Status
    <3> QED BY <3>1
  <2>2. CASE ~(assets[r] = NoAsset \/ Raises(r, l))
    <3>1. assets[r] \in Asset
      BY <2>2
    <3>2. Check(r, assets[r], p, l) \subseteq Known /\ \A f \in Check(r, assets[r], p, l) : f.rule = r
      BY <3>1, CheckKnown
    <3>3. PICK status \in Status :
            Evaluate(r, assets[r], p, l) = [status |-> status, findings |-> Check(r, assets[r], p, l)]
      BY <2>2 DEF Evaluate, Status
    <3> QED BY <3>1, <3>2, <3>3
  <2> QED BY <2>1, <2>2
<1> QED BY <1>1 DEF RunRules, Reports

(* Its findings are known.                                                 *)
LEMMA FindingsKnown == ASSUME NEW rep \in Reports PROVE FindingsOf(rep) \subseteq Known
BY DEF FindingsOf, Reports

-----------------------------------------------------------------------------
(* What a template makes of a file.                                        *)

FeedFile      == [Skus -> Prices \cup {Follow, Unlisted, Garbled}]
BundleFile    == [Skus -> [committed : Nat, per : Nat]]
PromotionFile == [Skus -> [active : BOOLEAN, basis : Prices]]
Offer         == [price : Prices \cup {Follow, Unlisted}, available : Nat \cup {Follow}]
AiFile        == [Skus -> Offer]
PolicyFile    == [Skus -> Windows \cup {Unlisted}]

(* What can be sold is never negative.                                     *)
LEMMA SellableType == ASSUME NEW p \in Product PROVE Sellable(p) \in Nat
<1>1. p.inventory \in Nat /\ p.reserved \in Nat /\ p.safety \in Nat
  BY DEF Product
<1> QED BY <1>1 DEF Sellable

(* Of so much stock, no more bundles can be made.                          *)
LEMMA Buildable ==
  ASSUME NEW a \in Nat, NEW n \in Nat, n # 0 PROVE a \div n \in Nat /\ a \div n <= a
<1>1. a \div n \in Int /\ a = n * (a \div n) + (a % n) /\ 0 <= a % n /\ a % n < n
  OBVIOUS
<1> QED BY <1>1

(* Each template keeps the type of its file, and what it must not touch.   *)
LEMMA FeedEdit ==
  ASSUME NEW file \in FeedFile, NEW p \in Product
  PROVE  /\ SetFeedPrice(file, p) \in FeedFile
         /\ \A s \in Skus \ {First} : SetFeedPrice(file, p)[s] = file[s]
         /\ SetFeedPrice(file, p)[First] \in {p.price, Unlisted}
<1>1. p.price \in Prices /\ First \in Skus
  BY LabAssumption DEF Product
<1> QED BY <1>1 DEF SetFeedPrice, FeedFile

(* A bundle is only made smaller, to what can be built.                    *)
LEMMA BundleEdit ==
  ASSUME NEW file \in BundleFile, NEW p \in Product, file[First].per # 0
  PROVE  LET new == CapBundleCommitment(file, p)
         IN /\ new \in BundleFile
            /\ \A s \in Skus \ {First} : new[s] = file[s]
            /\ new[First].per = file[First].per
            /\ new[First].committed <= file[First].committed
            /\ new[First].committed <= Sellable(p) \div file[First].per
<1> DEFINE buildable == Sellable(p) \div file[First].per
<1>1. First \in Skus /\ file[First].per \in Nat /\ file[First].committed \in Nat
  BY LabAssumption DEF BundleFile
<1>2. buildable \in Nat
  BY <1>1, SellableType, Buildable
<1> HIDE DEF buildable
<1>3. CapBundleCommitment(file, p) =
        IF file[First].committed > buildable THEN [file EXCEPT ![First].committed = buildable]
        ELSE file
  BY DEF CapBundleCommitment, buildable
<1>4. CASE file[First].committed > buildable
  <2>1. CapBundleCommitment(file, p) = [file EXCEPT ![First].committed = buildable]
    BY <1>3, <1>4
  <2>2. CapBundleCommitment(file, p)[First] = [committed |-> buildable, per |-> file[First].per]
    BY <1>1, <2>1 DEF BundleFile
  <2>3. \A s \in Skus \ {First} : CapBundleCommitment(file, p)[s] = file[s]
    BY <2>1 DEF BundleFile
  <2>4. CapBundleCommitment(file, p) \in BundleFile
    BY <1>1, <1>2, <2>1, <2>2, <2>3 DEF BundleFile
  <2> QED BY <1>1, <1>2, <1>4, <2>2, <2>3, <2>4 DEF buildable
<1>5. CASE ~(file[First].committed > buildable)
  BY <1>1, <1>2, <1>3, <1>5 DEF buildable
<1> QED BY <1>4, <1>5

(* An active promotion is rebased.                                         *)
LEMMA PromotionEdit ==
  ASSUME NEW file \in PromotionFile, NEW p \in Product
  PROVE  LET new == RebasePromotion(file, p)
         IN /\ new \in PromotionFile
            /\ \A s \in Skus \ {First} : new[s] = file[s]
            /\ ~file[First].active => new = file
            /\ new[First].active = file[First].active
            /\ new[First].active => new[First].basis = p.price
<1>1. First \in Skus /\ p.price \in Prices
  BY LabAssumption DEF Product
<1>2. CASE file[First].active
  <2>1. RebasePromotion(file, p) = [file EXCEPT ![First].basis = p.price]
    BY <1>2 DEF RebasePromotion
  <2>2. RebasePromotion(file, p)[First] = [active |-> file[First].active, basis |-> p.price]
    BY <1>1, <2>1 DEF PromotionFile
  <2>3. \A s \in Skus \ {First} : RebasePromotion(file, p)[s] = file[s]
    BY <2>1 DEF PromotionFile
  <2>4. RebasePromotion(file, p) \in PromotionFile
    BY <1>1, <2>1, <2>2, <2>3 DEF PromotionFile
  <2> QED BY <1>2, <2>2, <2>3, <2>4
<1>3. CASE ~file[First].active
  BY <1>3 DEF RebasePromotion
<1> QED BY <1>2, <1>3

(* Only pinned values are refreshed, and only of an offer that is there.   *)
AfterRefresh(new, old, p) ==
  /\ new.price = IF old.price \in {Follow, Unlisted} THEN old.price ELSE p.price
  /\ new.available = IF old.price = Unlisted \/ old.available = Follow
                     THEN old.available ELSE Sellable(p)

(* A refresh is one of the product's entry and stays a manifest.           *)
LEMMA AiEdit ==
  ASSUME NEW file \in AiFile, NEW p \in Product
  PROVE  LET new == RefreshAiManifest(file, p)
         IN /\ new \in AiFile
            /\ \A s \in Skus \ {First} : new[s] = file[s]
            /\ AfterRefresh(new[First], file[First], p)
<1>1. First \in Skus /\ p.price \in Prices /\ Sellable(p) \in Nat
  BY LabAssumption, SellableType DEF Product
<1> DEFINE entry == [price     |-> IF file[First].price = Follow THEN Follow ELSE p.price,
                     available |-> IF file[First].available = Follow THEN Follow ELSE Sellable(p)]
<1>2. entry \in Offer
  BY <1>1 DEF Offer
<1>3. entry.price = (IF file[First].price = Follow THEN Follow ELSE p.price)
      /\ entry.available = (IF file[First].available = Follow THEN Follow ELSE Sellable(p))
  OBVIOUS
<1>4. CASE file[First].price = Unlisted
  BY <1>4 DEF RefreshAiManifest, AfterRefresh
<1>5. CASE file[First].price # Unlisted
  <2>1. RefreshAiManifest(file, p) = [file EXCEPT ![First] = entry]
    BY <1>1, <1>5 DEF RefreshAiManifest, AiFile
  <2> HIDE DEF entry
  <2> QED BY <1>1, <1>2, <1>3, <1>5, <2>1 DEF AiFile, AfterRefresh
<1> QED BY <1>4, <1>5

(* The window is the product's where one is advertised.                    *)
LEMMA PolicyEdit ==
  ASSUME NEW file \in PolicyFile, NEW p \in Product
  PROVE  /\ AlignPolicy(file, p) \in PolicyFile
         /\ \A s \in Skus \ {First} : AlignPolicy(file, p)[s] = file[s]
         /\ AlignPolicy(file, p)[First] \in {p.window, Unlisted}
BY LabAssumption DEF AlignPolicy, PolicyFile, Product

-----------------------------------------------------------------------------
(* Types.                                                                  *)

LabTypeOK ==
  /\ lab \in Lab /\ copied \in Lab /\ workspace \in Lab
  /\ change \in Product /\ context \in Contexts

RunTypeOK ==
  /\ phase \in Phases
  /\ report \in Reports
  /\ plan \in [source : {"none", "model", "deterministic"}, actions : SUBSET Action]
  /\ todo \subseteq Known
  /\ patch \in [files : SUBSET Files, applied : SUBSET Known, skipped : SUBSET Known,
                rejected : SUBSET Known]
  /\ edits \in 0 .. MaxEdits

TypeInv == LabTypeOK /\ RunTypeOK

(* The parts give the type invariant.                                      *)
LEMMA TypeInvType == TypeInv => TypeOK
<1> SUFFICES ASSUME TypeInv PROVE TypeOK
  OBVIOUS
<1>1. Known \subseteq Finding
  BY DEF Known
<1>2. \A r \in Rules : report[r].findings \subseteq Finding
  BY <1>1 DEF TypeInv, RunTypeOK, Reports
<1>3. \A k \in {"applied", "skipped", "rejected"} : patch[k] \subseteq Finding
  BY <1>1 DEF TypeInv, RunTypeOK
<1> QED BY <1>1, <1>2, <1>3 DEF TypeInv, LabTypeOK, RunTypeOK, TypeOK

(* A run that has read nothing.                                            *)
LEMMA TypeInit == Init => TypeInv
<1> SUFFICES ASSUME Init PROVE TypeInv
  OBVIOUS
<1>1. lab \in Lab /\ First \in Skus
  BY RemediationAssumption, LabAssumption DEF Init
<1>2. LabTypeOK
  BY <1>1 DEF Init, LabTypeOK, Lab
<1>3. NoReport \in Reports
  BY DEF NoReport, Reports, Status
<1>4. RunTypeOK
  BY <1>3, RemediationAssumption DEF Init, RunTypeOK, Phases, NoPlan, NoPatch
<1> QED BY <1>2, <1>4 DEF TypeInv

(* The snapshot's assets.                                                  *)
LEMMA ContextType == ASSUME LabTypeOK PROVE context.assets \in [Rules -> Asset \cup {NoAsset}]
BY RemediationAssumption DEF LabTypeOK

(* A finding that is applied has the one template that knows its file.     *)
LEMMA AppliedKind ==
  ASSUME NEW f \in Known, ~Skips(f), f.target \in Files, NEW file, NEW p,
         ApplyTemplate(f.template, f.target, file, p) # file
  PROVE  /\ f.fixable /\ f.template = TemplateOf[f.rule] /\ f.template \in Templates
         /\ f.rule \in Rules /\ f.target = Kind[f.template]
<1>1. f.rule \in Rules /\ f.fixable
  BY DEF Known, Finding, Skips
<1>2. f.template = TemplateOf[f.rule]
  BY <1>1 DEF Known
<1> QED BY <1>1, <1>2, Names DEF ApplyTemplate

(* The file of a lab that a template edits, field by field.                *)
LEMMA LabFiles ==
  ASSUME NEW w \in Lab
  PROVE  /\ w.feeds \in FeedFile /\ w.bundles \in BundleFile /\ w.promotions \in PromotionFile
         /\ w.ai \in AiFile /\ w.policies \in PolicyFile
         /\ \A file \in FeedFile : [w EXCEPT !["feeds"] = file] \in Lab
         /\ \A file \in BundleFile : [w EXCEPT !["bundles"] = file] \in Lab
         /\ \A file \in PromotionFile : [w EXCEPT !["promotions"] = file] \in Lab
         /\ \A file \in AiFile : [w EXCEPT !["ai"] = file] \in Lab
         /\ \A file \in PolicyFile : [w EXCEPT !["policies"] = file] \in Lab
BY DEF Lab, FeedFile, BundleFile, PromotionFile, AiFile, Offer, PolicyFile

(* An edit leaves a lab.                                                   *)
LEMMA EditType ==
  ASSUME NEW w \in Lab, NEW p \in Product, NEW t \in Templates,
         ~TemplateRaises(t, Kind[t], w[Kind[t]])
  PROVE  [w EXCEPT ![Kind[t]] = ApplyTemplate(t, Kind[t], w[Kind[t]], p)] \in Lab
<1>1. CASE t = "set_feed_price"
  <2>1. Kind[t] = "feeds" /\ ApplyTemplate(t, Kind[t], w[Kind[t]], p) = SetFeedPrice(w.feeds, p)
    BY <1>1 DEF Kind, ApplyTemplate
  <2> QED BY <2>1, LabFiles, FeedEdit
<1>2. CASE t = "cap_bundle_commitment"
  <2>1. /\ Kind[t] = "bundles" /\ w.bundles[First].per # 0
        /\ ApplyTemplate(t, Kind[t], w[Kind[t]], p) = CapBundleCommitment(w.bundles, p)
    BY <1>2 DEF Kind, ApplyTemplate, TemplateRaises
  <2> QED BY <2>1, LabFiles, BundleEdit
<1>3. CASE t = "rebase_promotion"
  <2>1. Kind[t] = "promotions" /\ ApplyTemplate(t, Kind[t], w[Kind[t]], p) = RebasePromotion(w.promotions, p)
    BY <1>3 DEF Kind, ApplyTemplate
  <2> QED BY <2>1, LabFiles, PromotionEdit
<1>4. CASE t = "refresh_ai_manifest"
  <2>1. Kind[t] = "ai" /\ ApplyTemplate(t, Kind[t], w[Kind[t]], p) = RefreshAiManifest(w.ai, p)
    BY <1>4 DEF Kind, ApplyTemplate
  <2> QED BY <2>1, LabFiles, AiEdit
<1>5. CASE t = "align_policy"
  <2>1. Kind[t] = "policies" /\ ApplyTemplate(t, Kind[t], w[Kind[t]], p) = AlignPolicy(w.policies, p)
    BY <1>5 DEF Kind, ApplyTemplate
  <2> QED BY <2>1, LabFiles, PolicyEdit
<1> QED BY <1>1, <1>2, <1>3, <1>4, <1>5, Names

(* What one turn of the loop may do: nothing to the workspace, or an edit  *)
(* of one file by the finding's own template.                              *)
EditedBy(f) ==
  /\ f \in todo /\ f.fixable /\ f.rule \in Rules
  /\ f.template = TemplateOf[f.rule] /\ f.template \in Templates
  /\ f.target = Kind[f.template] /\ f.target \in Files
  /\ ~TemplateRaises(f.template, f.target, workspace[f.target])
  /\ workspace' = [workspace EXCEPT ![f.target] =
                     ApplyTemplate(f.template, f.target, workspace[f.target], change)]
  /\ patch' = [patch EXCEPT !.files = @ \cup {f.target}, !.applied = @ \cup {f}]

(* A turn of the loop is an edit, an entry in a list or an exception.      *)
LEMMA Turn ==
  ASSUME TypeInv, NextFinding
  PROVE  \E f \in todo :
           /\ todo' = todo \ {f}
           /\ \/ EditedBy(f) /\ phase' = phase
              \/ workspace' = workspace /\ patch' = patch /\ phase' = "raised"
              \/ workspace' = workspace /\ phase' = phase
                   /\ patch' = [patch EXCEPT !.skipped = @ \cup {f}]
              \/ workspace' = workspace /\ phase' = phase
                   /\ patch' = [patch EXCEPT !.rejected = @ \cup {f}]
<1>1. PICK f \in todo :
        todo' = todo \ {f} /\ (Skip(f) \/ Reject(f) \/ Break(f) \/ LeaveAlone(f) \/ EditFile(f))
  BY DEF NextFinding
<1>2. CASE EditFile(f)
  <2>1. f \in Known /\ ~Skips(f) /\ f.target \in Files
        /\ ApplyTemplate(f.template, f.target, workspace[f.target], change) # workspace[f.target]
    BY <1>2 DEF EditFile, Applicable, Edited, TypeInv, RunTypeOK
  <2>2. EditedBy(f) /\ phase' = phase
    BY <1>2, <2>1, AppliedKind DEF EditedBy, EditFile, Applicable, Edited
  <2> QED BY <1>1, <2>2
<1>3. CASE ~EditFile(f)
  BY <1>1, <1>3 DEF Skip, Reject, Break, LeaveAlone
<1> QED BY <1>2, <1>3

(* Every step keeps the types.                                             *)
LEMMA TypeStep == TypeInv /\ [Next]_vars => TypeInv'
<1> SUFFICES ASSUME TypeInv, [Next]_vars PROVE TypeInv'
  OBVIOUS
<1>0. LabTypeOK /\ RunTypeOK /\ First \in Skus
  BY LabAssumption DEF TypeInv
<1>1. ASSUME NEW from, NEW to \in Phases, LoadCatalog(from, to) PROVE TypeInv'
  <2>1. lab.catalog[First] \in Product
    BY <1>0 DEF LabTypeOK, Lab
  <2> QED BY <1>0, <1>1, <2>1 DEF LoadCatalog, TypeInv, LabTypeOK, RunTypeOK
<1>2. ASSUME RunChecks \/ RunChecksAgain \/ MakePlan PROVE TypeInv'
  <2>1. UNCHANGED <<lab, context, change, copied, workspace, todo, patch, edits>>
    BY <1>2 DEF RunChecks, RunChecksAgain, MakePlan
  <2>2. report' = report \/ report' = RunRules(context.assets, change, lab)
    BY <1>2 DEF RunChecks, RunChecksAgain, MakePlan
  <2>3. report' \in Reports
    BY <1>0, <2>2, ContextType, RunRulesType DEF RunTypeOK
  <2>4. phase' \in Phases
    BY <1>2 DEF RunChecks, RunChecksAgain, MakePlan, Phases
  <2>5. plan' \in [source : {"none", "model", "deterministic"}, actions : SUBSET Action]
    <3>1. CASE plan' = plan
      BY <1>0, <3>1 DEF RunTypeOK
    <3>2. CASE plan' # plan
      <4>1. PICK answer \in Answers : plan' = PlanFor(answer, FindingsOf(report'))
        BY <1>2, <3>2 DEF RunChecks, RunChecksAgain, MakePlan
      <4>2. FindingsOf(report') \subseteq Known
        BY <2>3, FindingsKnown
      <4>3. {[rule |-> f.rule, template |-> f.template] : f \in FindingsOf(report')} \subseteq Action
        BY <4>2 DEF Known, Finding, Action
      <4>4. answer # NoAnswer => answer.actions \subseteq Action
        BY RemediationAssumption DEF Answer
      <4> QED BY <4>1, <4>3, <4>4 DEF PlanFor, SchemaAccepts
    <3> QED BY <3>1, <3>2
  <2> QED BY <1>0, <2>1, <2>3, <2>4, <2>5 DEF TypeInv, LabTypeOK, RunTypeOK
<1>3. ASSUME Approve \/ Generated \/ Validate \/ Ship PROVE TypeInv'
  <2>1. /\ UNCHANGED <<lab, context, change, report, plan, copied, workspace, todo, patch, edits>>
        /\ phase' \in Phases
    BY <1>3 DEF Approve, Generated, Validate, Ship, Phases
  <2> QED BY <1>0, <2>1 DEF TypeInv, LabTypeOK, RunTypeOK
<1>4. CASE PrepareWorkspace
  <2>1. FindingsOf(report) \subseteq Known
    BY <1>0, FindingsKnown DEF RunTypeOK
  <2> QED BY <1>0, <1>4, <2>1 DEF PrepareWorkspace, TypeInv, LabTypeOK, RunTypeOK, Phases
<1>5. CASE NextFinding
  <2>1. PICK f \in todo :
           /\ todo' = todo \ {f}
           /\ \/ EditedBy(f) /\ phase' = phase
              \/ workspace' = workspace /\ patch' = patch /\ phase' = "raised"
              \/ workspace' = workspace /\ phase' = phase
                   /\ patch' = [patch EXCEPT !.skipped = @ \cup {f}]
              \/ workspace' = workspace /\ phase' = phase
                   /\ patch' = [patch EXCEPT !.rejected = @ \cup {f}]
    BY <1>5, Turn
  <2>2. workspace' \in Lab
    <3>1. CASE EditedBy(f)
      BY <1>0, <3>1, EditType DEF EditedBy, LabTypeOK
    <3> QED BY <1>0, <2>1, <3>1 DEF LabTypeOK
  <2>3. patch' \in [files : SUBSET Files, applied : SUBSET Known, skipped : SUBSET Known,
                    rejected : SUBSET Known]
    <3>1. f \in Known
      BY <1>0 DEF RunTypeOK
    <3>2. CASE EditedBy(f)
      BY <1>0, <3>1, <3>2 DEF EditedBy, RunTypeOK
    <3> QED BY <1>0, <2>1, <3>1, <3>2 DEF RunTypeOK
  <2>4. todo' \subseteq Known /\ phase' \in Phases
    BY <1>0, <2>1 DEF RunTypeOK, Phases
  <2>5. UNCHANGED <<lab, context, change, report, plan, copied, edits>>
    BY <1>5 DEF NextFinding
  <2> QED BY <1>0, <2>2, <2>3, <2>4, <2>5 DEF TypeInv, LabTypeOK, RunTypeOK
<1>6. CASE LabChanges
  <2>1. edits' \in 0 .. MaxEdits
    BY <1>0, <1>6, RemediationAssumption DEF LabChanges, RunTypeOK
  <2>2. lab' \in Lab
    BY <1>6, RemediationAssumption DEF LabChanges
  <2>3. UNCHANGED <<context, phase, change, report, plan, copied, workspace, todo, patch>>
    BY <1>6 DEF LabChanges
  <2> QED BY <1>0, <2>1, <2>2, <2>3 DEF TypeInv, LabTypeOK, RunTypeOK
<1>7. CASE UNCHANGED vars
  BY <1>0, <1>7 DEF vars, TypeInv, LabTypeOK, RunTypeOK
<1> QED BY <1>1, <1>2, <1>3, <1>4, <1>5, <1>6, <1>7 DEF Next, Phases

(* The lab, the workspace, the findings, the plan and the patch always     *)
(* have their types; no template divides by zero or leaves a file that is  *)
(* not one of its kind.                                                    *)
THEOREM TypeCorrect == Spec => []TypeOK
BY TypeInit, TypeStep, TypeInvType, PTL DEF Spec

-----------------------------------------------------------------------------
(* The plan.                                                               *)

(* What the planning step makes of an answer is grounded.                  *)
LEMMA PlanForGrounded ==
  ASSUME NEW answer, NEW findings \in SUBSET Known, findings # {}
  PROVE  /\ PlanFor(answer, findings).actions # {}
         /\ \A a \in PlanFor(answer, findings).actions :
              a.rule \in Codes(findings) /\ a.template \in Templates \cup NonFileTemplates
<1>1. CASE SchemaAccepts(answer) /\ Grounded(answer, findings)
  <2>1. PlanFor(answer, findings).actions = answer.actions
    BY <1>1 DEF PlanFor
  <2> QED BY <1>1, <2>1 DEF SchemaAccepts, Grounded
<1>2. CASE ~(SchemaAccepts(answer) /\ Grounded(answer, findings))
  <2>1. PlanFor(answer, findings).actions = {[rule |-> f.rule, template |-> f.template] : f \in findings}
    BY <1>2 DEF PlanFor
  <2>2. \A f \in findings : f.template \in Templates \cup NonFileTemplates
    BY DEF Known, Finding
  <2>3. \A f \in findings : f.rule \in Codes(findings)
    BY DEF Codes
  <2>4. ASSUME NEW a \in PlanFor(answer, findings).actions
        PROVE  a.rule \in Codes(findings) /\ a.template \in Templates \cup NonFileTemplates
    <3>1. PICK f \in findings : a = [rule |-> f.rule, template |-> f.template]
      BY <2>1, <2>4
    <3>2. a.rule = f.rule /\ a.template = f.template
      BY <3>1
    <3> QED BY <2>2, <2>3, <3>2
  <2>5. PlanFor(answer, findings).actions # {}
    BY <2>1
  <2> QED BY <2>4, <2>5
<1> QED BY <1>1, <1>2

(* Only the planning step hands a plan to the approval.                    *)
LEMMA PlanStep == TypeInv /\ PlanIsGrounded /\ [Next]_vars => PlanIsGrounded'
<1> SUFFICES ASSUME TypeInv, PlanIsGrounded, [Next]_vars, phase' = "awaiting"
             PROVE  PlanIsGrounded'
  BY DEF PlanIsGrounded
<1>1. CASE MakePlan
  <2>1. PICK answer \in Answers :
          FindingsOf(report') # {} /\ plan' = PlanFor(answer, FindingsOf(report'))
    BY <1>1 DEF MakePlan
  <2>2. report' \in Reports
    BY <1>1, ContextType, RunRulesType DEF MakePlan, TypeInv
  <2>3. FindingsOf(report') \subseteq Known
    BY <2>2, FindingsKnown
  <2> HIDE DEF PlanIsGrounded
  <2>4. /\ plan'.actions # {}
        /\ \A a \in plan'.actions :
             a.rule \in Codes(FindingsOf(report')) /\ a.template \in Templates \cup NonFileTemplates
    BY <2>1, <2>3, PlanForGrounded
  <2> QED BY <2>4 DEF PlanIsGrounded, Codes, FindingsOf
<1>2. CASE LabChanges \/ UNCHANGED vars
  <2>1. UNCHANGED <<phase, plan, report>>
    BY <1>2 DEF LabChanges, vars
  <2> QED BY <2>1 DEF PlanIsGrounded, Codes, FindingsOf
<1>3. CASE NextFinding
  <2>1. phase = "workspace" /\ (phase' = phase \/ phase' = "raised")
    BY <1>3, Turn DEF NextFinding
  <2> QED BY <2>1
<1>4. CASE ~(MakePlan \/ LabChanges \/ NextFinding \/ UNCHANGED vars)
  <2>1. phase' # "awaiting"
    BY <1>4 DEF Next, LoadCatalog, RunChecks, Approve, RunChecksAgain, PrepareWorkspace,
                Generated, Validate, Ship
  <2> QED BY <2>1
<1> QED BY <1>1, <1>2, <1>3, <1>4

(* planner.py: whatever the model answers, and however the lab moved since *)
(* the checks, a plan that waits for approval acts on findings of the run  *)
(* with registered templates.                                              *)
THEOREM PlanGroundedHolds == Spec => []PlanIsGrounded
<1>1. Init => PlanIsGrounded
  BY DEF Init, PlanIsGrounded
<1> QED BY <1>1, TypeInit, TypeStep, PlanStep, PTL DEF Spec

-----------------------------------------------------------------------------
(* The patch.                                                              *)

Early == {"start", "loaded", "context_failed", "completed", "planning", "replanning",
          "awaiting", "rejected", "approved", "reloaded", "patching"}

(* Before the workspace there is no patch; a finding generate has not come *)
(* to is in none of its lists, and none is in two.                         *)
Accounted ==
  /\ phase \in Early => patch = NoPatch
  /\ phase \in InWorkspace =>
       todo \cup patch.applied \cup patch.skipped \cup patch.rejected = FindingsOf(report)
  /\ todo \cap (patch.applied \cup patch.skipped \cup patch.rejected) = {}
  /\ patch.applied \cap (patch.skipped \cup patch.rejected) = {}
  /\ patch.skipped \cap patch.rejected = {}

(* The steps before the workspace, and after its edits.                    *)
LEMMA EarlyStep ==
  ASSUME NEW from, NEW to,
         \/ LoadCatalog(from, to) /\ from \in Early /\ to \in Early
         \/ RunChecks \/ MakePlan \/ Approve \/ RunChecksAgain
  PROVE  /\ phase \in Early /\ phase' \in Early \cup {"raised"}
         /\ UNCHANGED <<lab, context, copied, workspace, todo, patch, edits>>
BY DEF LoadCatalog, RunChecks, MakePlan, Approve, RunChecksAgain, Early

(* The steps that leave the patch as it is.                                *)
LEMMA LateStep ==
  ASSUME Generated \/ Validate \/ Ship
  PROVE  /\ phase \in InWorkspace /\ phase' \in InWorkspace
         /\ UNCHANGED <<lab, context, change, report, copied, workspace, todo, patch>>
BY DEF Generated, Validate, Ship, InWorkspace

(* A step is one of these.                                                 *)
LEMMA Steps ==
  ASSUME [Next]_vars
  PROVE  \/ \E from, to : \/ LoadCatalog(from, to) /\ from \in Early /\ to \in Early
                          \/ RunChecks \/ MakePlan \/ Approve \/ RunChecksAgain
         \/ Generated \/ Validate \/ Ship
         \/ PrepareWorkspace \/ NextFinding
         \/ LabChanges \/ UNCHANGED vars
BY DEF Next, Early

(* Every step accounts for the findings.                                   *)
LEMMA AccountedStep == TypeInv /\ Accounted /\ [Next]_vars => Accounted'
<1> SUFFICES ASSUME TypeInv, Accounted, [Next]_vars PROVE Accounted'
  OBVIOUS
<1>1. ASSUME NEW from, NEW to,
             \/ LoadCatalog(from, to) /\ from \in Early /\ to \in Early
             \/ RunChecks \/ MakePlan \/ Approve \/ RunChecksAgain
      PROVE  Accounted'
  <2>1. patch = NoPatch /\ patch' = NoPatch /\ phase' \notin InWorkspace
    BY <1>1, EarlyStep DEF Accounted, Early, InWorkspace
  <2> QED BY <2>1 DEF Accounted, NoPatch
<1>2. CASE Generated \/ Validate \/ Ship
  <2>1. phase \in InWorkspace /\ phase' \in InWorkspace /\ UNCHANGED <<report, todo, patch>>
    BY <1>2, LateStep
  <2>2. phase' \notin Early
    BY <2>1 DEF InWorkspace, Early
  <2> QED BY <2>1, <2>2 DEF Accounted, FindingsOf
<1>3. CASE PrepareWorkspace
  <2>1. patch = NoPatch /\ patch' = NoPatch /\ todo' = FindingsOf(report) /\ report' = report
        /\ phase' \notin Early
    BY <1>3 DEF PrepareWorkspace, Accounted, Early
  <2> QED BY <2>1 DEF Accounted, NoPatch, FindingsOf
<1>4. CASE NextFinding
  <2>1. PICK f \in todo :
           /\ todo' = todo \ {f}
           /\ \/ EditedBy(f) /\ phase' = phase
              \/ workspace' = workspace /\ patch' = patch /\ phase' = "raised"
              \/ workspace' = workspace /\ phase' = phase
                   /\ patch' = [patch EXCEPT !.skipped = @ \cup {f}]
              \/ workspace' = workspace /\ phase' = phase
                   /\ patch' = [patch EXCEPT !.rejected = @ \cup {f}]
    BY <1>4, Turn
  <2>2. phase = "workspace" /\ report' = report
    BY <1>4 DEF NextFinding
  <2>3. CASE patch' = patch /\ phase' = "raised"
    BY <2>1, <2>3 DEF Accounted, InWorkspace, Early
  <2>4. CASE ~(patch' = patch /\ phase' = "raised")
    <3>1. /\ phase' = phase
          /\ \/ /\ patch'.applied = patch.applied \cup {f}
                /\ UNCHANGED <<patch.skipped, patch.rejected>>
             \/ /\ patch'.skipped = patch.skipped \cup {f}
                /\ UNCHANGED <<patch.applied, patch.rejected>>
             \/ /\ patch'.rejected = patch.rejected \cup {f}
                /\ UNCHANGED <<patch.applied, patch.skipped>>
      BY <2>1, <2>4 DEF EditedBy, TypeInv, RunTypeOK
    <3>2. todo \cup patch.applied \cup patch.skipped \cup patch.rejected = FindingsOf(report)
      BY <2>2 DEF Accounted, InWorkspace
    <3>3. todo' \cup patch'.applied \cup patch'.skipped \cup patch'.rejected = FindingsOf(report')
      BY <2>1, <2>2, <3>1, <3>2
    <3>4. phase' \notin Early
      BY <2>2, <3>1 DEF Early
    <3> QED BY <2>1, <2>2, <3>1, <3>3, <3>4 DEF Accounted, FindingsOf
  <2> QED BY <2>3, <2>4
<1>5. CASE LabChanges \/ UNCHANGED vars
  <2>1. UNCHANGED <<phase, report, todo, patch>>
    BY <1>5 DEF LabChanges, vars
  <2> QED BY <2>1 DEF Accounted, FindingsOf
<1> QED BY <1>1, <1>2, <1>3, <1>4, <1>5, Steps

(* No finding is lost between the checks and the pull request, and none is *)
(* both patched and reported as left alone.                                *)
THEOREM EveryFindingHolds == Spec => []EveryFindingAccounted
<1>1. Init => Accounted
  BY DEF Init, Accounted, NoPatch, InWorkspace
<1>2. Accounted => EveryFindingAccounted
  BY DEF Accounted, EveryFindingAccounted
<1> QED BY <1>1, <1>2, TypeInit, TypeStep, AccountedStep, PTL DEF Spec

-----------------------------------------------------------------------------
(* The workspace.                                                          *)

FileNames == Files \cup {"catalog"}

(* A lab is the record of its files.                                       *)
LEMMA LabDomain ==
  ASSUME NEW l \in Lab PROVE DOMAIN l = FileNames /\ l = [f \in FileNames |-> l[f]]
BY DEF Lab, FileNames, Files

(* The workspace differs from what was copied in the patched files only,   *)
(* and what passed validation agrees.                                      *)
PatchIsTheDifference ==
  /\ \A f \in FileNames \ patch.files : workspace[f] = copied[f]
  /\ phase \in {"validated", "shipped"} => Agrees(workspace)

(* An edit lists its file.                                                 *)
LEMMA DifferenceStep ==
  TypeInv /\ PatchIsTheDifference /\ [Next]_vars => PatchIsTheDifference'
<1> SUFFICES ASSUME TypeInv, PatchIsTheDifference, [Next]_vars PROVE PatchIsTheDifference'
  OBVIOUS
<1>1. ASSUME NEW from, NEW to,
             \/ LoadCatalog(from, to) /\ from \in Early /\ to \in Early
             \/ RunChecks \/ MakePlan \/ Approve \/ RunChecksAgain
      PROVE  PatchIsTheDifference'
  <2>1. phase' \in Early \cup {"raised"} /\ UNCHANGED <<copied, workspace, patch>>
    BY <1>1, EarlyStep
  <2>2. phase' \notin {"validated", "shipped"}
    BY <2>1 DEF Early
  <2> QED BY <2>1, <2>2 DEF PatchIsTheDifference
<1>2. CASE Generated \/ Validate \/ Ship
  <2>1. UNCHANGED <<copied, workspace, patch>>
    BY <1>2, LateStep
  <2>2. phase' \in {"validated", "shipped"} => Agrees(workspace)
    BY <1>2 DEF PatchIsTheDifference, Generated, Validate, Ship, StepStatus
  <2> QED BY <2>1, <2>2 DEF PatchIsTheDifference, Agrees, FeedPrice, OfferPrice, OfferAvailable
<1>3. CASE PrepareWorkspace
  BY <1>3 DEF PrepareWorkspace, PatchIsTheDifference
<1>4. CASE NextFinding
  <2>1. PICK f \in todo :
           /\ \/ EditedBy(f) /\ phase' = phase
              \/ workspace' = workspace /\ patch' = patch
              \/ workspace' = workspace /\ patch' = [patch EXCEPT !.skipped = @ \cup {f}]
              \/ workspace' = workspace /\ patch' = [patch EXCEPT !.rejected = @ \cup {f}]
           /\ phase' = phase \/ phase' = "raised"
    BY <1>4, Turn
  <2>2. phase' \notin {"validated", "shipped"} /\ copied' = copied
    BY <1>4, <2>1 DEF NextFinding
  <2>3. CASE EditedBy(f)
    <3>1. patch'.files = patch.files \cup {f.target}
      BY <2>3 DEF EditedBy, TypeInv, RunTypeOK
    <3>2. \A g \in FileNames \ {f.target} : workspace'[g] = workspace[g]
      BY <2>3, LabDomain DEF EditedBy, TypeInv, LabTypeOK
    <3> QED BY <2>2, <3>1, <3>2 DEF PatchIsTheDifference
  <2>4. CASE ~EditedBy(f)
    <3>1. workspace' = workspace /\ patch'.files = patch.files
      BY <2>1, <2>4 DEF TypeInv, RunTypeOK
    <3> QED BY <2>2, <3>1 DEF PatchIsTheDifference
  <2> QED BY <2>3, <2>4
<1>5. CASE LabChanges \/ UNCHANGED vars
  <2>1. UNCHANGED <<phase, copied, workspace, patch>>
    BY <1>5 DEF LabChanges, vars
  <2> QED BY <2>1 DEF PatchIsTheDifference, Agrees, FeedPrice, OfferPrice, OfferAvailable
<1> QED BY <1>1, <1>2, <1>3, <1>4, <1>5, Steps

(* So the patch turns what was copied into what passed.                    *)
LEMMA ShipsType == TypeInv /\ PatchIsTheDifference => ShipsWhatPassed
<1> SUFFICES ASSUME TypeInv, PatchIsTheDifference, phase \in {"validated", "shipped"}
             PROVE  Shipped = workspace /\ Agrees(Shipped)
  BY DEF ShipsWhatPassed
<1>1. DOMAIN copied = FileNames /\ workspace = [f \in FileNames |-> workspace[f]]
  BY LabDomain DEF TypeInv, LabTypeOK
<1>2. Shipped = [f \in FileNames |-> workspace[f]]
  BY <1>1 DEF Shipped, PatchIsTheDifference
<1>3. Agrees(workspace)
  BY DEF PatchIsTheDifference
<1> QED BY <1>1, <1>2, <1>3

(* pr.py: what reaches the pull request is what the suite accepted, for    *)
(* any labs and any edit of the checkout meanwhile.                        *)
THEOREM ShipsWhatPassedHolds == Spec => []ShipsWhatPassed
<1>1. Init => PatchIsTheDifference
  BY DEF Init, PatchIsTheDifference
<1> QED BY <1>1, TypeInit, TypeStep, DifferenceStep, ShipsType, PTL DEF Spec

-----------------------------------------------------------------------------
(* The edits.                                                              *)

(* b is a with narrow edits.                                               *)
Narrow(a, b) ==
  /\ b.catalog = a.catalog
  /\ \A f \in Files, s \in Skus \ {First} : b[f][s] = a[f][s]
  /\ b.promotions[First].active = a.promotions[First].active
  /\ ~a.promotions[First].active => b.promotions[First] = a.promotions[First]
  /\ a.ai[First].price = Follow => b.ai[First].price = Follow
  /\ a.ai[First].available = Follow => b.ai[First].available = Follow
  /\ b.bundles[First].per = a.bundles[First].per
  /\ b.bundles[First].committed <= a.bundles[First].committed

(* A bundle's count is a number.                                           *)
LEMMA Committed == ASSUME NEW l \in Lab PROVE l.bundles[First].committed \in Nat
<1>1. l.bundles[First] \in [committed : Nat, per : Nat]
  BY LabAssumption, LabFiles DEF BundleFile
<1> QED BY <1>1

(* Narrow edits add up.                                                    *)
LEMMA NarrowAddsUp ==
  ASSUME NEW a \in Lab, NEW b \in Lab, NEW c \in Lab, Narrow(a, b), Narrow(b, c)
  PROVE  Narrow(a, c)
<1>1. /\ a.bundles[First].committed \in Nat /\ b.bundles[First].committed \in Nat
      /\ c.bundles[First].committed \in Nat
  BY Committed
<1>2. c.bundles[First].committed <= a.bundles[First].committed
  BY <1>1 DEF Narrow
<1> QED BY <1>2 DEF Narrow

(* No edit is a narrow one.                                                *)
LEMMA NarrowSelf == ASSUME NEW a \in Lab PROVE Narrow(a, a)
BY Committed DEF Narrow

(* A new file of the lab, and all the others as they were.                 *)
LEMMA OneFile ==
  ASSUME NEW w \in Lab, NEW name \in Files, NEW file
  PROVE  LET new == [w EXCEPT ![name] = file]
         IN new[name] = file /\ \A g \in FileNames \ {name} : new[g] = w[g]
BY LabDomain DEF FileNames

(* If one file changed, narrowly, the lab did.                             *)
LEMMA NarrowByFile ==
  ASSUME NEW a \in Lab, NEW b \in Lab, NEW name \in Files,
         \A g \in FileNames \ {name} : b[g] = a[g],
         \A s \in Skus \ {First} : b[name][s] = a[name][s],
         name = "promotions" =>
           /\ b.promotions[First].active = a.promotions[First].active
           /\ ~a.promotions[First].active => b.promotions[First] = a.promotions[First],
         name = "ai" =>
           /\ a.ai[First].price = Follow => b.ai[First].price = Follow
           /\ a.ai[First].available = Follow => b.ai[First].available = Follow,
         name = "bundles" =>
           /\ b.bundles[First].per = a.bundles[First].per
           /\ b.bundles[First].committed <= a.bundles[First].committed
  PROVE  Narrow(a, b)
<1>1. b.catalog = a.catalog
  BY DEF FileNames, Files
<1>2. \A f \in Files, s \in Skus \ {First} : b[f][s] = a[f][s]
  BY DEF FileNames
<1>3. name # "promotions" => b.promotions = a.promotions
  BY DEF FileNames, Files
<1>4. name # "ai" => b.ai = a.ai
  BY DEF FileNames, Files
<1>5. name # "bundles" => b.bundles = a.bundles
  BY DEF FileNames, Files
<1> QED BY <1>1, <1>2, <1>3, <1>4, <1>5, Committed DEF Narrow

(* What a template leaves behind.                                          *)
Settled(t, w, p) ==
  /\ t = "set_feed_price" => w.feeds[First] \in {p.price, Unlisted}
  /\ t = "cap_bundle_commitment" =>
       /\ w.bundles[First].per # 0
       /\ w.bundles[First].committed <= Sellable(p) \div w.bundles[First].per
  /\ t = "rebase_promotion" =>
       (w.promotions[First].active => w.promotions[First].basis = p.price)
  /\ t = "refresh_ai_manifest" =>
       (w.ai[First].price # Unlisted =>
          /\ w.ai[First].price \in {Follow, p.price}
          /\ w.ai[First].available \in {Follow, Sellable(p)})
  /\ t = "align_policy" => w.policies[First] \in {p.window, Unlisted}

(* A template edits one file, narrowly, and settles it.                    *)
LEMMA EditSettles ==
  ASSUME NEW w \in Lab, NEW p \in Product, NEW t \in Templates,
         ~TemplateRaises(t, Kind[t], w[Kind[t]])
  PROVE  LET new == [w EXCEPT ![Kind[t]] = ApplyTemplate(t, Kind[t], w[Kind[t]], p)]
         IN Narrow(w, new) /\ Settled(t, new, p)
<1> DEFINE new == [w EXCEPT ![Kind[t]] = ApplyTemplate(t, Kind[t], w[Kind[t]], p)]
<1>0. Kind[t] \in Files
  BY Names DEF Kind, Files
<1>1. new \in Lab
  BY EditType
<1>2. /\ new[Kind[t]] = ApplyTemplate(t, Kind[t], w[Kind[t]], p)
      /\ \A g \in FileNames \ {Kind[t]} : new[g] = w[g]
  BY <1>0, OneFile
<1> HIDE DEF new
<1>3. CASE t = "set_feed_price"
  <2>1. Kind[t] = "feeds" /\ new.feeds = SetFeedPrice(w.feeds, p)
    BY <1>2, <1>3 DEF Kind, ApplyTemplate
  <2>2. /\ \A s \in Skus \ {First} : new.feeds[s] = w.feeds[s]
        /\ new.feeds[First] \in {p.price, Unlisted}
    BY <2>1, LabFiles, FeedEdit
  <2>3. Narrow(w, new)
    BY <1>0, <1>1, <1>2, <2>1, <2>2, NarrowByFile
  <2> QED BY <1>3, <2>2, <2>3 DEF Settled, new
<1>4. CASE t = "cap_bundle_commitment"
  <2>1. /\ Kind[t] = "bundles" /\ w.bundles[First].per # 0
        /\ new.bundles = CapBundleCommitment(w.bundles, p)
    BY <1>2, <1>4 DEF Kind, ApplyTemplate, TemplateRaises
  <2>2. /\ \A s \in Skus \ {First} : new.bundles[s] = w.bundles[s]
        /\ new.bundles[First].per = w.bundles[First].per
        /\ new.bundles[First].committed <= w.bundles[First].committed
        /\ new.bundles[First].committed <= Sellable(p) \div w.bundles[First].per
    BY <2>1, LabFiles, BundleEdit
  <2>3. Narrow(w, new)
    BY <1>0, <1>1, <1>2, <2>1, <2>2, NarrowByFile
  <2> QED BY <1>4, <2>1, <2>2, <2>3 DEF Settled, new
<1>5. CASE t = "rebase_promotion"
  <2>1. Kind[t] = "promotions" /\ new.promotions = RebasePromotion(w.promotions, p)
    BY <1>2, <1>5 DEF Kind, ApplyTemplate
  <2>2. /\ \A s \in Skus \ {First} : new.promotions[s] = w.promotions[s]
        /\ ~w.promotions[First].active => new.promotions = w.promotions
        /\ new.promotions[First].active = w.promotions[First].active
        /\ new.promotions[First].active => new.promotions[First].basis = p.price
    BY <2>1, LabFiles, PromotionEdit
  <2>3. Narrow(w, new)
    BY <1>0, <1>1, <1>2, <2>1, <2>2, NarrowByFile
  <2> QED BY <1>5, <2>2, <2>3 DEF Settled, new
<1>6. CASE t = "refresh_ai_manifest"
  <2>1. Kind[t] = "ai" /\ new.ai = RefreshAiManifest(w.ai, p)
    BY <1>2, <1>6 DEF Kind, ApplyTemplate
  <2>2. /\ \A s \in Skus \ {First} : new.ai[s] = w.ai[s]
        /\ AfterRefresh(new.ai[First], w.ai[First], p)
    BY <2>1, LabFiles, AiEdit
  <2>3. Narrow(w, new)
    BY <1>0, <1>1, <1>2, <2>1, <2>2, NarrowByFile DEF AfterRefresh
  <2> QED BY <1>6, <2>2, <2>3 DEF Settled, AfterRefresh, new
<1>7. CASE t = "align_policy"
  <2>1. Kind[t] = "policies" /\ new.policies = AlignPolicy(w.policies, p)
    BY <1>2, <1>7 DEF Kind, ApplyTemplate
  <2>2. /\ \A s \in Skus \ {First} : new.policies[s] = w.policies[s]
        /\ new.policies[First] \in {p.window, Unlisted}
    BY <2>1, LabFiles, PolicyEdit
  <2>3. Narrow(w, new)
    BY <1>0, <1>1, <1>2, <2>1, <2>2, NarrowByFile
  <2> QED BY <1>7, <2>2, <2>3 DEF Settled, new
<1> QED BY <1>3, <1>4, <1>5, <1>6, <1>7, Names

(* A template settles its own file and leaves what others settled.         *)
LEMMA SettledStays ==
  ASSUME NEW v \in Lab, NEW w \in Lab, NEW p, NEW t \in Templates, NEW u \in Templates,
         t # u, \A g \in FileNames \ {Kind[u]} : w[g] = v[g], Settled(t, v, p)
  PROVE  Settled(t, w, p)
<1>1. Kind[t] \in FileNames \ {Kind[u]}
  BY Names DEF Kind, FileNames, Files
<1>2. w[Kind[t]] = v[Kind[t]]
  BY <1>1
<1>3. CASE t = "set_feed_price"
  BY <1>2, <1>3 DEF Kind, Settled
<1>4. CASE t = "cap_bundle_commitment"
  <2>1. w.bundles = v.bundles
    BY <1>2, <1>4 DEF Kind
  <2> QED BY <1>4, <2>1 DEF Settled
<1>5. CASE t = "rebase_promotion"
  BY <1>2, <1>5 DEF Kind, Settled
<1>6. CASE t = "refresh_ai_manifest"
  BY <1>2, <1>6 DEF Kind, Settled
<1>7. CASE t = "align_policy"
  BY <1>2, <1>7 DEF Kind, Settled
<1> QED BY <1>3, <1>4, <1>5, <1>6, <1>7, Names

(* The workspace is the copy with narrow edits, and what was patched is    *)
(* settled.                                                                *)
PatchSettled ==
  \A f \in patch.applied :
    /\ f.fixable /\ f.rule \in Rules /\ f.template \in Templates
    /\ f.template = TemplateOf[f.rule] /\ f.target = Kind[f.template]
    /\ Settled(f.template, workspace, change)

EditsInv == Narrow(copied, workspace) /\ PatchSettled

(* Only one turn of the loop edits.                                        *)
LEMMA EditsStep == TypeInv /\ Accounted /\ EditsInv /\ [Next]_vars => EditsInv'
<1> SUFFICES ASSUME TypeInv, Accounted, EditsInv, [Next]_vars PROVE EditsInv'
  OBVIOUS
<1>1. ASSUME NEW from, NEW to,
             \/ LoadCatalog(from, to) /\ from \in Early /\ to \in Early
             \/ RunChecks \/ MakePlan \/ Approve \/ RunChecksAgain
      PROVE  EditsInv'
  <2>1. phase \in Early /\ UNCHANGED <<copied, workspace, patch>>
    BY <1>1, EarlyStep
  <2>2. patch'.applied = {}
    BY <2>1 DEF Accounted, NoPatch
  <2> QED BY <2>1, <2>2 DEF EditsInv, PatchSettled, Narrow
<1>2. CASE Generated \/ Validate \/ Ship
  <2>1. UNCHANGED <<change, copied, workspace, patch>>
    BY <1>2, LateStep
  <2> QED BY <2>1 DEF EditsInv, PatchSettled, Settled, Narrow
<1>3. CASE PrepareWorkspace
  <2>1. phase \in Early /\ patch' = patch
    BY <1>3 DEF PrepareWorkspace, Early
  <2>2. patch'.applied = {}
    BY <2>1 DEF Accounted, NoPatch
  <2>3. Narrow(lab, lab)
    BY NarrowSelf DEF TypeInv, LabTypeOK
  <2>4. copied' = lab /\ workspace' = lab
    BY <1>3 DEF PrepareWorkspace
  <2>5. Narrow(copied, workspace)'
    BY <2>3, <2>4 DEF Narrow
  <2> QED BY <2>2, <2>5 DEF EditsInv, PatchSettled
<1>4. CASE NextFinding
  <2>1. PICK f \in todo :
           \/ EditedBy(f)
           \/ workspace' = workspace /\ patch' = patch
           \/ workspace' = workspace /\ patch' = [patch EXCEPT !.skipped = @ \cup {f}]
           \/ workspace' = workspace /\ patch' = [patch EXCEPT !.rejected = @ \cup {f}]
    BY <1>4, Turn
  <2>2. change' = change /\ copied' = copied
    BY <1>4 DEF NextFinding
  <2>3. CASE EditedBy(f)
    <3>0. workspace \in Lab /\ copied \in Lab /\ change \in Product /\ workspace' \in Lab
      BY TypeStep DEF TypeInv, LabTypeOK
    <3>1. /\ f.template \in Templates /\ f.target = Kind[f.template] /\ f.target \in Files
          /\ f.fixable /\ f.rule \in Rules /\ f.template = TemplateOf[f.rule]
          /\ ~TemplateRaises(f.template, f.target, workspace[f.target])
          /\ workspace' = [workspace EXCEPT ![f.target] =
                             ApplyTemplate(f.template, f.target, workspace[f.target], change)]
      BY <2>3 DEF EditedBy
    <3>2. Narrow(workspace, workspace') /\ Settled(f.template, workspace', change)
      BY <3>0, <3>1, EditSettles
    <3>3. Narrow(copied, workspace')
      BY <3>0, <3>2, NarrowAddsUp DEF EditsInv
    <3>4. \A g \in FileNames \ {Kind[f.template]} : workspace'[g] = workspace[g]
      BY <3>0, <3>1, OneFile
    <3>5. patch'.applied = patch.applied \cup {f}
      BY <2>3 DEF EditedBy, TypeInv, RunTypeOK
    <3>6. ASSUME NEW g \in patch.applied PROVE Settled(g.template, workspace', change)
      <4>1. g.template \in Templates /\ Settled(g.template, workspace, change)
        BY <3>6 DEF EditsInv, PatchSettled
      <4>2. CASE g.template = f.template
        BY <3>2, <4>2
      <4>3. CASE g.template # f.template
        <5>1. \A v, w \in Lab : \A t, u \in Templates :
                /\ t # u /\ Settled(t, v, change)
                /\ \A h \in FileNames \ {Kind[u]} : w[h] = v[h]
                => Settled(t, w, change)
          BY SettledStays
        <5>2. f.template \in Templates
          BY <3>1
        <5> QED BY <3>0, <3>4, <4>1, <4>3, <5>1, <5>2
      <4> QED BY <4>2, <4>3
    <3>7. PatchSettled'
      BY <2>2, <3>1, <3>2, <3>5, <3>6 DEF EditsInv, PatchSettled
    <3>8. Narrow(copied, workspace)'
      BY <2>2, <3>3 DEF Narrow
    <3> QED BY <3>7, <3>8 DEF EditsInv
  <2>4. CASE ~EditedBy(f)
    <3>1. workspace' = workspace /\ patch'.applied = patch.applied
      BY <2>1, <2>4 DEF TypeInv, RunTypeOK
    <3> QED BY <2>2, <3>1 DEF EditsInv, PatchSettled, Settled, Narrow
  <2> QED BY <2>3, <2>4
<1>5. CASE LabChanges \/ UNCHANGED vars
  <2>1. UNCHANGED <<change, copied, workspace, patch>>
    BY <1>5 DEF LabChanges, vars
  <2> QED BY <2>1 DEF EditsInv, PatchSettled, Settled, Narrow
<1> QED BY <1>1, <1>2, <1>3, <1>4, <1>5, Steps

(* At first the workspace is the copy.                                     *)
LEMMA EditsInit == Init => Accounted /\ EditsInv
<1> SUFFICES ASSUME Init PROVE Accounted /\ EditsInv
  OBVIOUS
<1>1. Accounted /\ PatchSettled
  BY DEF Init, Accounted, NoPatch, InWorkspace, PatchSettled
<1>2. Narrow(copied, workspace)
  BY TypeInit, NarrowSelf DEF Init, TypeInv, LabTypeOK
<1> QED BY <1>1, <1>2 DEF EditsInv

(* A patch touches the first SKU's contradictory values and nothing else,  *)
(* whatever the lab holds; a bundle only ever shrinks.                     *)
THEOREM NarrowEditsHolds == Spec => []NarrowEdits
<1>1. EditsInv => NarrowEdits
  BY DEF EditsInv, Narrow, NarrowEdits
<1> QED BY <1>1, EditsInit, TypeInit, TypeStep, AccountedStep, EditsStep, PTL DEF Spec

(* Applying a template to what it left changes nothing.                    *)
LEMMA SettledIsFixed ==
  ASSUME NEW w \in Lab, NEW p \in Product, NEW t \in Templates, Settled(t, w, p)
  PROVE  ApplyTemplate(t, Kind[t], w[Kind[t]], p) = w[Kind[t]]
<1>0. First \in Skus
  BY LabAssumption
<1>1. CASE t = "set_feed_price"
  <2>1. Kind[t] = "feeds" /\ ApplyTemplate(t, Kind[t], w[Kind[t]], p) = SetFeedPrice(w.feeds, p)
    BY <1>1 DEF Kind, ApplyTemplate
  <2>2. SetFeedPrice(w.feeds, p) = w.feeds
    BY <1>0, <1>1, LabFiles DEF Settled, SetFeedPrice, FeedFile
  <2> QED BY <2>1, <2>2
<1>2. CASE t = "cap_bundle_commitment"
  <2>1. Kind[t] = "bundles"
        /\ ApplyTemplate(t, Kind[t], w[Kind[t]], p) = CapBundleCommitment(w.bundles, p)
    BY <1>2 DEF Kind, ApplyTemplate
  <2>2. w.bundles[First].committed \in Nat /\ w.bundles[First].per \in Nat /\ Sellable(p) \in Nat
    BY <1>0, LabFiles, SellableType DEF BundleFile
  <2>3. Sellable(p) \div w.bundles[First].per \in Nat
    BY <1>2, <2>2, Buildable DEF Settled
  <2>4. ~(w.bundles[First].committed > Sellable(p) \div w.bundles[First].per)
    BY <1>2, <2>2, <2>3 DEF Settled
  <2> QED BY <2>1, <2>4 DEF CapBundleCommitment
<1>3. CASE t = "rebase_promotion"
  <2>1. Kind[t] = "promotions"
        /\ ApplyTemplate(t, Kind[t], w[Kind[t]], p) = RebasePromotion(w.promotions, p)
    BY <1>3 DEF Kind, ApplyTemplate
  <2>2. RebasePromotion(w.promotions, p) = w.promotions
    BY <1>0, <1>3, LabFiles DEF Settled, RebasePromotion, PromotionFile
  <2> QED BY <2>1, <2>2
<1>4. CASE t = "refresh_ai_manifest"
  <2>1. Kind[t] = "ai" /\ ApplyTemplate(t, Kind[t], w[Kind[t]], p) = RefreshAiManifest(w.ai, p)
    BY <1>4 DEF Kind, ApplyTemplate
  <2> DEFINE new == RefreshAiManifest(w.ai, p)
  <2>2. /\ new \in AiFile /\ w.ai \in AiFile
        /\ \A s \in Skus \ {First} : new[s] = w.ai[s]
        /\ AfterRefresh(new[First], w.ai[First], p)
    BY LabFiles, AiEdit
  <2>3. new[First].price = w.ai[First].price /\ new[First].available = w.ai[First].available
    BY <1>4, <2>2 DEF Settled, AfterRefresh
  <2> HIDE DEF new
  <2>4. new[First] = w.ai[First]
    BY <1>0, <2>2, <2>3 DEF AiFile, Offer
  <2>5. \A s \in Skus : new[s] = w.ai[s]
    BY <2>2, <2>4
  <2>6. new = w.ai
    BY <2>2, <2>5 DEF AiFile
  <2> QED BY <2>1, <2>6 DEF new
<1>5. CASE t = "align_policy"
  <2>1. Kind[t] = "policies" /\ ApplyTemplate(t, Kind[t], w[Kind[t]], p) = AlignPolicy(w.policies, p)
    BY <1>5 DEF Kind, ApplyTemplate
  <2>2. AlignPolicy(w.policies, p) = w.policies
    BY <1>0, <1>5, LabFiles DEF Settled, AlignPolicy, PolicyFile
  <2> QED BY <2>1, <2>2
<1> QED BY <1>1, <1>2, <1>3, <1>4, <1>5, Names

-----------------------------------------------------------------------------
(* The rules, the suite and the templates.  The rules decide whether a run *)
(* has anything to repair, the templates repair it, and the parity suite   *)
(* decides whether the repair is shipped: three pieces of code that state  *)
(* what it is to agree, each in its own way.                               *)

(* What the suite asks of the surface that rule r looks at.                *)
Fits(r, l) ==
  LET p == l.catalog[First]
  IN /\ r = "price_parity" =>
          /\ l.feeds[First] # Garbled
          /\ l.feeds[First] = Unlisted \/ FeedPrice(l, First) = p.price
     /\ r = "inventory_safety" => l.bundles[First].committed <= Sellable(p)
     /\ r = "promotion_integrity" =>
          (l.promotions[First].active => l.promotions[First].basis = p.price)
     /\ r = "ai_commerce_freshness" =>
          (Offered(l, First) =>
             OfferPrice(l, First) = p.price /\ OfferAvailable(l, First) = Sellable(p))
     /\ r = "policy_consistency" => l.policies[First] \in {p.window, Unlisted}

(* The suite looks at what the rules look at.                              *)
LEMMA AgreesByRule == ASSUME NEW l PROVE Agrees(l) <=> \A r \in Rules : Fits(r, l)
<1>1. Agrees(l) => \A r \in Rules : Fits(r, l)
  BY DEF Agrees, Fits
<1>2. ASSUME \A r \in Rules : Fits(r, l) PROVE Agrees(l)
  <2>1. /\ Fits("price_parity", l) /\ Fits("inventory_safety", l)
        /\ Fits("promotion_integrity", l) /\ Fits("ai_commerce_freshness", l)
        /\ Fits("policy_consistency", l)
    BY <1>2 DEF Rules
  <2> QED BY <2>1 DEF Fits, Agrees
<1> QED BY <1>1, <1>2

(* What can be sold and what is promised are numbers.                      *)
LEMMA Stock ==
  ASSUME NEW l \in Lab
  PROVE  /\ First \in Skus /\ l.catalog[First] \in Product
         /\ l.bundles[First].committed \in Nat /\ l.bundles[First].per \in Nat
         /\ Sellable(l.catalog[First]) \in Nat
BY LabAssumption, LabFiles, SellableType DEF Lab, BundleFile

(* A surface that fits is no finding about the SKU.                        *)
LEMMA FitIsSilent ==
  ASSUME NEW l \in Lab, NEW r \in Rules, NEW asset, Fits(r, l),
         NEW f \in Check(r, asset, l.catalog[First], l)
  PROVE  f.sku # First
<1>1. CASE r = "price_parity"
  BY <1>1 DEF Fits, Check, PriceParity
<1>2. CASE r = "inventory_safety"
  <2>1. PICK s \in Skus :
          /\ l.bundles[s].committed > Sellable(l.catalog[s])
          /\ f = Contradiction("inventory_safety", s, Grade(asset, "critical"),
                               "cap_bundle_commitment", asset)
    BY <1>2 DEF Check, InventorySafety
  <2>2. ~(l.bundles[First].committed > Sellable(l.catalog[First]))
    BY <1>2, Stock DEF Fits
  <2> QED BY <2>1, <2>2 DEF Contradiction
<1>3. CASE r = "promotion_integrity"
  BY <1>3 DEF Fits, Check, PromotionIntegrity
<1>4. CASE r = "ai_commerce_freshness"
  BY <1>4 DEF Fits, Check, AiCommerceFreshness
<1>5. CASE r = "policy_consistency"
  BY <1>5 DEF Fits, Check, PolicyConsistency
<1> QED BY <1>1, <1>2, <1>3, <1>4, <1>5 DEF Rules

(* A surface about which its rule found nothing, without an error, fits.   *)
LEMMA SilentFits ==
  ASSUME NEW l \in Lab, NEW r \in Rules, NEW asset, ~Raises(r, l),
         Check(r, asset, l.catalog[First], l) = {}
  PROVE  Fits(r, l)
<1>1. CASE r = "price_parity"
  BY <1>1 DEF Fits, Check, PriceParity, Raises
<1>2. CASE r = "inventory_safety"
  <2>1. ~(l.bundles[First].committed > Sellable(l.catalog[First]))
    BY <1>2, Stock DEF Check, InventorySafety
  <2> QED BY <1>2, <2>1, Stock DEF Fits
<1>3. CASE r = "promotion_integrity"
  BY <1>3 DEF Fits, Check, PromotionIntegrity
<1>4. CASE r = "ai_commerce_freshness"
  BY <1>4 DEF Fits, Check, AiCommerceFreshness
<1>5. CASE r = "policy_consistency"
  BY <1>5 DEF Fits, Check, PolicyConsistency
<1> QED BY <1>1, <1>2, <1>3, <1>4, <1>5 DEF Rules

(* What its template left of a surface fits.                               *)
LEMMA SettledFits ==
  ASSUME NEW l \in Lab, NEW r \in Rules, Settled(TemplateOf[r], l, l.catalog[First])
  PROVE  Fits(r, l)
<1> DEFINE p == l.catalog[First]
<1>1. CASE r = "price_parity"
  <2>1. l.feeds[First] \in {p.price, Unlisted}
    BY <1>1 DEF Settled, TemplateOf
  <2>2. p.price \in Nat
    BY Stock, LabAssumption DEF Product
  <2>3. l.feeds[First] # Garbled
    BY <2>1, <2>2, LabAssumption
  <2> QED BY <1>1, <2>1, <2>3 DEF Fits, FeedPrice
<1>2. CASE r = "inventory_safety"
  <2>1. /\ l.bundles[First].per # 0
        /\ l.bundles[First].committed <= Sellable(p) \div l.bundles[First].per
    BY <1>2 DEF Settled, TemplateOf
  <2>2. /\ Sellable(p) \div l.bundles[First].per \in Nat
        /\ Sellable(p) \div l.bundles[First].per <= Sellable(p)
    BY <2>1, Stock, Buildable
  <2>3. l.bundles[First].committed <= Sellable(p)
    BY <2>1, <2>2, Stock
  <2> QED BY <1>2, <2>3 DEF Fits
<1>3. CASE r = "promotion_integrity"
  BY <1>3 DEF Fits, Settled, TemplateOf
<1>4. CASE r = "ai_commerce_freshness"
  BY <1>4 DEF Fits, Settled, TemplateOf, Offered, OfferPrice, OfferAvailable
<1>5. CASE r = "policy_consistency"
  BY <1>5 DEF Fits, Settled, TemplateOf
<1> QED BY <1>1, <1>2, <1>3, <1>4, <1>5 DEF Rules

(* No rule contradicts what its template left of the first SKU.            *)
LEMMA SettledIsSilent ==
  ASSUME NEW w \in Lab, NEW p \in Product, NEW r \in Rules, Settled(TemplateOf[r], w, p),
         NEW asset, NEW g \in Check(r, asset, p, [w EXCEPT !.catalog[First] = p])
  PROVE  g.sku # First
<1> DEFINE l == [w EXCEPT !.catalog[First] = p]
<1>1. First \in Skus /\ w.catalog \in [Skus -> Product]
  BY LabAssumption DEF Lab
<1>2. /\ l \in Lab /\ l.catalog[First] = p
      /\ l.feeds = w.feeds /\ l.bundles = w.bundles /\ l.promotions = w.promotions
      /\ l.ai = w.ai /\ l.policies = w.policies
  BY <1>1 DEF Lab
<1> HIDE DEF l
<1>3. Settled(TemplateOf[r], l, l.catalog[First])
  BY <1>2 DEF Settled
<1>4. g \in Check(r, asset, l.catalog[First], l)
  BY <1>2 DEF l
<1> QED BY <1>2, <1>3, <1>4, SettledFits, FitIsSilent

(* The two together.                                                       *)
LEMMA ConvergesType == TypeInv /\ EditsInv => PatchConverges
<1> SUFFICES ASSUME TypeInv, EditsInv, NEW f \in patch.applied
             PROVE  /\ ApplyTemplate(f.template, f.target, workspace[f.target], change)
                         = workspace[f.target]
                    /\ \A g \in Check(f.rule, context.assets[f.rule], change, WithChange) :
                         g.fixable => g.sku # First
  BY DEF PatchConverges
<1>1. workspace \in Lab /\ change \in Product
  BY DEF TypeInv, LabTypeOK
<1>2. /\ f.rule \in Rules /\ f.template \in Templates /\ f.target = Kind[f.template]
      /\ f.template = TemplateOf[f.rule] /\ Settled(f.template, workspace, change)
  BY DEF EditsInv, PatchSettled
<1>3. ApplyTemplate(f.template, f.target, workspace[f.target], change) = workspace[f.target]
  BY <1>1, <1>2, SettledIsFixed
<1>4. \A g \in Check(f.rule, context.assets[f.rule], change, WithChange) :
        g.fixable => g.sku # First
  BY <1>1, <1>2, SettledIsSilent DEF WithChange
<1> QED BY <1>3, <1>4

(* One round of patching is enough: what was patched is no finding any     *)
(* more and would not be edited again, for any catalogue, stock and files, *)
(* also when the findings came from an older state of the lab.             *)
THEOREM PatchConvergesHolds == Spec => []PatchConverges
BY EditsInit, TypeInit, TypeStep, AccountedStep, EditsStep, ConvergesType, PTL DEF Spec

-----------------------------------------------------------------------------
(* What a run leaves behind.                                               *)

(* No rule finds anything about the change's SKU.                          *)
Silent(assets, l) ==
  \A r \in Rules : \A f \in RunRules(assets, l.catalog[First], l)[r].findings : f.sku # First

(* Where the suite passes no rule has a finding, whatever the assets say.  *)
LEMMA AgreeingIsSilent ==
  ASSUME NEW l \in Lab, NEW assets \in [Rules -> Asset \cup {NoAsset}], Agrees(l)
  PROVE  Silent(assets, l)
<1> SUFFICES ASSUME NEW r \in Rules,
                    NEW f \in RunRules(assets, l.catalog[First], l)[r].findings
             PROVE  f.sku # First
  BY DEF Silent
<1>1. f \in Check(r, assets[r], l.catalog[First], l) /\ Fits(r, l)
  BY RunRulesType, AgreesByRule
<1> QED BY <1>1, FitIsSilent

(* What was shipped gives the rules nothing to do.                         *)
ShippedIsSilent == phase \in {"validated", "shipped"} => Silent(context.assets, Shipped)

(* What a run ships would give the next run nothing to do: merged into the *)
(* lab it was copied from, no rule finds anything about the change's SKU,  *)
(* for any snapshot, although the patch was judged by the suite and not by *)
(* the rules.                                                              *)
THEOREM ShippedIsSilentHolds == Spec => []ShippedIsSilent
<1>1. TypeInv /\ ShipsWhatPassed => ShippedIsSilent
  <2> SUFFICES ASSUME TypeInv, ShipsWhatPassed, phase \in {"validated", "shipped"}
               PROVE  Silent(context.assets, Shipped)
    BY DEF ShippedIsSilent
  <2>1. Shipped \in Lab /\ Agrees(Shipped)
    BY DEF ShipsWhatPassed, TypeInv, LabTypeOK
  <2> QED BY <2>1, ContextType, AgreeingIsSilent DEF TypeInv
<1>2. Spec => []TypeInv
  BY TypeInit, TypeStep, PTL DEF Spec
<1> QED BY <1>1, <1>2, ShipsWhatPassedHolds, PTL

(* Every rule could be evaluated, and found nothing.                       *)
AllPassed(rep) == \A r \in Rules : rep[r].status = "passed"

(* A rule that passed was evaluated and found nothing.                     *)
LEMMA PassedMeans ==
  ASSUME NEW assets, NEW p, NEW l, NEW r \in Rules,
         RunRules(assets, p, l)[r].status = "passed"
  PROVE  ~Raises(r, l) /\ Check(r, assets[r], p, l) = {}
BY DEF RunRules, Evaluate

(* Where every rule passes, the suite does.                                *)
LEMMA PassedAgrees ==
  ASSUME NEW l \in Lab, NEW assets, AllPassed(RunRules(assets, l.catalog[First], l))
  PROVE  Agrees(l)
BY PassedMeans, SilentFits, AgreesByRule DEF AllPassed

(* A run that completes at its checks, on the catalogue as it is.          *)
CompletesConsistent ==
  RunChecks /\ phase' = "completed" /\ AllPassed(report') /\ change = lab.catalog[First]
    => Agrees(lab)

(* A run that completes at its checks, with every rule evaluated, leaves a *)
(* lab that the suite would pass.  Both hypotheses are needed: a rule that *)
(* is skipped or errs has no finding either, and the lab may have changed  *)
(* since the catalogue was read.                                           *)
THEOREM CompletesConsistentHolds == Spec => [][CompletesConsistent]_vars
<1>1. TypeInv => CompletesConsistent
  <2> SUFFICES ASSUME TypeInv, RunChecks, phase' = "completed", AllPassed(report'),
                      change = lab.catalog[First]
               PROVE  Agrees(lab)
    BY DEF CompletesConsistent
  <2>1. report' = RunRules(context.assets, lab.catalog[First], lab)
    BY DEF RunChecks
  <2> QED BY <2>1, PassedAgrees DEF TypeInv, LabTypeOK
<1>2. Spec => []TypeInv
  BY TypeInit, TypeStep, PTL DEF Spec
<1> QED BY <1>1, <1>2, PTL

-----------------------------------------------------------------------------
(* The repair is enough.                                                   *)

(* The rule's asset is there and names the file that the rule looks at.    *)
Reaches(r) == context.assets[r] # NoAsset /\ context.assets[r].file = Kind[TemplateOf[r]]

(* Its surface was checked, and can be patched.                            *)
Repairable(r) == Reaches(r) /\ report[r].status # "error"

(* While nobody edits the lab: the run's catalogue is the lab's, so is the *)
(* copy's, and a repairable surface fits or generate has still to come to  *)
(* a finding about it.                                                     *)
CurrentInv ==
  edits = 0 =>
    /\ change = lab.catalog[First]
    /\ phase \in {"patching"} \cup InWorkspace => report = RunRules(context.assets, change, lab)

RepairInv ==
  edits = 0 /\ phase \in InWorkspace =>
    /\ workspace.catalog[First] = change
    /\ \A r \in Rules :
         Repairable(r) => Fits(r, workspace) \/ \E f \in todo : f.rule = r /\ f.fixable

(* A finding that can be patched names its rule's template and file.       *)
LEMMA FindingTarget ==
  ASSUME NEW asset, NEW r \in Rules, NEW p, NEW l, NEW f \in Check(r, asset, p, l), f.fixable
  PROVE  f.target = asset.file /\ f.template = TemplateOf[r]
BY DEF Rules, Check, PriceParity, InventorySafety, PromotionIntegrity, AiCommerceFreshness,
       PolicyConsistency, Contradiction, TemplateOf

(* A rule that found something found something that can be patched.        *)
LEMMA FixableFound ==
  ASSUME NEW asset, NEW r \in Rules, NEW p, NEW l, Check(r, asset, p, l) # {}
  PROVE  \E f \in Check(r, asset, p, l) : f.fixable /\ f.rule = r
<1>1. \A s, severity : Contradiction(r, s, severity, TemplateOf[r], asset).fixable
                       /\ Contradiction(r, s, severity, TemplateOf[r], asset).rule = r
  BY DEF Contradiction
<1>2. \E s, severity : Contradiction(r, s, severity, TemplateOf[r], asset) \in Check(r, asset, p, l)
  <2>1. CASE r = "price_parity"
    <3>1. Contradiction(r, First, Grade(asset, "high"), TemplateOf[r], asset) \in Check(r, asset, p, l)
      BY <2>1 DEF Check, PriceParity, TemplateOf
    <3> QED BY <3>1
  <2>2. CASE r = "inventory_safety"
    <3>1. PICK s \in Skus : l.bundles[s].committed > Sellable(l.catalog[s])
      BY <2>2 DEF Check, InventorySafety
    <3>2. Contradiction(r, s, Grade(asset, "critical"), TemplateOf[r], asset) \in Check(r, asset, p, l)
      BY <2>2, <3>1 DEF Check, InventorySafety, TemplateOf
    <3> QED BY <3>2
  <2>3. CASE r = "promotion_integrity"
    <3>1. Contradiction(r, First, Grade(asset, "high"), TemplateOf[r], asset) \in Check(r, asset, p, l)
      BY <2>3 DEF Check, PromotionIntegrity, TemplateOf
    <3> QED BY <3>1
  <2>4. CASE r = "ai_commerce_freshness"
    <3>1. Contradiction(r, First, Grade(asset, "high"), TemplateOf[r], asset) \in Check(r, asset, p, l)
      BY <2>4 DEF Check, AiCommerceFreshness, TemplateOf
    <3> QED BY <3>1
  <2>5. CASE r = "policy_consistency"
    <3>1. Contradiction(r, First, Grade(asset, "medium"), TemplateOf[r], asset) \in Check(r, asset, p, l)
      BY <2>5 DEF Check, PolicyConsistency, TemplateOf
    <3> QED BY <3>1
  <2> QED BY <2>1, <2>2, <2>3, <2>4, <2>5 DEF Rules
<1> QED BY <1>1, <1>2

(* Before the loop: what does not fit was found.                           *)
LEMMA FoundOrFits ==
  ASSUME NEW l \in Lab, NEW assets, NEW r \in Rules, assets[r] # NoAsset,
         RunRules(assets, l.catalog[First], l)[r].status # "error"
  PROVE  \/ Fits(r, l)
         \/ \E f \in RunRules(assets, l.catalog[First], l)[r].findings : f.rule = r /\ f.fixable
<1> DEFINE p == l.catalog[First]
<1>1. ~Raises(r, l) /\ RunRules(assets, p, l)[r].findings = Check(r, assets[r], p, l)
  BY DEF RunRules, Evaluate
<1>2. CASE Check(r, assets[r], p, l) = {}
  BY <1>1, <1>2, SilentFits
<1>3. CASE Check(r, assets[r], p, l) # {}
  BY <1>1, <1>3, FixableFound
<1> QED BY <1>2, <1>3

(* A surface that fits does so as long as its file stays.                  *)
LEMMA FitStays ==
  ASSUME NEW v \in Lab, NEW w \in Lab, NEW r \in Rules, Fits(r, v),
         w.catalog = v.catalog, w[Kind[TemplateOf[r]]] = v[Kind[TemplateOf[r]]]
  PROVE  Fits(r, w)
<1>1. CASE r = "price_parity"
  BY <1>1 DEF Fits, FeedPrice, Kind, TemplateOf
<1>2. CASE r = "inventory_safety"
  BY <1>2 DEF Fits, Kind, TemplateOf
<1>3. CASE r = "promotion_integrity"
  BY <1>3 DEF Fits, Kind, TemplateOf
<1>4. CASE r = "ai_commerce_freshness"
  BY <1>4 DEF Fits, Offered, OfferPrice, OfferAvailable, Kind, TemplateOf
<1>5. CASE r = "policy_consistency"
  BY <1>5 DEF Fits, Kind, TemplateOf
<1> QED BY <1>1, <1>2, <1>3, <1>4, <1>5 DEF Rules

(* The templates of two rules edit two files.                              *)
LEMMA OwnFiles ==
  ASSUME NEW r \in Rules, NEW q \in Rules
  PROVE  /\ Kind[TemplateOf[r]] \in Files /\ TemplateOf[r] \notin NonFileTemplates
         /\ r # q => Kind[TemplateOf[r]] # Kind[TemplateOf[q]]
BY DEF Rules, TemplateOf, Kind, Files, NonFileTemplates

(* When generate has come to a finding of a repairable surface and goes    *)
(* on, the surface fits.                                                   *)
LEMMA TurnFits ==
  ASSUME TypeInv, NEW f \in Known, f.fixable, f.target = Kind[f.template],
         workspace.catalog[First] = change,
         Skip(f) \/ Reject(f) \/ Break(f) \/ LeaveAlone(f) \/ EditFile(f),
         phase' # "raised"
  PROVE  Fits(f.rule, workspace')
<1>1. f.rule \in Rules /\ f.template = TemplateOf[f.rule] /\ f.template \in Templates
  BY Names DEF Known, Finding
<1>2. f.target \in Files /\ f.template \notin NonFileTemplates /\ f.target # NoFile
  BY <1>1, OwnFiles, AssetAssumption
<1>3. ~Skips(f) /\ Writable(f.target)
  BY <1>2 DEF Skips, Writable
<1>4. LeaveAlone(f) \/ EditFile(f)
  BY <1>3 DEF Skip, Reject, Break
<1>5. ~TemplateRaises(f.template, f.target, workspace[f.target])
  BY <1>4 DEF LeaveAlone, EditFile, Applicable
<1>6. workspace \in Lab /\ change \in Product
  BY DEF TypeInv, LabTypeOK
<1> DEFINE new == [workspace EXCEPT ![f.target] =
                     ApplyTemplate(f.template, f.target, workspace[f.target], change)]
<1>7. Narrow(workspace, new) /\ Settled(f.template, new, change) /\ new \in Lab
  BY <1>1, <1>5, <1>6, EditSettles, EditType
<1>8. workspace' = new
  <2>1. CASE LeaveAlone(f)
    <3>1. workspace' = workspace
          /\ ApplyTemplate(f.template, f.target, workspace[f.target], change) = workspace[f.target]
      BY <2>1 DEF LeaveAlone, Edited
    <3>2. workspace = [workspace EXCEPT ![f.target] = workspace[f.target]]
      BY <1>2, <1>6, LabDomain DEF FileNames
    <3> QED BY <3>1, <3>2
  <2>2. CASE EditFile(f)
    BY <2>2 DEF EditFile, Edited
  <2> QED BY <1>4, <2>1, <2>2
<1>9. new.catalog[First] = change
  BY <1>7 DEF Narrow
<1> HIDE DEF new
<1> QED BY <1>1, <1>7, <1>8, <1>9, SettledFits

(* Every step keeps the run current, or counts an edit.                    *)
LEMMA CurrentStep == TypeInv /\ CurrentInv /\ [Next]_vars => CurrentInv'
<1> SUFFICES ASSUME TypeInv, CurrentInv, [Next]_vars, edits' = 0 PROVE CurrentInv'
  BY DEF CurrentInv
<1>0. edits \in Nat
  BY RemediationAssumption DEF TypeInv, RunTypeOK
<1>1. ~LabChanges
  BY <1>0 DEF LabChanges
<1>2. edits = 0 /\ lab' = lab /\ context' = context
  BY <1>1 DEF Next, LoadCatalog, RunChecks, MakePlan, Approve, RunChecksAgain,
              PrepareWorkspace, NextFinding, Generated, Validate, Ship, vars
<1>3. change = lab.catalog[First]
      /\ (phase \in {"patching"} \cup InWorkspace => report = RunRules(context.assets, change, lab))
  BY <1>2 DEF CurrentInv
<1>4. change' = lab'.catalog[First]
  BY <1>1, <1>2, <1>3 DEF Next, LoadCatalog, RunChecks, MakePlan, Approve, RunChecksAgain,
                          PrepareWorkspace, NextFinding, Generated, Validate, Ship, vars
<1>5. ASSUME phase' \in {"patching"} \cup InWorkspace
      PROVE  report' = RunRules(context'.assets, change', lab')
  <2>1. CASE RunChecksAgain
    BY <2>1, <1>2 DEF RunChecksAgain
  <2>2. CASE ~RunChecksAgain
    <3>1. phase \in {"patching"} \cup InWorkspace /\ UNCHANGED <<report, change>>
      BY <1>1, <1>5, <2>2 DEF Next, LoadCatalog, RunChecks, MakePlan, Approve, PrepareWorkspace,
                              NextFinding, Generated, Validate, Ship, vars, InWorkspace
    <3> QED BY <1>2, <1>3, <3>1
  <2> QED BY <2>1, <2>2
<1> QED BY <1>4, <1>5 DEF CurrentInv

(* Every step leaves a repairable surface to be patched, or fitting.       *)
LEMMA RepairStep ==
  TypeInv /\ Accounted /\ CurrentInv /\ RepairInv /\ [Next]_vars => RepairInv'
<1> SUFFICES ASSUME TypeInv, Accounted, CurrentInv, RepairInv, [Next]_vars,
                    edits' = 0, phase' \in InWorkspace
             PROVE  /\ workspace'.catalog[First] = change'
                    /\ \A r \in Rules :
                         Repairable(r)' => Fits(r, workspace') \/ \E f \in todo' : f.rule = r /\ f.fixable
  BY DEF RepairInv, Fits, FeedPrice, OfferPrice, OfferAvailable
<1>0. edits \in Nat /\ lab \in Lab /\ workspace \in Lab
  BY RemediationAssumption DEF TypeInv, LabTypeOK, RunTypeOK
<1>1. CASE PrepareWorkspace
  <2>1. /\ workspace' = lab /\ todo' = FindingsOf(report) /\ UNCHANGED <<change, report, context>>
        /\ edits = 0 /\ phase = "patching"
    BY <1>1 DEF PrepareWorkspace
  <2>2. change = lab.catalog[First] /\ report = RunRules(context.assets, change, lab)
    BY <2>1 DEF CurrentInv
  <2>3. ASSUME NEW r \in Rules, Repairable(r)
        PROVE  Fits(r, lab) \/ \E f \in FindingsOf(report) : f.rule = r /\ f.fixable
    BY <1>0, <2>2, <2>3, FoundOrFits DEF Repairable, Reaches, FindingsOf
  <2> QED BY <2>1, <2>2, <2>3 DEF Repairable, Reaches
<1>2. CASE NextFinding
  <2>1. PICK f \in todo :
          /\ todo' = todo \ {f}
          /\ Skip(f) \/ Reject(f) \/ Break(f) \/ LeaveAlone(f) \/ EditFile(f)
    BY <1>2 DEF NextFinding
  <2>2. UNCHANGED <<lab, context, change, report, edits>> /\ phase \in InWorkspace
    BY <1>2 DEF NextFinding, InWorkspace
  <2>3. /\ workspace.catalog[First] = change
        /\ change = lab.catalog[First] /\ report = RunRules(context.assets, change, lab)
    BY <2>2 DEF RepairInv, CurrentInv
  <2>4. /\ f \in Known /\ f \in FindingsOf(report) /\ workspace' \in Lab
        /\ change \in Product /\ context.assets \in [Rules -> Asset \cup {NoAsset}]
    BY <2>2, ContextType, TypeStep DEF Accounted, TypeInv, LabTypeOK, RunTypeOK
  <2>5. /\ workspace'.catalog = workspace.catalog
        /\ \A r \in Rules : ~(f.rule = r /\ f.fixable) =>
             workspace'[Kind[TemplateOf[r]]] = workspace[Kind[TemplateOf[r]]]
    <3>1. CASE EditFile(f)
      <4>1. /\ ~Skips(f) /\ f.target \in Files
            /\ ApplyTemplate(f.template, f.target, workspace[f.target], change) # workspace[f.target]
            /\ workspace' = [workspace EXCEPT ![f.target] = Edited(f)]
        BY <3>1 DEF EditFile, Applicable, Edited
      <4>2. f.fixable /\ f.rule \in Rules /\ f.target = Kind[TemplateOf[f.rule]]
        BY <2>4, <4>1, AppliedKind
      <4>3. \A g \in FileNames \ {f.target} : workspace'[g] = workspace[g]
        BY <1>0, <4>1, OneFile
      <4>4. workspace'.catalog = workspace.catalog
        BY <4>1, <4>3 DEF FileNames, Files
      <4>5. \A r \in Rules : f.rule # r => Kind[TemplateOf[r]] \in FileNames \ {f.target}
        BY <4>2, OwnFiles DEF FileNames
      <4> QED BY <4>2, <4>3, <4>4, <4>5
    <3>2. CASE ~EditFile(f)
      BY <2>1, <3>2 DEF Skip, Reject, Break, LeaveAlone
    <3> QED BY <3>1, <3>2
  <2>6. ASSUME NEW r \in Rules, Repairable(r)
        PROVE  Fits(r, workspace') \/ \E g \in todo' : g.rule = r /\ g.fixable
    <3>1. CASE f.rule = r /\ f.fixable
      <4>1. f \in Check(r, context.assets[r], change, lab)
        BY <2>3, <2>4, <3>1, RunRulesType DEF FindingsOf
      <4>2. f.target = Kind[f.template]
        BY <2>6, <3>1, <4>1, FindingTarget DEF Repairable, Reaches
      <4>3. phase' # "raised"
        BY DEF InWorkspace
      <4> QED BY <2>1, <2>3, <2>4, <3>1, <4>2, <4>3, TurnFits
    <3>2. CASE ~(f.rule = r /\ f.fixable)
      <4>1. CASE Fits(r, workspace)
        BY <1>0, <2>4, <2>5, <3>2, <4>1, FitStays
      <4>2. CASE \E g \in todo : g.rule = r /\ g.fixable
        BY <2>1, <3>2, <4>2
      <4> QED BY <2>2, <2>6, <4>1, <4>2 DEF RepairInv
    <3> QED BY <3>1, <3>2
  <2> QED BY <2>2, <2>3, <2>5, <2>6 DEF Repairable, Reaches
<1>3. CASE Generated \/ Validate \/ Ship \/ UNCHANGED vars
  <2>1. /\ UNCHANGED <<context, change, report, workspace, todo, edits>> /\ phase \in InWorkspace
    BY <1>3 DEF Generated, Validate, Ship, vars, InWorkspace
  <2> QED BY <2>1 DEF RepairInv, Repairable, Reaches
<1>4. ~LabChanges
  BY <1>0 DEF LabChanges
<1>5. ASSUME NEW from, NEW to,
             \/ LoadCatalog(from, to) /\ from \in Early /\ to \in Early
             \/ RunChecks \/ MakePlan \/ Approve \/ RunChecksAgain
      PROVE  FALSE
  BY <1>5, EarlyStep DEF Early, InWorkspace
<1> QED BY <1>1, <1>2, <1>3, <1>4, <1>5, Steps

(* The repair of a surface, once generate is through.                      *)
RepairIsEnough ==
  phase \in InWorkspace \ {"workspace"} /\ edits = 0 =>
    /\ \A r \in Rules : Repairable(r) => Fits(r, workspace)
    /\ (\A r \in Rules : Repairable(r)) => Agrees(workspace)

(* The five rules and the five templates are complete for the suite: in a  *)
(* lab nobody edits meanwhile, whatever is wrong with a surface whose      *)
(* asset names its file and whose rule does not err, the workspace has it  *)
(* right when generate returns; so the suite can only fail a run for a     *)
(* surface that no asset names or that no rule can read.                   *)
THEOREM RepairIsEnoughHolds == Spec => []RepairIsEnough
<1>1. Init => CurrentInv /\ RepairInv
  BY DEF Init, CurrentInv, RepairInv, InWorkspace
<1>2. (phase \in InWorkspace \ {"workspace"} => todo = {}) /\ TypeInv /\ [Next]_vars
      => (phase \in InWorkspace \ {"workspace"} => todo = {})'
  <2> SUFFICES ASSUME phase \in InWorkspace \ {"workspace"} => todo = {}, TypeInv, [Next]_vars,
                      phase' \in InWorkspace \ {"workspace"}
               PROVE  todo' = {}
    OBVIOUS
  <2>1. CASE NextFinding
    BY <2>1, Turn DEF NextFinding, InWorkspace
  <2>2. CASE PrepareWorkspace
    BY <2>2 DEF PrepareWorkspace
  <2>3. CASE Generated \/ Validate \/ Ship \/ LabChanges \/ UNCHANGED vars
    BY <2>3 DEF Generated, Validate, Ship, LabChanges, vars, InWorkspace
  <2>4. ASSUME NEW from, NEW to,
               \/ LoadCatalog(from, to) /\ from \in Early /\ to \in Early
               \/ RunChecks \/ MakePlan \/ Approve \/ RunChecksAgain
        PROVE  FALSE
    BY <2>4, EarlyStep DEF Early, InWorkspace
  <2> QED BY <2>1, <2>2, <2>3, <2>4, Steps
<1>3. Init => (phase \in InWorkspace \ {"workspace"} => todo = {})
  BY DEF Init, InWorkspace
<1>4. RepairInv /\ (phase \in InWorkspace \ {"workspace"} => todo = {}) => RepairIsEnough
  BY AgreesByRule DEF RepairInv, RepairIsEnough
<1> QED BY <1>1, <1>2, <1>3, <1>4, EditsInit, TypeInit, TypeStep, AccountedStep,
           CurrentStep, RepairStep, PTL DEF Spec
=============================================================================
