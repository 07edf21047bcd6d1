---------------------------- MODULE CommerceLab ----------------------------
(***************************************************************************)
(* The commerce lab: the authoritative catalogue, the five downstream      *)
(* configuration files, what the lab's own transforms make of them (they   *)
(* are another repository's, modelled as src/ reads their rows), the five  *)
(* rules of packages/rules and the five templates of packages/patch.       *)
(*                                                                         *)
(* A lab is a record with one field per file.  Each file has at most one   *)
(* entry per SKU; one that is not a number is the feed's, for all of them. *)
(* First is the catalogue's first product, the one load_catalog makes *)
(* the change of a run.                                                    *)
(***************************************************************************)
EXTENDS Integers

CONSTANTS Skus, First, Prices, Windows,
          Follow,     \* a value that is not pinned and follows the catalogue
          Unlisted,   \* no entry for the SKU
          Garbled,    \* an entry that is not a number
          NoFile,     \* an asset without the property lab_file
          NoAsset     \* no reachable asset carries the rule's name

ASSUME LabAssumption ==
  /\ First \in Skus
  /\ Prices \subseteq Nat /\ Windows \subseteq Nat
  /\ {Follow, Unlisted, Garbled} \cap Nat = {}
  /\ Unlisted # Follow /\ Garbled # Follow /\ Unlisted # Garbled

Product ==
  [price : Prices, inventory : Nat, reserved : Nat, safety : Nat, window : Windows]

(* A mutant of Sellable: oversold stock counts as negative. *)
Unclamped(p) == p.inventory - p.reserved - p.safety

(* What can be sold of a product: never negative. *)
Sellable(p) ==
  LET left == p.inventory - p.reserved - p.safety
  IN IF left > 0 THEN left ELSE 0

Lab ==
  [catalog    : [Skus -> Product],
   feeds      : [Skus -> Prices \cup {Follow, Unlisted, Garbled}],
   bundles    : [Skus -> [committed : Nat, per : Nat]],
   promotions : [Skus -> [active : BOOLEAN, basis : Prices]],
   ai         : [Skus -> [price : Prices \cup {Follow, Unlisted}, available : Nat \cup {Follow}]],
   policies   : [Skus -> Windows \cup {Unlisted}]]

(* The directories a patch may write in; the catalogue is not one of them. *)
Files == {"feeds", "bundles", "promotions", "ai", "policies"}

-----------------------------------------------------------------------------
(* The transforms: one row per SKU and surface.                            *)

FeedPrice(lab, s) ==
  IF lab.feeds[s] = Follow THEN lab.catalog[s].price ELSE lab.feeds[s]

Offered(lab, s) == lab.ai[s].price # Unlisted

OfferPrice(lab, s) ==
  IF lab.ai[s].price = Follow THEN lab.catalog[s].price ELSE lab.ai[s].price

OfferAvailable(lab, s) ==
  IF lab.ai[s].available = Follow THEN Sellable(lab.catalog[s]) ELSE lab.ai[s].available

-----------------------------------------------------------------------------
(* Severity and governance.                                                *)

Rank == [informational |-> 0, low |-> 1, medium |-> 2, high |-> 3, critical |-> 4]

Severity == DOMAIN Rank

(* An asset of the DataHub snapshot, as far as the rules look at it. *)
Asset ==
  [owned : BOOLEAN, customer_facing : BOOLEAN,
   criticality : {"critical", "high", "medium", "low"},
   file : Files \cup {NoFile, "catalog", "lost"}]

ASSUME AssetAssumption ==
  /\ NoAsset \notin Asset
  /\ NoFile \notin Files \cup {"catalog", "lost"}

(* Severity from the asset's criticality, at most medium when no customer  *)
(* sees it, and never below the rule's floor.                              *)
Grade(asset, floor) ==
  LET seen == IF ~asset.customer_facing /\ Rank[asset.criticality] > Rank["medium"]
              THEN "medium" ELSE asset.criticality
  IN IF Rank[seen] >= Rank[floor] THEN seen ELSE floor

-----------------------------------------------------------------------------
(* The rules.  p is the change of the run, lab the files its projections   *)
(* were built from.                                                        *)

Rules == {"price_parity", "inventory_safety", "promotion_integrity",
          "ai_commerce_freshness", "policy_consistency"}

(* The order of ALL_RULES. *)
Position ==
  [price_parity |-> 1, inventory_safety |-> 2, promotion_integrity |-> 3,
   ai_commerce_freshness |-> 4, policy_consistency |-> 5]

(* TEMPLATES, and the file each knows the keys of. *)
Kind ==
  [set_feed_price |-> "feeds", cap_bundle_commitment |-> "bundles",
   rebase_promotion |-> "promotions", refresh_ai_manifest |-> "ai",
   align_policy |-> "policies"]

Templates == DOMAIN Kind

NonFileTemplates == {"assign_owner"}

Finding ==
  [rule : Rules, sku : Skus, severity : Severity,
   template : Templates \cup NonFileTemplates, fixable : BOOLEAN,
   target : Files \cup {NoFile, "catalog", "lost"}]

Contradiction(rule, sku, severity, template, asset) ==
  [rule |-> rule, sku |-> sku, severity |-> severity, template |-> template,
   fixable |-> TRUE, target |-> asset.file]

PriceParity(asset, p, lab) ==
  IF lab.feeds[First] = Unlisted \/ FeedPrice(lab, First) = p.price THEN {}
  ELSE {Contradiction("price_parity", First, Grade(asset, "high"),
                      "set_feed_price", asset)}

(* Every bundle row counts, whatever SKU it is about. *)
InventorySafety(asset, lab) ==
  {Contradiction("inventory_safety", s, Grade(asset, "critical"),
                 "cap_bundle_commitment", asset) :
     s \in {t \in Skus : lab.bundles[t].committed > Sellable(lab.catalog[t])}}

PromotionIntegrity(asset, p, lab) ==
  IF ~lab.promotions[First].active \/ lab.promotions[First].basis = p.price THEN {}
  ELSE {Contradiction("promotion_integrity", First, Grade(asset, "high"),
                      "rebase_promotion", asset)}

(* A stale manifest, and nobody to send it to, are two findings. *)
AiCommerceFreshness(asset, p, lab) ==
  IF Offered(lab, First) => OfferPrice(lab, First) = p.price
                            /\ OfferAvailable(lab, First) = Sellable(p) THEN {}
  ELSE {Contradiction("ai_commerce_freshness", First, Grade(asset, "high"),
                      "refresh_ai_manifest", asset)}
       \cup (IF asset.owned THEN {}
             ELSE {[rule |-> "ai_commerce_freshness", sku |-> First,
                    severity |-> "medium", template |-> "assign_owner",
                    fixable |-> FALSE, target |-> NoFile]})

PolicyConsistency(asset, p, lab) ==
  IF lab.policies[First] \in {p.window, Unlisted} THEN {}
  ELSE {Contradiction("policy_consistency", First, Grade(asset, "medium"),
                      "align_policy", asset)}

(* check: what one rule finds on a lab. *)
Check(r, asset, p, lab) ==
  CASE r = "price_parity"          -> PriceParity(asset, p, lab)
    [] r = "inventory_safety"      -> InventorySafety(asset, lab)
    [] r = "promotion_integrity"   -> PromotionIntegrity(asset, p, lab)
    [] r = "ai_commerce_freshness" -> AiCommerceFreshness(asset, p, lab)
    [] r = "policy_consistency"    -> PolicyConsistency(asset, p, lab)

(* Decimal() of a price that is not a number. *)
Raises(r, lab) == r = "price_parity" /\ lab.feeds[First] = Garbled

(* evaluate: an untagged rule is skipped, one that raises is an error, and *)
(* neither has findings.                                                   *)
Evaluate(r, asset, p, lab) ==
  IF asset = NoAsset THEN [status |-> "skipped", findings |-> {}]
  ELSE IF Raises(r, lab) THEN [status |-> "error", findings |-> {}]
  ELSE LET found == Check(r, asset, p, lab)
       IN [status |-> IF found = {} THEN "passed" ELSE "failed", findings |-> found]

(* run_rules, when DataHub names an authoritative asset. *)
RunRules(assets, p, lab) == [r \in Rules |-> Evaluate(r, assets[r], p, lab)]

FindingsOf(report) == UNION {report[r].findings : r \in Rules}

(* The order of EngineReport.findings: severity first, then the rules'. *)
Before(f, g) ==
  \/ Rank[f.severity] > Rank[g.severity]
  \/ Rank[f.severity] = Rank[g.severity] /\ Position[f.rule] < Position[g.rule]

-----------------------------------------------------------------------------
(* The templates.  Each edits the entries of one SKU in one kind of file.  *)

(* A feed item without an override gets one. *)
SetFeedPrice(file, p) ==
  IF file[First] = Unlisted THEN file ELSE [file EXCEPT ![First] = p.price]

CapBundleCommitment(file, p) ==
  LET buildable == Sellable(p) \div file[First].per
  IN IF file[First].committed > buildable
     THEN [file EXCEPT ![First].committed = buildable] ELSE file

(* A mutant of RebasePromotion: it looks at no SKU. *)
RebasesAll(file, p) ==
  [s \in DOMAIN file |-> IF file[s].active THEN [file[s] EXCEPT !.basis = p.price] ELSE file[s]]

RebasePromotion(file, p) ==
  IF file[First].active THEN [file EXCEPT ![First].basis = p.price] ELSE file

(* A mutant of RefreshAiManifest: the price only. *)
PriceOnly(file, p) ==
  [file EXCEPT ![First].price = IF @ \in {Follow, Unlisted} THEN @ ELSE p.price]

(* Only pinned values are refreshed. *)
RefreshAiManifest(file, p) ==
  IF file[First].price = Unlisted THEN file
  ELSE [file EXCEPT ![First] =
          [price     |-> IF @.price = Follow THEN Follow ELSE p.price,
           available |-> IF @.available = Follow THEN Follow ELSE Sellable(p)]]

AlignPolicy(file, p) ==
  IF file[First] = Unlisted THEN file ELSE [file EXCEPT ![First] = p.window]

(* apply_template: in a YAML or JSON file of another kind a template finds *)
(* no entry.                                                               *)
ApplyTemplate(t, target, file, p) ==
  IF Kind[t] # target THEN file
  ELSE CASE t = "set_feed_price"        -> SetFeedPrice(file, p)
         [] t = "cap_bundle_commitment" -> CapBundleCommitment(file, p)
         [] t = "rebase_promotion"      -> RebasePromotion(file, p)
         [] t = "refresh_ai_manifest"   -> RefreshAiManifest(file, p)
         [] t = "align_policy"          -> AlignPolicy(file, p)

(* A bundle of zero units divides by zero, and the one template that reads *)
(* JSON does not parse YAML.                                               *)
TemplateRaises(t, target, file) ==
  \/ t = "cap_bundle_commitment" /\ target = "bundles" /\ file[First].per = 0
  \/ t = "refresh_ai_manifest" /\ target # "ai"
=============================================================================
