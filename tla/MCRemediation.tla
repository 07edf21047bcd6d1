--------------------------- MODULE MCRemediation ---------------------------
(***************************************************************************)
(* An instance of Remediation for TLC: two SKUs, a lab that agrees with    *)
(* its catalogue, the contradictory one of the demo, and labs that differ  *)
(* from it in one entry.                                                   *)
(***************************************************************************)
EXTENDS Remediation, TLC

CONSTANTS own, other

TwoSkus == {own, other}

Before2 == [price |-> 1, inventory |-> 3, reserved |-> 0, safety |-> 0, window |-> 1]
After2  == [price |-> 2, inventory |-> 4, reserved |-> 1, safety |-> 1, window |-> 2]
SoldOut == [price |-> 2, inventory |-> 1, reserved |-> 1, safety |-> 1, window |-> 2]

Consistent ==
  [catalog    |-> own :> Before2 @@ other :> Before2,
   feeds      |-> own :> 1 @@ other :> 1,
   bundles    |-> own :> [committed |-> 3, per |-> 1] @@ other :> [committed |-> 3, per |-> 1],
   promotions |-> own :> [active |-> TRUE, basis |-> 1] @@ other :> [active |-> TRUE, basis |-> 1],
   ai         |-> own :> [price |-> 1, available |-> 3] @@ other :> [price |-> 1, available |-> 3],
   policies   |-> own :> 1 @@ other :> 1]

(* The price, the stock and the policy moved; nothing followed. *)
Golden == [Consistent EXCEPT !.catalog[own] = After2]

SmallLabs ==
  {Consistent, Golden,
   [Golden EXCEPT !.catalog[own] = SoldOut],
   [Golden EXCEPT !.feeds[own] = Garbled],
   [Consistent EXCEPT !.feeds[own] = Garbled],
   [Golden EXCEPT !.feeds[own] = Unlisted],
   [Golden EXCEPT !.feeds[own] = Follow],
   [Golden EXCEPT !.bundles[own].per = 2],
   [Golden EXCEPT !.bundles[own].per = 0],
   [Golden EXCEPT !.promotions[own].active = FALSE],
   [Golden EXCEPT !.ai[own] = [price |-> Follow, available |-> 3]],
   [Golden EXCEPT !.ai[own] = [price |-> 1, available |-> Follow]],
   [Golden EXCEPT !.ai[own].price = Unlisted],
   [Golden EXCEPT !.policies[own] = Unlisted],
   [Consistent EXCEPT !.bundles[other].committed = 4]}

Home ==
  [price_parity |-> "feeds", inventory_safety |-> "bundles",
   promotion_integrity |-> "promotions", ai_commerce_freshness |-> "ai",
   policy_consistency |-> "policies"]

(* The demo's assets: the manifest has no owner. *)
Seeded ==
  [r \in Rules |->
     [owned |-> r # "ai_commerce_freshness", customer_facing |-> TRUE,
      criticality |-> IF Position[r] < 3 THEN "critical"
                      ELSE IF Position[r] < 5 THEN "high" ELSE "medium",
      file |-> Home[r]]]

SmallContexts ==
  [authority : {TRUE}, assets :
     {Seeded,
      [Seeded EXCEPT !["promotion_integrity"] = NoAsset],
      [Seeded EXCEPT !["price_parity"].file = NoFile],
      [Seeded EXCEPT !["price_parity"].file = "catalog"],
      [Seeded EXCEPT !["policy_consistency"].file = "lost"],
      [Seeded EXCEPT !["price_parity"].file = "ai"],
      [Seeded EXCEPT !["ai_commerce_freshness"].file = "policies"],
      [Seeded EXCEPT !["price_parity"].customer_facing = FALSE,
                     !["ai_commerce_freshness"].owned = TRUE]}]
  \cup {[authority |-> FALSE, assets |-> Seeded]}

OneAction(r, t) ==
  [actions |-> {[rule |-> r, template |-> t]}, numbered |-> TRUE, commands |-> {"pytest"}]

SmallAnswers ==
  {NoAnswer,
   OneAction("price_parity", "set_feed_price"),
   OneAction("price_parity", "align_policy"),
   OneAction("price_parity", "invented"),
   OneAction("invented", "set_feed_price"),
   [OneAction("price_parity", "set_feed_price") EXCEPT
      !.actions = @ \cup {[rule |-> "invented", template |-> "align_policy"]}],
   [OneAction("price_parity", "set_feed_price") EXCEPT !.numbered = FALSE],
   [OneAction("price_parity", "set_feed_price") EXCEPT !.commands = {"invented"}],
   [OneAction("price_parity", "set_feed_price") EXCEPT !.actions = {}]}
=============================================================================
