---------------------------- MODULE ShopInstall ----------------------------
(***************************************************************************)
(* One API process over its database: the start-up that makes the tenant,  *)
(* projects the code's rules and the environment's connectors into tables, *)
(* and the Shopify installs it serves.                                     *)
(*                                                                         *)
(* The states of pending installs live in the process and die with it;     *)
(* callbacks are coroutines that wait for Shopify twice; issue_token runs  *)
(* beside it and makes the same tenant.                                    *)
(***************************************************************************)
EXTENDS Naturals

CONSTANTS
  Shops, DemoShop, \* those merchants own, and the one of the environment
  States,          \* the tokens secrets.token_urlsafe gives
  Callbacks,       \* requests handled at once
  Scripts,         \* issue_token processes
  Rules, Versions, Sources,
  Builds,          \* what a deployed code says of each rule
  FirstBuild,
  Configured,      \* the connectors whose service the environment names
  None,
  TTL,             \* how old a state may be when it is used
  Scenarios        \* what may happen: the bounds

(* A rule's version, and the checksum of its implementation. *)
Implementation == [version : Versions, checksum : Sources]

Kinds == {"datahub", "github", "shopify"}

Scenario ==
  [installs : Nat, callbacks : Nat, scripts : Nat, tests : Nat, faults : Nat,
   deploys : Nat, slow : Nat, outages : Nat]

ASSUME InstallAssumption ==
  /\ DemoShop \notin Shops
  /\ "api" \notin Scripts
  /\ None \notin Sources /\ None \notin {"healthy", "pending", "failed", "degraded"}
  /\ Builds \subseteq [Rules -> Implementation] /\ FirstBuild \in Builds
  /\ Configured \subseteq Kinds /\ TTL \in Nat
  /\ Scenarios \subseteq Scenario
  /\ None \notin [shop : Shops, age : Nat]

VARIABLES
  organisation, \* the demo organisation exists
  shops,        \* how many shop rows it has
  shop,         \* the first one's domain, and whether it is the demo's
  registry,     \* rule versions: the checksum of each, or None
  connectors,   \* the status of each connector row, or None
  scenario,     \* the demo scenario exists
  audited,      \* the shops with an audit entry shopify.installed
  startup,      \* per process: how far it is
  build,        \* the code the API process runs
  pending,      \* _STATES
  callback,     \* per request: what it waits for, its state and its shop
  asked,        \* history: the install each state was made for
  admitted,     \* history: how many callbacks each state admitted
  exchanged,    \* history: shops that gave a token
  left          \* of the scenario

database == <<organisation, shops, shop, registry, connectors, scenario, audited>>
process  == <<startup, build, pending, callback>>
history  == <<asked, admitted, exchanged>>
install  == <<database, process, history, left>>

Idle == [at |-> "idle", state |-> None, shop |-> None]

InstallInit ==
  /\ organisation = FALSE /\ shops = 0
  /\ shop = [domain |-> None, demo |-> TRUE]
  /\ registry = [x \in Rules \X Versions |-> None]
  /\ connectors = [k \in Kinds |-> None]
  /\ scenario = FALSE /\ audited = {}
  /\ startup = [u \in {"api"} \cup Scripts |-> IF u = "api" THEN "tenant" ELSE "idle"]
  /\ build = FirstBuild
  /\ pending = [s \in States |-> None]
  /\ callback = [c \in Callbacks |-> Idle]
  /\ asked = [s \in States |-> None]
  /\ admitted = [s \in States |-> 0]
  /\ exchanged = {}
  /\ left \in Scenarios

Spend(what) == left[what] > 0 /\ left' = [left EXCEPT ![what] = @ - 1]

Goto(u, next) == startup' = [startup EXCEPT ![u] = next]

(* What follows the tenant: a script is done with it. *)
AfterTenant(u) == IF u = "api" THEN "rules" ELSE "idle"

-----------------------------------------------------------------------------
(* ensure_demo_tenant: organisation and shop are looked for, then added    *)
(* and committed together.  Only the organisation's slug is unique.        *)
FindTenant(u) ==
  /\ startup[u] = "tenant"
  /\ Goto(u, CASE ~organisation           -> "no_organisation"
               [] organisation /\ shops = 0 -> "no_shop"
               [] OTHER                   -> AfterTenant(u))
  /\ UNCHANGED <<database, build, pending, callback, history, left>>

Missing == {"no_organisation", "no_shop"}

AddShop ==
  /\ shops' = shops + 1
  /\ shop' = IF shops = 0 THEN [domain |-> DemoShop, demo |-> TRUE] ELSE shop

(* A mutant of AddTenant: the organisation is committed before the shop. *)
CommitsOrganisation(u) ==
  /\ startup[u] \in Missing
  /\ IF startup[u] = "no_organisation"
     THEN /\ IF organisation THEN Goto(u, "down") ELSE Goto(u, "no_shop")
          /\ UNCHANGED <<shops, shop>>
     ELSE Goto(u, AfterTenant(u)) /\ AddShop
  /\ organisation' = TRUE
  /\ UNCHANGED <<registry, connectors, scenario, audited, build, pending, callback, history, left>>

(* What is missing is added; who finds the slug taken by now raises and    *)
(* ends.                                                                   *)
AddTenant(u) ==
  /\ startup[u] \in Missing
  /\ IF startup[u] = "no_organisation" /\ organisation
     THEN Goto(u, "down") /\ UNCHANGED <<shops, shop>>
     ELSE Goto(u, AfterTenant(u)) /\ AddShop
  /\ organisation' = TRUE
  /\ UNCHANGED <<registry, connectors, scenario, audited, build, pending, callback, history, left>>

-----------------------------------------------------------------------------
(* The rest of lifespan.                                                   *)

(* A mutant of SyncRules: a version that has a row keeps it. *)
InsertsOnly ==
  /\ startup["api"] = "rules" /\ Goto("api", "connectors")
  /\ registry' = [x \in Rules \X Versions |->
       IF build[x[1]].version = x[2] /\ registry[x] = None
       THEN build[x[1]].checksum ELSE registry[x]]
  /\ UNCHANGED <<organisation, shops, shop, connectors, scenario, audited, build, pending,
                 callback, history, left>>

(* sync_rule_registry: the row of the version each rule has now gets the   *)
(* code's checksum, in one transaction; other versions stay.               *)
SyncRules ==
  /\ startup["api"] = "rules" /\ Goto("api", "connectors")
  /\ registry' = [x \in Rules \X Versions |->
       IF build[x[1]].version = x[2] THEN build[x[1]].checksum ELSE registry[x]]
  /\ UNCHANGED <<organisation, shops, shop, connectors, scenario, audited, build, pending,
                 callback, history, left>>

(* sync_connectors: the status says whether the environment names the      *)
(* service, whatever a test found before.                                  *)
SyncConnectors ==
  /\ startup["api"] = "connectors" /\ Goto("api", "scenario")
  /\ connectors' = [k \in Kinds |-> IF k \in Configured THEN "healthy" ELSE "pending"]
  /\ UNCHANGED <<organisation, shops, shop, registry, scenario, audited, build, pending,
                 callback, history, left>>

SyncScenario ==
  /\ startup["api"] = "scenario" /\ Goto("api", "serving")
  /\ scenario' = TRUE
  /\ UNCHANGED <<organisation, shops, shop, registry, connectors, audited, build, pending,
                 callback, history, left>>

(* issue_token *)
RunScript(u) ==
  /\ startup[u] = "idle" /\ Spend("scripts")
  /\ Goto(u, "tenant")
  /\ UNCHANGED <<database, build, pending, callback, history>>

-----------------------------------------------------------------------------
(* Requests, once the process serves.                                      *)

Serving == startup["api"] = "serving"

(* What a test that fails makes of the connector. *)
Failure == [datahub |-> "failed", github |-> "degraded"]

(* A mutant of TestConnector: the error code as the status. *)
WritesErrorCode ==
  /\ Serving /\ Spend("tests")
  /\ \E k \in Configured \cap DOMAIN Failure, ok \in BOOLEAN :
       connectors' = [connectors EXCEPT ![k] = IF ok THEN "healthy" ELSE "unreachable"]
  /\ UNCHANGED <<organisation, shops, shop, registry, scenario, audited, process, history>>

(* test_datahub, test_github: what is not configured is not tested. *)
TestConnector ==
  /\ Serving /\ Spend("tests")
  /\ \E k \in Configured \cap DOMAIN Failure, ok \in BOOLEAN :
       connectors' = [connectors EXCEPT ![k] = IF ok THEN "healthy" ELSE Failure[k]]
  /\ UNCHANGED <<organisation, shops, shop, registry, scenario, audited, process, history>>

(* A mutant of Expired: nothing ever is. *)
NeverExpires(p) == FALSE

Expired(p) == p # None /\ p.age > TTL

(* _expire *)
Expire(states) == [s \in States |-> IF Expired(states[s]) THEN None ELSE states[s]]

(* install_url: a fresh state for this shop. *)
BeginInstall ==
  /\ Serving /\ Spend("installs")
  /\ \E s \in States, d \in Shops :
       /\ asked[s] = None
       /\ asked' = [asked EXCEPT ![s] = [shop |-> d, age |-> 0]]
       /\ pending' = Expire([pending EXCEPT ![s] = [shop |-> d, age |-> 0]])
  /\ UNCHANGED <<database, startup, build, callback, admitted, exchanged>>

(* A mutant of Popped: the state is read and stays. *)
ReadOnly(s) == Expire(pending)

(* A used state is gone, whether or not it was the right shop's. *)
Popped(s) == [Expire(pending) EXCEPT ![s] = None]

(* shopify_callback up to its first await.  A request that is not signed   *)
(* does not touch the states.                                              *)
ReceiveCallback(c) ==
  /\ Serving /\ callback[c] = Idle /\ Spend("callbacks")
  /\ \E s \in States, d \in Shops, signed \in BOOLEAN :
       LET admits == /\ signed
                     /\ Expire(pending)[s] # None
                     /\ Expire(pending)[s].shop = d
       IN /\ pending' = IF signed THEN Popped(s) ELSE pending
          /\ callback' = IF admits
                         THEN [callback EXCEPT ![c] = [at |-> "exchange", state |-> s, shop |-> d]]
                         ELSE callback
          /\ admitted' = IF admits THEN [admitted EXCEPT ![s] = @ + 1] ELSE admitted
  /\ UNCHANGED <<database, startup, build, asked, exchanged>>

(* exchange_code: the token, or an error that ends the request. *)
ExchangeCode(c) ==
  /\ Serving /\ callback[c].at = "exchange"
  /\ \/ /\ callback' = [callback EXCEPT ![c].at = "register"]
        /\ exchanged' = exchanged \cup {callback[c].shop}
     \/ callback' = [callback EXCEPT ![c] = Idle] /\ UNCHANGED exchanged
  /\ UNCHANGED <<database, startup, build, pending, asked, admitted, left>>

(* register_webhooks: a topic that is refused is only noted. *)
RegisterWebhooks(c) ==
  /\ Serving /\ callback[c].at = "register"
  /\ callback' \in {[callback EXCEPT ![c].at = "record"], [callback EXCEPT ![c] = Idle]}
  /\ UNCHANGED <<database, startup, build, pending, history, left>>

(* A mutant of RecordInstall: as soon as the state was accepted. *)
RecordsAtOnce(c) ==
  /\ Serving /\ callback[c].at \in {"exchange", "record"}
  /\ callback' = [callback EXCEPT ![c] = Idle]
  /\ shop' = [domain |-> callback[c].shop, demo |-> FALSE]
  /\ audited' = audited \cup {callback[c].shop}
  /\ UNCHANGED <<organisation, shops, registry, connectors, scenario, startup, build, pending,
                 history, left>>

(* The shop's row and the audit entry, one commit. *)
RecordInstall(c) ==
  /\ Serving /\ callback[c].at = "record"
  /\ callback' = [callback EXCEPT ![c] = Idle]
  /\ shop' = [domain |-> callback[c].shop, demo |-> FALSE]
  /\ audited' = audited \cup {callback[c].shop}
  /\ UNCHANGED <<organisation, shops, registry, connectors, scenario, startup, build, pending,
                 history, left>>

Start(u) == FindTenant(u) \/ AddTenant(u)

StartApi == Start("api") \/ SyncRules \/ SyncConnectors \/ SyncScenario

Requests ==
  \/ TestConnector \/ BeginInstall
  \/ \E c \in Callbacks :
       ReceiveCallback(c) \/ ExchangeCode(c) \/ RegisterWebhooks(c) \/ RecordInstall(c)

-----------------------------------------------------------------------------
(* The end of a process: what it held in memory is gone.                   *)

Forget(next) ==
  /\ Goto("api", next)
  /\ pending' = [s \in States |-> None]
  /\ callback' = [c \in Callbacks |-> Idle]

(* Time passes for the states. *)
Older(p) == IF p = None \/ p.age > TTL THEN p ELSE [p EXCEPT !.age = @ + 1]

Age ==
  /\ pending' = [s \in States |-> Older(pending[s])]
  /\ asked' = [s \in States |-> Older(asked[s])]

-----------------------------------------------------------------------------
(* Properties.                                                             *)

InstallTypeOK ==
  /\ organisation \in BOOLEAN /\ shops \in Nat
  /\ shop \in [domain : Shops \cup {DemoShop, None}, demo : BOOLEAN]
  /\ registry \in [Rules \X Versions -> Sources \cup {None}]
  /\ connectors \in [Kinds -> {None, "healthy", "pending", "failed", "degraded"}]
  /\ scenario \in BOOLEAN /\ audited \subseteq Shops
  /\ startup \in [{"api"} \cup Scripts ->
       {"idle", "down", "tenant", "no_organisation", "no_shop", "rules", "connectors",
        "scenario", "serving"}]
  /\ build \in Builds
  /\ pending \in [States -> [shop : Shops, age : 0 .. TTL + 1] \cup {None}]
  /\ callback \in [Callbacks -> [at : {"exchange", "register", "record"}, state : States,
                                 shop : Shops] \cup {Idle}]
  /\ asked \in [States -> [shop : Shops, age : 0 .. TTL + 1] \cup {None}]
  /\ admitted \in [States -> Nat]
  /\ exchanged \subseteq Shops
  /\ left \in Scenario

(* models.py has no unique key for shops: the organisation's slug, and the *)
(* common commit, keep racing processes from making a second shop.         *)
OneTenant == shops = (IF organisation THEN 1 ELSE 0)

(* main.py, lifespan: "the tables can never claim a version the code       *)
(* disagrees with".  While the API serves, every rule's current version    *)
(* has the running code's checksum, through deploys, roll-backs and        *)
(* interrupted starts; and the tenant, connectors and scenario are there.  *)
ServingIsReady ==
  Serving =>
    /\ \A r \in Rules : registry[<<r, build[r].version>>] = build[r].checksum
    /\ organisation /\ scenario /\ \A k \in Kinds : connectors[k] # None

(* shopify_oauth.py: "Single-use: a replayed state is rejected".  A        *)
(* callback is let through at most once for a state, for the shop it was   *)
(* made for and in its time, whatever is pending, replayed or restarted.   *)
AdmittedOnce ==
  [][\A s \in States : admitted'[s] # admitted[s] =>
       /\ admitted[s] = 0 /\ asked[s] # None /\ asked[s].age <= TTL
       /\ \E c \in Callbacks : callback'[c].state = s /\ callback'[c].shop = asked[s].shop]_install

(* A shop that the row calls installed was asked for by an operator, gave  *)
(* a token, and is in the audit log.                                       *)
InstalledIsReal ==
  ~shop.demo =>
    /\ shop.domain \in exchanged \cap audited
    /\ \E s \in States : asked[s] # None /\ asked[s].shop = shop.domain /\ admitted[s] = 1
=============================================================================
