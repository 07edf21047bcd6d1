----------------------------- MODULE HostProofs -----------------------------
(***************************************************************************)
(* Proofs about Host and the installs in it, for any number of shops,      *)
(* states, callbacks, scripts, rules, builds and scenarios.                *)
(***************************************************************************)
EXTENDS Host, TLAPS

Steps ==
  {"idle", "down", "tenant", "no_organisation", "no_shop", "rules", "connectors",
   "scenario", "serving"}

PendingType == [shop : Shops, age : 0 .. TTL + 1]

CallbackType ==
  [at : {"exchange", "register", "record"}, state : States, shop : Shops] \cup {Idle}

WatchdogTypeOK ==
  /\ poll \in {"idle", "datahub", "comgu", "caddy"}
  /\ fails \in [Services -> 0 .. 2]
  /\ since \in [Services -> 0 .. Cooldown]

HostTypeOK ==
  /\ hung \in BOOLEAN
  /\ datahub \in {"up", "stopped", "hung"} /\ caddy \in {"active", "inactive"}
  /\ starting \in 0 .. MaxStart
  /\ starter \in {"boot", "deploy", "watchdog"}

(* What is left of a scenario stays one.                                   *)
LEMMA SpendType ==
  ASSUME left \in Scenario,
         NEW what \in {"installs", "callbacks", "scripts", "tests", "faults", "deploys", "slow",
                       "outages"},
         Spend(what)
  PROVE  left' \in Scenario
<1>1. left[what] - 1 \in Nat
  BY DEF Scenario, Spend
<1>2. left' = [left EXCEPT ![what] = left[what] - 1]
  BY DEF Spend
<1> QED BY <1>1, <1>2 DEF Scenario

(* Initially every variable has its type.                                  *)
LEMMA TypeInit == Init => TypeOK
<1> SUFFICES ASSUME Init PROVE TypeOK
  OBVIOUS
<1>1. left \in Scenario
  BY InstallAssumption DEF Init, InstallInit
<1>2. InstallTypeOK
  BY <1>1, InstallAssumption DEF Init, InstallInit, InstallTypeOK
<1>3. WatchdogTypeOK
  BY HostAssumption DEF Init, WatchdogTypeOK
<1>4. starting \in 0 .. MaxStart
  BY HostAssumption DEF Init
<1>5. HostTypeOK
  BY <1>4 DEF Init, HostTypeOK
<1> QED BY <1>2, <1>3, <1>5 DEF TypeOK, WatchdogTypeOK, HostTypeOK

(* The steps of a process that starts.                                     *)
LEMMA StartType ==
  ASSUME InstallTypeOK, NEW u \in {"api"} \cup Scripts, Start(u)
  PROVE  InstallTypeOK'
<1>1. startup' \in [{"api"} \cup Scripts -> Steps]
  BY DEF InstallTypeOK, Steps, Start, FindTenant, AddTenant, AfterTenant, Goto
<1>2. shops' \in Nat /\ shop' \in [domain : Shops \cup {DemoShop, None}, demo : BOOLEAN]
  <2>1. CASE FindTenant(u)
    BY <2>1 DEF FindTenant, database, InstallTypeOK
  <2>2. CASE AddTenant(u)
    <3>1. CASE UNCHANGED <<shops, shop>>
      BY <3>1 DEF InstallTypeOK
    <3>2. CASE AddShop
      BY <3>2 DEF AddShop, InstallTypeOK
    <3> QED BY <2>2, <3>1, <3>2 DEF AddTenant
  <2> QED BY <2>1, <2>2 DEF Start
<1> QED BY <1>1, <1>2
  DEF InstallTypeOK, Steps, Start, FindTenant, AddTenant, database, history

(* The API's start-up keeps the types.                                     *)
LEMMA StartApiType == InstallTypeOK /\ StartApi => InstallTypeOK'
<1> SUFFICES ASSUME InstallTypeOK, StartApi PROVE InstallTypeOK'
  OBVIOUS
<1>1. CASE Start("api")
  BY <1>1, StartType
<1>2. CASE SyncRules
  <2>1. registry' \in [Rules \X Versions -> Sources \cup {None}]
    <3>1. \A r \in Rules : build[r].checksum \in Sources
      BY InstallAssumption DEF InstallTypeOK, Implementation
    <3> QED BY <1>2, <3>1 DEF SyncRules, InstallTypeOK
  <2> QED BY <1>2, <2>1 DEF SyncRules, InstallTypeOK, Goto, history
<1>3. CASE SyncConnectors
  BY <1>3 DEF SyncConnectors, InstallTypeOK, Goto, history
<1>4. CASE SyncScenario
  BY <1>4 DEF SyncScenario, InstallTypeOK, Goto, history
<1> QED BY <1>1, <1>2, <1>3, <1>4 DEF StartApi

(* The steps of a request.                                                 *)
LEMMA RequestType == InstallTypeOK /\ Requests => InstallTypeOK'
<1> SUFFICES ASSUME InstallTypeOK, Requests PROVE InstallTypeOK'
  OBVIOUS
<1>0. TTL \in Nat /\ \A s \in States : pending[s] # None => pending[s] \in PendingType
  BY InstallAssumption DEF InstallTypeOK, PendingType
<1>1. CASE TestConnector
  <2>1. left' \in Scenario
    BY <1>1, SpendType DEF TestConnector, InstallTypeOK
  <2>2. connectors' \in [Kinds -> {None, "healthy", "pending", "failed", "degraded"}]
    <3>1. \A k \in DOMAIN Failure : Failure[k] \in {"failed", "degraded"}
      BY DEF Failure
    <3>2. PICK k \in Configured \cap DOMAIN Failure, ok \in BOOLEAN :
            connectors' = [connectors EXCEPT ![k] = IF ok THEN "healthy" ELSE Failure[k]]
      BY <1>1 DEF TestConnector
    <3> QED BY <3>1, <3>2 DEF InstallTypeOK
  <2> QED BY <1>1, <2>1, <2>2 DEF TestConnector, InstallTypeOK, process, history
<1>2. CASE BeginInstall
  <2>1. left' \in Scenario
    BY <1>2, SpendType DEF BeginInstall, InstallTypeOK
  <2>2. PICK s \in States, d \in Shops :
          /\ asked' = [asked EXCEPT ![s] = [shop |-> d, age |-> 0]]
          /\ pending' = Expire([pending EXCEPT ![s] = [shop |-> d, age |-> 0]])
    BY <1>2 DEF BeginInstall
  <2>3. [shop |-> d, age |-> 0] \in PendingType
    BY <1>0 DEF PendingType
  <2>4. asked' \in [States -> PendingType \cup {None}]
    BY <2>2, <2>3 DEF InstallTypeOK, PendingType
  <2>5. pending' \in [States -> PendingType \cup {None}]
    BY <2>2, <2>3 DEF InstallTypeOK, PendingType, Expire
  <2> QED BY <1>2, <2>1, <2>4, <2>5 DEF BeginInstall, InstallTypeOK, database, PendingType
<1>3. ASSUME NEW c \in Callbacks, ReceiveCallback(c) PROVE InstallTypeOK'
  <2>1. left' \in Scenario
    BY <1>3, SpendType DEF ReceiveCallback, InstallTypeOK
  <2>2. pending' \in [States -> PendingType \cup {None}]
    BY <1>3 DEF ReceiveCallback, InstallTypeOK, PendingType, Popped, Expire
  <2>3. callback' \in [Callbacks -> CallbackType]
    BY <1>3 DEF ReceiveCallback, InstallTypeOK, CallbackType
  <2>4. admitted' \in [States -> Nat]
    BY <1>3 DEF ReceiveCallback, InstallTypeOK
  <2> QED BY <1>3, <2>1, <2>2, <2>3, <2>4
    DEF ReceiveCallback, InstallTypeOK, database, PendingType, CallbackType
<1>4. ASSUME NEW c \in Callbacks, ExchangeCode(c) \/ RegisterWebhooks(c) PROVE InstallTypeOK'
  <2>1. /\ callback[c] \in CallbackType \ {Idle}
        /\ \A at \in {"register", "record"} : [callback[c] EXCEPT !.at = at] \in CallbackType
    BY <1>4 DEF ExchangeCode, RegisterWebhooks, InstallTypeOK, CallbackType, Idle
  <2>2. \E x \in CallbackType : callback' = [callback EXCEPT ![c] = x]
    BY <1>4, <2>1 DEF ExchangeCode, RegisterWebhooks, CallbackType
  <2>3. callback' \in [Callbacks -> CallbackType]
    BY <2>2 DEF InstallTypeOK, CallbackType
  <2>4. exchanged' \subseteq Shops
    BY <1>4, <2>1 DEF ExchangeCode, RegisterWebhooks, InstallTypeOK, history, CallbackType, Idle
  <2> QED BY <1>4, <2>3, <2>4
    DEF ExchangeCode, RegisterWebhooks, InstallTypeOK, database, history, CallbackType
<1>5. ASSUME NEW c \in Callbacks, RecordInstall(c) PROVE InstallTypeOK'
  <2>1. callback[c].shop \in Shops
    BY <1>5 DEF RecordInstall, InstallTypeOK, Idle
  <2>2. callback' \in [Callbacks -> CallbackType]
    BY <1>5 DEF RecordInstall, InstallTypeOK, CallbackType
  <2> QED BY <1>5, <2>1, <2>2 DEF RecordInstall, InstallTypeOK, history, CallbackType
<1> QED BY <1>1, <1>2, <1>3, <1>4, <1>5 DEF Requests

(* A process that ends and, if anything, starts again.                     *)
LEMMA ForgetType ==
  ASSUME InstallTypeOK, NEW next \in Steps, Forget(next)
  PROVE  /\ startup' \in [{"api"} \cup Scripts -> Steps]
         /\ pending' \in [States -> PendingType \cup {None}]
         /\ callback' \in [Callbacks -> CallbackType]
BY DEF Forget, Goto, InstallTypeOK, Steps, CallbackType

(* Time passes, and nothing else happens to a state.                       *)
LEMMA AgeType ==
  ASSUME InstallTypeOK, Age
  PROVE  /\ pending' \in [States -> PendingType \cup {None}]
         /\ asked' \in [States -> PendingType \cup {None}]
<1>1. ASSUME NEW p \in PendingType \cup {None} PROVE Older(p) \in PendingType \cup {None}
  <2>1. CASE p = None \/ p.age > TTL
    BY <2>1 DEF Older
  <2>2. CASE p # None /\ ~(p.age > TTL)
    <3>1. p.age + 1 \in 0 .. TTL + 1
      BY <2>2, InstallAssumption DEF PendingType
    <3>2. [p EXCEPT !.age = @ + 1] \in PendingType
      BY <2>2, <3>1 DEF PendingType
    <3> QED BY <2>2, <3>2 DEF Older
  <2> QED BY <2>1, <2>2
<1>2. \A s \in States : pending[s] \in PendingType \cup {None} /\ asked[s] \in PendingType \cup {None}
  BY DEF InstallTypeOK, PendingType
<1> QED BY <1>1, <1>2 DEF Age

(* What happens to the processes of the host.                              *)
LEMMA WorldType == TypeOK /\ (Fail \/ Deploy \/ Outage) => TypeOK'
<1> SUFFICES ASSUME TypeOK, Fail \/ Deploy \/ Outage PROVE TypeOK'
  OBVIOUS
<1>0. InstallTypeOK /\ HostTypeOK /\ WatchdogTypeOK
  BY DEF TypeOK, HostTypeOK, WatchdogTypeOK
<1>1. left' \in Scenario
  BY <1>0, SpendType DEF Fail, Deploy, Outage, InstallTypeOK
<1>2. /\ startup' \in [{"api"} \cup Scripts -> Steps]
      /\ pending' \in [States -> PendingType \cup {None}]
      /\ callback' \in [Callbacks -> CallbackType]
  <2>1. CASE UNCHANGED <<startup, pending, callback>>
    BY <1>0, <2>1 DEF InstallTypeOK, Steps, PendingType, CallbackType
  <2>2. CASE Forget("down") \/ Forget("tenant")
    BY <1>0, <2>2, ForgetType DEF Steps
  <2> QED BY <2>1, <2>2 DEF Fail, Deploy, Outage, Restart, process
<1>3. build' \in Builds
  BY <1>0 DEF Fail, Deploy, Outage, process, InstallTypeOK
<1>4. UNCHANGED <<database, history>>
  BY DEF Fail, Deploy, Outage, Restart
<1>5. InstallTypeOK'
  BY <1>0, <1>1, <1>2, <1>3, <1>4
  DEF InstallTypeOK, database, history, Steps, PendingType, CallbackType
<1>6. starting' \in 0 .. MaxStart
  BY <1>0, HostAssumption DEF Fail, Deploy, Outage, Restart, HostTypeOK
<1>7. HostTypeOK'
  BY <1>0, <1>6 DEF Fail, Deploy, Outage, Restart, HostTypeOK
<1>8. WatchdogTypeOK'
  BY <1>0 DEF Fail, Deploy, Outage, watchdog, WatchdogTypeOK
<1> QED BY <1>5, <1>7, <1>8 DEF TypeOK, HostTypeOK, WatchdogTypeOK

(* The timer and the three probes.                                         *)
LEMMA WatchdogType == TypeOK /\ (Tick \/ Poll) => TypeOK'
<1> SUFFICES ASSUME TypeOK, Tick \/ Poll PROVE TypeOK'
  OBVIOUS
<1>0. InstallTypeOK /\ HostTypeOK /\ WatchdogTypeOK
  BY DEF TypeOK, HostTypeOK, WatchdogTypeOK
<1>1. CASE Tick
  <2>1. InstallTypeOK'
    BY <1>0, <1>1, AgeType DEF Tick, InstallTypeOK, database, PendingType
  <2>2. since' \in [Services -> 0 .. Cooldown]
    BY <1>0, <1>1, HostAssumption DEF Tick, WatchdogTypeOK
  <2>3. WatchdogTypeOK'
    BY <1>0, <1>1, <2>2 DEF Tick, WatchdogTypeOK
  <2>4. starting' \in 0 .. MaxStart
    BY <1>0, <1>1, HostAssumption DEF Tick, HostTypeOK
  <2>5. HostTypeOK'
    BY <1>0, <1>1, <2>4 DEF Tick, HostTypeOK
  <2> QED BY <2>1, <2>3, <2>5 DEF TypeOK, HostTypeOK, WatchdogTypeOK
<1>2. ASSUME NEW x \in Services, NEW ok \in BOOLEAN, Count(x, ok)
      PROVE  fails' \in [Services -> 0 .. 2]
  BY <1>0, <1>2 DEF Count, Min2, WatchdogTypeOK
<1>3. ASSUME NEW x \in Services, MarkRestart(x) PROVE since' \in [Services -> 0 .. Cooldown]
  BY <1>0, <1>3, HostAssumption DEF MarkRestart, WatchdogTypeOK
<1>4. ASSUME NEW works \in BOOLEAN, Probe(works) PROVE left' \in Scenario
  BY <1>0, <1>4, SpendType DEF Probe, InstallTypeOK
<1>5. CASE PollDataHub
  <2>1. left' \in Scenario
    BY <1>4, <1>5 DEF PollDataHub
  <2>2. InstallTypeOK'
    BY <1>0, <1>5, <2>1 DEF PollDataHub, InstallTypeOK, database, process, history
  <2>3. WatchdogTypeOK'
    BY <1>0, <1>2, <1>3, <1>5 DEF PollDataHub, WatchdogTypeOK, Services
  <2>4. HostTypeOK'
    BY <1>0, <1>5 DEF PollDataHub, HostTypeOK
  <2> QED BY <2>2, <2>3, <2>4 DEF TypeOK, HostTypeOK, WatchdogTypeOK
<1>6. CASE PollComgu
  <2>1. left' \in Scenario
    BY <1>4, <1>6 DEF PollComgu
  <2>2. WatchdogTypeOK'
    BY <1>0, <1>2, <1>3, <1>6 DEF PollComgu, WatchdogTypeOK, Services
  <2>3. CASE Restart("watchdog")
    <3>1. InstallTypeOK'
      BY <1>0, <1>6, <2>1, <2>3, ForgetType
      DEF PollComgu, Restart, InstallTypeOK, database, history, Steps, PendingType, CallbackType
    <3>2. starting' \in 0 .. MaxStart
      BY <2>3, HostAssumption DEF Restart
    <3>3. HostTypeOK'
      BY <1>0, <1>6, <2>3, <3>2 DEF PollComgu, Restart, HostTypeOK
    <3> QED BY <2>2, <3>1, <3>3 DEF TypeOK, HostTypeOK, WatchdogTypeOK
  <2>4. CASE UNCHANGED <<database, startup, pending, callback, history, hung, starting, starter>>
    <3>1. InstallTypeOK'
      BY <1>0, <1>6, <2>1, <2>4 DEF PollComgu, InstallTypeOK, database, history
    <3>2. HostTypeOK'
      BY <1>0, <1>6, <2>4 DEF PollComgu, HostTypeOK
    <3> QED BY <2>2, <3>1, <3>2 DEF TypeOK, HostTypeOK, WatchdogTypeOK
  <2> QED BY <1>6, <2>3, <2>4 DEF PollComgu
<1>7. CASE PollCaddy
  <2>1. InstallTypeOK'
    BY <1>0, <1>7 DEF PollCaddy, InstallTypeOK, install, database, process, history
  <2>2. WatchdogTypeOK'
    BY <1>0, <1>3, <1>7 DEF PollCaddy, WatchdogTypeOK, Services
  <2>3. HostTypeOK'
    BY <1>0, <1>7 DEF PollCaddy, HostTypeOK
  <2> QED BY <2>1, <2>2, <2>3 DEF TypeOK, HostTypeOK, WatchdogTypeOK
<1> QED BY <1>1, <1>5, <1>6, <1>7 DEF Poll

(* Every step keeps the types.                                             *)
LEMMA TypeStep == TypeOK /\ [Next]_vars => TypeOK'
<1> SUFFICES ASSUME TypeOK, [Next]_vars PROVE TypeOK'
  OBVIOUS
<1>0. InstallTypeOK
  BY DEF TypeOK
<1>1. ASSUME InstallTypeOK', UNCHANGED <<watchdog, host>> PROVE TypeOK'
  BY <1>1 DEF TypeOK, watchdog, host
<1>2. CASE StartUp
  BY <1>0, <1>1, <1>2, StartApiType DEF StartUp
<1>3. CASE Script
  <2>1. ASSUME NEW u \in Scripts, RunScript(u) PROVE InstallTypeOK'
    <3>1. left' \in Scenario
      BY <1>0, <2>1, SpendType DEF RunScript, InstallTypeOK
    <3> QED BY <1>0, <2>1, <3>1 DEF RunScript, Goto, InstallTypeOK, database, history
  <2> QED BY <1>0, <1>1, <1>3, <2>1, StartType DEF Script
<1>4. CASE Handle
  BY <1>0, <1>1, <1>4, RequestType DEF Handle
<1>5. CASE UNCHANGED vars
  BY <1>1, <1>5, <1>0
  DEF vars, install, database, process, history, InstallTypeOK
<1> QED BY <1>2, <1>3, <1>4, <1>5, WorldType, WatchdogType DEF Next

(* Every variable keeps its type.                                          *)
THEOREM TypeCorrect == Spec => []TypeOK
<1> QED BY TypeInit, TypeStep, PTL DEF Spec

-----------------------------------------------------------------------------
(* The tenant.                                                             *)

(* The steps that look for the tenant and add it are the only ones that    *)
(* touch it; the others leave the starts alone or begin and end one.       *)
LEMMA TenantTouched ==
  ASSUME TypeOK, [Next]_vars
  PROVE  \/ \E u \in {"api"} \cup Scripts : Start(u)
         \/ /\ UNCHANGED <<organisation, shops>>
            /\ \A u \in {"api"} \cup Scripts : startup'[u] # "no_shop" \/ startup'[u] = startup[u]
<1> DEFINE Same == /\ UNCHANGED <<organisation, shops>>
                   /\ \A u \in {"api"} \cup Scripts :
                        startup'[u] # "no_shop" \/ startup'[u] = startup[u]
<1>0. startup \in [{"api"} \cup Scripts -> Steps]
  BY DEF TypeOK, InstallTypeOK, Steps
<1>1. ASSUME NEW u \in {"api"} \cup Scripts, NEW next, Goto(u, next), next # "no_shop",
             UNCHANGED <<organisation, shops>>
      PROVE  Same
  BY <1>0, <1>1 DEF Goto
<1>2. CASE StartUp
  BY <1>1, <1>2 DEF StartUp, StartApi, SyncRules, SyncConnectors, SyncScenario
<1>3. CASE Script
  BY <1>1, <1>3 DEF Script, RunScript, database
<1>4. CASE Handle
  BY <1>4 DEF Handle, Requests, TestConnector, BeginInstall, ReceiveCallback, ExchangeCode,
              RegisterWebhooks, RecordInstall, database, process
<1>5. ASSUME NEW next, Forget(next), next # "no_shop", UNCHANGED database PROVE Same
  BY <1>1, <1>5 DEF Forget, database
<1>6. CASE Fail \/ Deploy \/ Outage
  BY <1>5, <1>6 DEF Fail, Deploy, Outage, Restart, database, process
<1>7. CASE Tick \/ Poll
  BY <1>5, <1>7 DEF Tick, Poll, PollDataHub, PollComgu, PollCaddy, Restart, install, database, process
<1>8. CASE UNCHANGED vars
  BY <1>8 DEF vars, install, database, process
<1> QED BY <1>2, <1>3, <1>4, <1>6, <1>7, <1>8 DEF Next

(* Nobody finds an organisation without its shop: they have one commit.    *)
TenantInv == OneTenant /\ \A u \in {"api"} \cup Scripts : startup[u] # "no_shop"

(* At first there is neither.                                              *)
LEMMA TenantInit == Init => TenantInv
BY DEF Init, InstallInit, TenantInv, OneTenant

(* The organisation and its shop are added in one commit.                  *)
LEMMA TenantStep == TypeOK /\ TenantInv /\ [Next]_vars => TenantInv'
<1> SUFFICES ASSUME TypeOK, TenantInv, [Next]_vars PROVE TenantInv'
  OBVIOUS
<1>0. startup \in [{"api"} \cup Scripts -> Steps] /\ shops \in Nat /\ organisation \in BOOLEAN
  BY DEF TypeOK, InstallTypeOK, Steps
<1>1. ASSUME NEW u \in {"api"} \cup Scripts, Start(u) PROVE TenantInv'
  <2>1. CASE FindTenant(u)
    BY <1>0, <2>1 DEF FindTenant, Goto, AfterTenant, database, TenantInv, OneTenant
  <2>2. CASE AddTenant(u)
    BY <1>0, <2>2 DEF AddTenant, Missing, Goto, AfterTenant, AddShop, TenantInv, OneTenant
  <2> QED BY <1>1, <2>1, <2>2 DEF Start
<1>2. ASSUME UNCHANGED <<organisation, shops>>,
             \A u \in {"api"} \cup Scripts : startup'[u] # "no_shop" \/ startup'[u] = startup[u]
      PROVE  TenantInv'
  BY <1>2 DEF TenantInv, OneTenant
<1> QED BY <1>1, <1>2, TenantTouched

(* However many scripts race the start-up, there is one shop.              *)
THEOREM OneTenantHolds == Spec => []OneTenant
<1>1. TenantInv => OneTenant
  BY DEF TenantInv
<1> QED BY <1>1, TenantInit, TenantStep, TypeCorrect, PTL DEF Spec

-----------------------------------------------------------------------------
(* The tables.                                                             *)

RegistryFits == \A r \in Rules : registry[<<r, build[r].version>>] = build[r].checksum

ConnectorsThere == \A k \in Kinds : connectors[k] # None

(* Each step of the start-up leaves what the next ones rely on.            *)
ReadyInv ==
  /\ startup["api"] \in {"rules", "connectors", "scenario", "serving"} => organisation
  /\ startup["api"] \in {"connectors", "scenario", "serving"} => RegistryFits
  /\ startup["api"] \in {"scenario", "serving"} => ConnectorsThere
  /\ startup["api"] = "serving" => scenario

(* At first nothing is ready.                                              *)
LEMMA ReadyInit == Init => ReadyInv
BY DEF Init, InstallInit, ReadyInv

(* Nothing a step of the start-up has prepared is taken back.              *)
LEMMA ReadyStep == TypeOK /\ ReadyInv /\ [Next]_vars => ReadyInv'
<1> SUFFICES ASSUME TypeOK, ReadyInv, [Next]_vars PROVE ReadyInv'
  OBVIOUS
<1>0. /\ startup \in [{"api"} \cup Scripts -> Steps] /\ organisation \in BOOLEAN
      /\ registry \in [Rules \X Versions -> Sources \cup {None}]
      /\ \A r \in Rules : build[r].version \in Versions /\ build[r].checksum \in Sources
  BY InstallAssumption DEF TypeOK, InstallTypeOK, Steps, Implementation
<1>1. ASSUME UNCHANGED <<registry, build, connectors, scenario>>,
             organisation' = organisation \/ organisation',
             \/ startup'["api"] \in {startup["api"], "tenant", "down", "no_organisation", "no_shop"}
             \/ startup'["api"] = "rules" /\ organisation'
      PROVE  ReadyInv'
  BY <1>1 DEF ReadyInv, RegistryFits, ConnectorsThere
<1>2. ASSUME NEW u \in {"api"} \cup Scripts, Start(u) PROVE ReadyInv'
  <2>1. CASE FindTenant(u)
    BY <1>0, <1>1, <2>1 DEF FindTenant, Goto, AfterTenant, database
  <2>2. CASE AddTenant(u)
    BY <1>0, <1>1, <2>2 DEF AddTenant, Goto, AfterTenant
  <2> QED BY <1>2, <2>1, <2>2 DEF Start
<1>3. CASE SyncRules
  <2>1. RegistryFits'
    BY <1>0, <1>3 DEF SyncRules, RegistryFits
  <2> QED BY <1>0, <1>3, <2>1 DEF SyncRules, Goto, ReadyInv
<1>4. CASE SyncConnectors
  <2>1. ConnectorsThere'
    BY <1>4, InstallAssumption DEF SyncConnectors, ConnectorsThere
  <2> QED BY <1>0, <1>4, <2>1 DEF SyncConnectors, Goto, ReadyInv, RegistryFits
<1>5. CASE SyncScenario
  BY <1>0, <1>5 DEF SyncScenario, Goto, ReadyInv, RegistryFits, ConnectorsThere
<1>6. CASE TestConnector
  <2>1. ConnectorsThere => ConnectorsThere'
    <3>1. \A k \in DOMAIN Failure : Failure[k] \in {"failed", "degraded"}
      BY DEF Failure
    <3>2. PICK k \in Configured \cap DOMAIN Failure, ok \in BOOLEAN :
            connectors' = [connectors EXCEPT ![k] = IF ok THEN "healthy" ELSE Failure[k]]
      BY <1>6 DEF TestConnector
    <3>3. connectors \in [Kinds -> {None, "healthy", "pending", "failed", "degraded"}]
      BY DEF TypeOK, InstallTypeOK
    <3> QED BY <3>1, <3>2, <3>3, InstallAssumption DEF ConnectorsThere
  <2> QED BY <1>6, <2>1 DEF TestConnector, ReadyInv, RegistryFits, process
<1>7. CASE Handle
  BY <1>1, <1>6, <1>7
  DEF Handle, Requests, BeginInstall, ReceiveCallback, ExchangeCode, RegisterWebhooks,
      RecordInstall, database
<1>8. CASE Script
  <2>1. ASSUME NEW u \in Scripts, RunScript(u) PROVE ReadyInv'
    <3>1. startup'["api"] = startup["api"]
      BY <1>0, <2>1, InstallAssumption DEF RunScript, Goto
    <3> QED BY <1>1, <2>1, <3>1 DEF RunScript, database
  <2> QED BY <1>2, <1>8, <2>1 DEF Script
<1>9. ASSUME Forget("down") \/ Forget("tenant") PROVE ReadyInv'
  BY <1>0, <1>9 DEF Forget, Goto, ReadyInv
<1>10. CASE Fail \/ Deploy \/ Outage
  BY <1>1, <1>9, <1>10 DEF Fail, Deploy, Outage, Restart, database, process
<1>11. CASE Tick \/ Poll
  BY <1>1, <1>9, <1>11
  DEF Tick, Poll, PollDataHub, PollComgu, PollCaddy, Restart, install, database, process
<1>12. CASE UNCHANGED vars
  BY <1>1, <1>12 DEF vars, install, database, process
<1> QED BY <1>2, <1>3, <1>4, <1>5, <1>7, <1>8, <1>10, <1>11, <1>12 DEF Next, StartUp, StartApi

(* An API that serves has tables that agree with its code.                 *)
THEOREM ServingIsReadyHolds == Spec => []ServingIsReady
<1>1. ReadyInv => ServingIsReady
  BY DEF ReadyInv, ServingIsReady, Serving, RegistryFits, ConnectorsThere
<1> QED BY <1>1, ReadyInit, ReadyStep, TypeCorrect, PTL DEF Spec

-----------------------------------------------------------------------------
(* The states of pending installs.                                         *)

(* A pending state is the one that was asked for, and nobody was let       *)
(* through on it; a callback that was holds a state that is used up.       *)
AdmitInv ==
  /\ \A s \in States :
       /\ pending[s] # None => asked[s] = pending[s] /\ admitted[s] = 0
       /\ asked[s] = None => admitted[s] = 0
  /\ \A c \in Callbacks : callback[c] # Idle =>
       /\ asked[callback[c].state] # None
       /\ asked[callback[c].state].shop = callback[c].shop
       /\ admitted[callback[c].state] = 1
       /\ callback[c].at # "exchange" => callback[c].shop \in exchanged
  /\ InstalledIsReal

(* At first nothing was asked for.                                         *)
LEMMA AdmitInit == Init => AdmitInv
<1> SUFFICES ASSUME Init PROVE AdmitInv
  OBVIOUS
<1> QED BY DEF Init, InstallInit, AdmitInv, InstalledIsReal

(* What an accepted state stands for is never taken back.                  *)
LEMMA HistoryKept ==
  ASSUME TypeOK, AdmitInv,
         \A s \in States : asked[s] # None => asked'[s] # None /\ asked'[s].shop = asked[s].shop,
         \A s \in States : admitted[s] = 1 => admitted'[s] = 1,
         exchanged \subseteq exchanged', audited \subseteq audited', shop' = shop
  PROVE  /\ InstalledIsReal'
         /\ \A c \in Callbacks : callback[c] # Idle =>
              /\ asked'[callback[c].state] # None
              /\ asked'[callback[c].state].shop = callback[c].shop
              /\ admitted'[callback[c].state] = 1
              /\ callback[c].at # "exchange" => callback[c].shop \in exchanged'
<1>1. \A c \in Callbacks : callback[c] # Idle => callback[c].state \in States
  BY DEF TypeOK, InstallTypeOK
<1> QED BY <1>1 DEF AdmitInv, InstalledIsReal

(* Every step keeps the account of the states.                             *)
LEMMA AdmitStep == TypeOK /\ AdmitInv /\ [Next]_vars => AdmitInv'
<1> SUFFICES ASSUME TypeOK, AdmitInv, [Next]_vars PROVE AdmitInv'
  OBVIOUS
<1>0. /\ pending \in [States -> PendingType \cup {None}]
      /\ asked \in [States -> PendingType \cup {None}]
      /\ callback \in [Callbacks -> CallbackType]
      /\ admitted \in [States -> Nat]
      /\ None \notin PendingType
  <2>1. \A p \in PendingType : p \in [shop : Shops, age : Nat]
    BY InstallAssumption DEF PendingType
  <2> QED BY <2>1, InstallAssumption DEF TypeOK, InstallTypeOK, PendingType, CallbackType
<1>1. ASSUME UNCHANGED <<shop, audited, exchanged, asked, admitted>>,
             \A s \in States : pending'[s] \in {pending[s], None},
             \A c \in Callbacks : callback'[c] \in {callback[c], Idle}
      PROVE  AdmitInv'
  <2>1. InstalledIsReal'
    BY <1>1, HistoryKept
  <2>2. \A c \in Callbacks : callback'[c] # Idle => callback'[c] = callback[c]
    BY <1>1
  <2> QED BY <1>1, <2>1, <2>2 DEF AdmitInv
<1>2. CASE BeginInstall
  <2>1. PICK s \in States, d \in Shops :
          /\ asked[s] = None
          /\ asked' = [asked EXCEPT ![s] = [shop |-> d, age |-> 0]]
          /\ pending' = Expire([pending EXCEPT ![s] = [shop |-> d, age |-> 0]])
    BY <1>2 DEF BeginInstall
  <2>2. [shop |-> d, age |-> 0] \in PendingType
    BY InstallAssumption DEF PendingType
  <2>3. \A t \in States : pending'[t] # None => asked'[t] = pending'[t] /\ admitted[t] = 0
    BY <1>0, <2>1, <2>2 DEF Expire, AdmitInv
  <2>4. \A t \in States : asked[t] # None => asked'[t] = asked[t]
    BY <1>0, <2>1
  <2>5. UNCHANGED <<shop, audited, exchanged, admitted, callback>>
    BY <1>2 DEF BeginInstall, database
  <2>6. \A t \in States : asked'[t] = None => asked[t] = None
    BY <2>4
  <2> QED BY <2>3, <2>4, <2>5, <2>6, HistoryKept DEF AdmitInv
<1>3. ASSUME NEW c \in Callbacks, ReceiveCallback(c) PROVE AdmitInv'
  <2>1. PICK s \in States, d \in Shops, signed \in BOOLEAN :
          LET admits == /\ signed
                        /\ Expire(pending)[s] # None
                        /\ Expire(pending)[s].shop = d
          IN /\ pending' = IF signed THEN Popped(s) ELSE pending
             /\ callback' = IF admits
                            THEN [callback EXCEPT ![c] =
                                    [at |-> "exchange", state |-> s, shop |-> d]]
                            ELSE callback
             /\ admitted' = IF admits THEN [admitted EXCEPT ![s] = @ + 1] ELSE admitted
    BY <1>3 DEF ReceiveCallback
  <2>2. UNCHANGED <<shop, audited, exchanged, asked>>
    BY <1>3 DEF ReceiveCallback, database
  <2>3. \A t \in States : pending'[t] \in {pending[t], None}
    BY <1>0, <2>1 DEF Popped, Expire
  <2>4. CASE UNCHANGED <<callback, admitted>>
    BY <1>1, <2>2, <2>3, <2>4
  <2>5. CASE /\ signed /\ Expire(pending)[s] # None /\ Expire(pending)[s].shop = d
             /\ callback' = [callback EXCEPT ![c] = [at |-> "exchange", state |-> s, shop |-> d]]
             /\ admitted' = [admitted EXCEPT ![s] = @ + 1]
    <3>1. asked[s] = pending[s] /\ asked[s] # None /\ asked[s].shop = d /\ admitted[s] = 0
      BY <1>0, <2>5 DEF Expire, AdmitInv
    <3>2. admitted'[s] = 1 /\ \A t \in States \ {s} : admitted'[t] = admitted[t]
      BY <1>0, <2>5, <3>1
    <3>3. pending'[s] = None
      BY <1>0, <2>1, <2>5 DEF Popped, Expire
    <3>4. \A t \in States : /\ pending'[t] # None => asked'[t] = pending'[t] /\ admitted'[t] = 0
                            /\ asked'[t] = None => admitted'[t] = 0
      BY <2>2, <2>3, <3>1, <3>2, <3>3 DEF AdmitInv
    <3>5. /\ InstalledIsReal'
          /\ \A b \in Callbacks : callback[b] # Idle =>
               /\ asked'[callback[b].state] # None
               /\ asked'[callback[b].state].shop = callback[b].shop
               /\ admitted'[callback[b].state] = 1
               /\ callback[b].at # "exchange" => callback[b].shop \in exchanged'
      <4>1. \A t \in States : admitted[t] = 1 => admitted'[t] = 1
        BY <3>1, <3>2
      <4> QED BY <2>2, <4>1, HistoryKept
    <3>6. callback'[c] = [at |-> "exchange", state |-> s, shop |-> d]
          /\ \A b \in Callbacks \ {c} : callback'[b] = callback[b]
      BY <1>0, <2>5
    <3>7. \A b \in Callbacks : callback'[b] # Idle =>
            /\ asked'[callback'[b].state] # None
            /\ asked'[callback'[b].state].shop = callback'[b].shop
            /\ admitted'[callback'[b].state] = 1
            /\ callback'[b].at # "exchange" => callback'[b].shop \in exchanged'
      BY <2>2, <3>1, <3>2, <3>5, <3>6
    <3> QED BY <3>4, <3>5, <3>7 DEF AdmitInv
  <2> QED BY <2>1, <2>4, <2>5
<1>4. ASSUME NEW c \in Callbacks, ExchangeCode(c) \/ RegisterWebhooks(c) PROVE AdmitInv'
  <2>0. UNCHANGED <<shop, audited, pending, asked, admitted>>
    BY <1>4 DEF ExchangeCode, RegisterWebhooks, database, history
  <2>1. CASE callback' = [callback EXCEPT ![c] = Idle] /\ UNCHANGED exchanged
    BY <1>0, <1>1, <2>0, <2>1
  <2>2. CASE /\ \E at \in {"register", "record"} :
                  callback' = [callback EXCEPT ![c] = [callback[c] EXCEPT !.at = at]]
             /\ callback[c].at \in {"exchange", "register"}
             /\ exchanged' = exchanged \cup {callback[c].shop}
    <3>1. /\ InstalledIsReal'
          /\ \A b \in Callbacks : callback[b] # Idle =>
               /\ asked'[callback[b].state] # None
               /\ asked'[callback[b].state].shop = callback[b].shop
               /\ admitted'[callback[b].state] = 1
               /\ callback[b].at # "exchange" => callback[b].shop \in exchanged'
      BY <2>0, <2>2, HistoryKept
    <3>2. callback[c] # Idle /\ callback[c] \in CallbackType
      BY <1>0, <2>2 DEF Idle
    <3>3. callback'[c].state = callback[c].state /\ callback'[c].shop = callback[c].shop
      BY <1>0, <2>2, <3>2 DEF CallbackType
    <3>4. \A b \in Callbacks \ {c} : callback'[b] = callback[b]
      BY <1>0, <2>2
    <3> QED BY <2>0, <2>2, <3>1, <3>2, <3>3, <3>4 DEF AdmitInv
  <2>3. CASE RegisterWebhooks(c) /\ callback' = [callback EXCEPT ![c].at = "record"]
    <3>1. callback[c] # Idle /\ callback[c].at = "register"
      BY <2>3 DEF RegisterWebhooks, Idle
    <3>2. exchanged' = exchanged \cup {callback[c].shop}
      BY <2>3, <3>1 DEF RegisterWebhooks, history, AdmitInv
    <3> QED BY <2>2, <2>3, <3>1, <3>2
  <2>4. CASE ExchangeCode(c) /\ callback' = [callback EXCEPT ![c].at = "register"]
             /\ exchanged' = exchanged \cup {callback[c].shop}
    BY <2>2, <2>4 DEF ExchangeCode
  <2>5. RegisterWebhooks(c) => UNCHANGED exchanged
    BY DEF RegisterWebhooks, history
  <2> QED BY <1>4, <2>1, <2>3, <2>4, <2>5 DEF ExchangeCode, RegisterWebhooks
<1>5. ASSUME NEW c \in Callbacks, RecordInstall(c) PROVE AdmitInv'
  <2>1. callback[c] # Idle /\ callback[c].at = "record" /\ callback[c].state \in States
    BY <1>0, <1>5 DEF RecordInstall, Idle, CallbackType
  <2>2. UNCHANGED <<pending, asked, admitted, exchanged>>
    BY <1>5 DEF RecordInstall, history
  <2>3. shop'.domain = callback[c].shop /\ callback[c].shop \in audited'
    BY <1>5 DEF RecordInstall
  <2>4. InstalledIsReal'
    BY <2>1, <2>2, <2>3 DEF AdmitInv, InstalledIsReal
  <2>5. \A b \in Callbacks : callback'[b] # Idle => callback'[b] = callback[b]
    BY <1>0, <1>5 DEF RecordInstall
  <2> QED BY <2>2, <2>4, <2>5 DEF AdmitInv
<1>6. CASE Age /\ UNCHANGED <<shop, audited, exchanged, admitted, callback>>
  <2>1. \A p \in PendingType : Older(p) \in PendingType /\ Older(p).shop = p.shop
    <3> SUFFICES ASSUME NEW p \in PendingType PROVE Older(p) \in PendingType /\ Older(p).shop = p.shop
      OBVIOUS
    <3>1. CASE p.age > TTL
      BY <3>1 DEF Older
    <3>2. CASE ~(p.age > TTL)
      <4>1. p.age + 1 \in 0 .. TTL + 1
        BY <3>2, InstallAssumption DEF PendingType
      <4> QED BY <1>0, <3>2, <4>1 DEF Older, PendingType
    <3> QED BY <3>1, <3>2
  <2>2. Older(None) = None
    BY DEF Older
  <2>3. \A s \in States : pending'[s] = Older(pending[s]) /\ asked'[s] = Older(asked[s])
    BY <1>0, <1>6 DEF Age
  <2>4. \A s \in States : /\ asked[s] # None => asked'[s] # None /\ asked'[s].shop = asked[s].shop
                          /\ asked[s] = None => asked'[s] = None
                          /\ pending[s] = None => pending'[s] = None
    BY <1>0, <2>1, <2>2, <2>3
  <2> QED BY <1>6, <2>3, <2>4, HistoryKept DEF AdmitInv
<1>7. ASSUME NEW next, Forget(next), UNCHANGED <<database, history>> PROVE AdmitInv'
  BY <1>1, <1>7 DEF Forget, database, history
<1>8. ASSUME UNCHANGED <<shop, audited, pending, callback, history>> PROVE AdmitInv'
  BY <1>1, <1>8 DEF history
<1>9. CASE StartUp \/ Script
  <2>1. ASSUME NEW u \in {"api"} \cup Scripts, Start(u) PROVE AdmitInv'
    <3>1. CASE FindTenant(u)
      BY <1>8, <3>1 DEF FindTenant, database
    <3>2. CASE AddTenant(u)
      <4>1. UNCHANGED <<audited, pending, callback, history>>
        BY <3>2 DEF AddTenant
      <4>2. CASE UNCHANGED shop
        BY <1>8, <4>1, <4>2
      <4>3. CASE shop' = [domain |-> DemoShop, demo |-> TRUE]
        <5>1. InstalledIsReal'
          BY <4>3 DEF InstalledIsReal
        <5> QED BY <4>1, <5>1 DEF AdmitInv, history
      <4> QED BY <3>2, <4>2, <4>3 DEF AddTenant, AddShop
    <3> QED BY <2>1, <3>1, <3>2 DEF Start
  <2> QED BY <1>8, <1>9, <2>1
      DEF StartUp, StartApi, SyncRules, SyncConnectors, SyncScenario, Script, RunScript, database
<1>10. CASE TestConnector
  BY <1>8, <1>10 DEF TestConnector, process
<1>11. CASE Fail \/ Deploy \/ Outage
  BY <1>7, <1>8, <1>11 DEF Fail, Deploy, Outage, Restart, database, process
<1>12. CASE Tick
  BY <1>6, <1>12 DEF Tick, database
<1>13. CASE Poll
  BY <1>7, <1>8, <1>13
  DEF Poll, PollDataHub, PollComgu, PollCaddy, Restart, install, database, process
<1>14. CASE UNCHANGED vars
  BY <1>8, <1>14 DEF vars, install, database, process
<1> QED BY <1>2, <1>3, <1>4, <1>5, <1>9, <1>10, <1>11, <1>12, <1>13, <1>14 DEF Next, Handle, Requests

(* So it always holds.                                                     *)
LEMMA Admits == Spec => []AdmitInv
<1> QED BY AdmitInit, AdmitStep, TypeCorrect, PTL DEF Spec

(* A shop the row calls installed was asked for and gave a token.          *)
THEOREM InstalledIsRealHolds == Spec => []InstalledIsReal
<1>1. AdmitInv => InstalledIsReal
  BY DEF AdmitInv
<1> QED BY <1>1, Admits, PTL

(* A state admits one callback, for its shop and in its time.              *)
LEMMA AdmitsFresh ==
  TypeOK /\ AdmitInv /\ [Next]_vars =>
    [\A s \in States : admitted'[s] # admitted[s] =>
       /\ admitted[s] = 0 /\ asked[s] # None /\ asked[s].age <= TTL
       /\ \E c \in Callbacks :
            callback'[c].state = s /\ callback'[c].shop = asked[s].shop]_install
<1> DEFINE Fresh ==
  \A s \in States : admitted'[s] # admitted[s] =>
    /\ admitted[s] = 0 /\ asked[s] # None /\ asked[s].age <= TTL
    /\ \E c \in Callbacks : callback'[c].state = s /\ callback'[c].shop = asked[s].shop
<1> SUFFICES ASSUME TypeOK, AdmitInv, [Next]_vars PROVE Fresh \/ UNCHANGED install
  OBVIOUS
<1>0. /\ pending \in [States -> PendingType \cup {None}]
      /\ callback \in [Callbacks -> CallbackType]
      /\ admitted \in [States -> Nat]
      /\ None \notin PendingType
  <2>1. \A p \in PendingType : p \in [shop : Shops, age : Nat]
    BY InstallAssumption DEF PendingType
  <2> QED BY <2>1, InstallAssumption DEF TypeOK, InstallTypeOK, PendingType, CallbackType
<1>1. ASSUME NEW c \in Callbacks, ReceiveCallback(c) PROVE Fresh
  <2>1. PICK s \in States, d \in Shops, signed \in BOOLEAN :
          LET admits == /\ signed
                        /\ Expire(pending)[s] # None
                        /\ Expire(pending)[s].shop = d
          IN /\ callback' = IF admits
                            THEN [callback EXCEPT ![c] =
                                    [at |-> "exchange", state |-> s, shop |-> d]]
                            ELSE callback
             /\ admitted' = IF admits THEN [admitted EXCEPT ![s] = @ + 1] ELSE admitted
    BY <1>1 DEF ReceiveCallback
  <2>2. CASE UNCHANGED admitted
    BY <2>2
  <2>3. CASE /\ Expire(pending)[s] # None /\ Expire(pending)[s].shop = d
             /\ callback' = [callback EXCEPT ![c] = [at |-> "exchange", state |-> s, shop |-> d]]
             /\ admitted' = [admitted EXCEPT ![s] = @ + 1]
    <3>1. pending[s] # None /\ ~Expired(pending[s]) /\ pending[s].shop = d
      BY <2>3 DEF Expire
    <3>2. pending[s] \in PendingType /\ pending[s].age <= TTL
      BY <1>0, <3>1, InstallAssumption DEF Expired, PendingType
    <3>3. admitted[s] = 0 /\ asked[s] = pending[s]
      BY <3>1 DEF AdmitInv
    <3>4. callback'[c].state = s /\ callback'[c].shop = d
      BY <1>0, <2>3
    <3>5. \A t \in States \ {s} : admitted'[t] = admitted[t]
      BY <1>0, <2>3
    <3> QED BY <3>1, <3>2, <3>3, <3>4, <3>5
  <2> QED BY <2>1, <2>2, <2>3
<1>2. CASE UNCHANGED admitted
  BY <1>2
<1>3. CASE Handle
  BY <1>1, <1>2, <1>3
  DEF Handle, Requests, TestConnector, BeginInstall, ExchangeCode, RegisterWebhooks,
      RecordInstall, history
<1>4. CASE StartUp \/ Script
  BY <1>2, <1>4
  DEF StartUp, StartApi, Start, FindTenant, AddTenant, SyncRules, SyncConnectors, SyncScenario,
      Script, RunScript, history
<1>5. CASE Fail \/ Deploy \/ Outage \/ Tick
  BY <1>2, <1>5 DEF Fail, Deploy, Outage, Tick, Restart, history
<1>6. CASE Poll
  BY <1>2, <1>6 DEF Poll, PollDataHub, PollComgu, PollCaddy, Restart, install, history
<1>7. CASE UNCHANGED vars
  BY <1>7 DEF vars
<1> QED BY <1>3, <1>4, <1>5, <1>6, <1>7 DEF Next

(* A state admits one callback, in its time and for the shop it was        *)
(* issued for, whatever arrives, restarts or expires meanwhile.            *)
THEOREM AdmittedOnceHolds == Spec => AdmittedOnce
BY AdmitsFresh, Admits, TypeCorrect, PTL DEF Spec, AdmittedOnce

-----------------------------------------------------------------------------
(* The watchdog and a start of its own.                                    *)

(* A start of the watchdog has lasted at least as long as its cooldown has *)
(* run.                                                                    *)
StartInv == Starting /\ starter = "watchdog" => since["comgu"] <= starting

(* Only the watchdog's own poll begins a start of its own.                 *)
LEMMA StartStep == TypeOK /\ StartInv /\ [Next]_vars => StartInv'
<1> SUFFICES ASSUME TypeOK, StartInv, [Next]_vars PROVE StartInv'
  OBVIOUS
<1>0. /\ startup \in [{"api"} \cup Scripts -> Steps]
      /\ since \in [Services -> 0 .. Cooldown] /\ starting \in 0 .. MaxStart
      /\ "comgu" \in Services
  BY DEF TypeOK, InstallTypeOK, Steps, Services
<1>1. ASSUME UNCHANGED <<starting, starter>>, since'["comgu"] = since["comgu"], Starting' => Starting
      PROVE  StartInv'
  BY <1>1 DEF StartInv
<1>2. CASE StartUp
  <2>1. Starting
    BY <1>2
    DEF StartUp, StartApi, Start, FindTenant, AddTenant, Missing, SyncRules, SyncConnectors,
        SyncScenario, Starting
  <2> QED BY <1>1, <1>2, <2>1 DEF StartUp, watchdog, host
<1>3. CASE Script
  <2>1. startup'["api"] = startup["api"]
    BY <1>0, <1>3, InstallAssumption
    DEF Script, RunScript, Start, FindTenant, AddTenant, Goto
  <2> QED BY <1>1, <1>3, <2>1 DEF Script, watchdog, host, Starting
<1>4. CASE Handle
  <2>1. UNCHANGED startup
    BY <1>4
    DEF Handle, Requests, TestConnector, BeginInstall, ReceiveCallback, ExchangeCode,
        RegisterWebhooks, RecordInstall, process
  <2> QED BY <1>1, <1>4, <2>1 DEF Handle, watchdog, host, Starting
<1>5. CASE Fail
  <2>1. Starting' => Starting
    BY <1>0, <1>5 DEF Fail, Forget, Goto, Starting
  <2> QED BY <1>1, <1>5, <2>1 DEF Fail, watchdog
<1>6. CASE Deploy
  BY <1>6 DEF Deploy, Restart, StartInv
<1>7. CASE Outage
  BY <1>1, <1>7 DEF Outage, process, watchdog, Starting
<1>8. CASE Tick
  <2>1. Starting' <=> Starting
    BY <1>8 DEF Tick, Starting
  <2>2. since'["comgu"] <= since["comgu"] + 1 /\ (Starting => starting' = starting + 1)
    BY <1>0, <1>8, HostAssumption DEF Tick
  <2>3. since'["comgu"] \in Nat /\ since["comgu"] \in Nat /\ starting \in Nat
    BY <1>0, <1>8, HostAssumption DEF Tick
  <2> QED BY <1>8, <2>1, <2>2, <2>3 DEF Tick, StartInv
<1>9. CASE PollComgu
  <2>1. CASE Restart("watchdog") /\ MarkRestart("comgu")
    BY <1>0, <2>1 DEF Restart, MarkRestart, StartInv
  <2>2. CASE UNCHANGED <<startup, since, starting, starter>>
    BY <1>1, <2>2 DEF Starting
  <2> QED BY <1>9, <2>1, <2>2 DEF PollComgu
<1>10. CASE PollDataHub \/ PollCaddy
  <2>1. since'["comgu"] = since["comgu"]
    BY <1>0, <1>10 DEF PollDataHub, PollCaddy, MarkRestart
  <2> QED BY <1>1, <1>10, <2>1 DEF PollDataHub, PollCaddy, process, install, Starting
<1>11. CASE UNCHANGED vars
  BY <1>1, <1>11 DEF vars, install, process, watchdog, host, Starting
<1> QED BY <1>2, <1>3, <1>4, <1>5, <1>6, <1>7, <1>8, <1>9, <1>10, <1>11 DEF Next, Poll

(* As long as it takes no longer than the cooldown, it is not cut off.     *)
LEMMA StartUncut ==
  ASSUME MaxStart < Cooldown
  PROVE  TypeOK /\ StartInv /\ [Next]_vars =>
           [Starting /\ starter = "watchdog" /\ poll = "comgu" =>
              starting' = starting \/ starter' = "deploy"]_vars
<1> SUFFICES ASSUME TypeOK, StartInv, Next, Starting, starter = "watchdog", poll = "comgu"
             PROVE  starting' = starting \/ starter' = "deploy"
  BY DEF vars
<1>1. ~CooledDown("comgu")
  BY HostAssumption DEF CooledDown, TypeOK, StartInv, Services
<1>2. CASE PollComgu
  BY <1>1, <1>2 DEF PollComgu, Acts
<1>3. ~(Tick \/ PollDataHub \/ PollCaddy)
  BY DEF Tick, PollDataHub, PollCaddy
<1>4. CASE StartUp \/ Script \/ Handle \/ Fail \/ Outage
  BY <1>4 DEF StartUp, Script, Handle, Fail, Outage, host
<1>5. CASE Deploy
  BY <1>5 DEF Deploy, Restart
<1> QED BY <1>2, <1>3, <1>4, <1>5 DEF Next, Poll

(* A slow start of the watchdog's does not become a restart loop.          *)
THEOREM NoRestartLoopHolds == ASSUME MaxStart < Cooldown PROVE Spec => NoRestartLoop
<1>1. Init => StartInv
  BY DEF Init, StartInv
<1>2. Spec => []StartInv
  BY <1>1, StartStep, TypeCorrect, PTL DEF Spec
<1> QED BY <1>2, StartUncut, TypeCorrect, PTL DEF Spec, NoRestartLoop
=============================================================================
