-------------------------------- MODULE Host --------------------------------
(***************************************************************************)
(* The host: the API process of ShopInstall, DataHub's containers and      *)
(* Caddy, what can happen to them, and the watchdog that probes them every *)
(* five minutes.  A tick of the clock is one such period.                  *)
(***************************************************************************)
EXTENDS ShopInstall

CONSTANTS
  Cooldown,  \* ticks between two restarts of a service
  MaxStart   \* ticks a start takes at most

Services == {"datahub", "comgu", "caddy"}

ASSUME HostAssumption == Cooldown \in Nat /\ MaxStart \in Nat

VARIABLES
  hung,      \* the API process is there and does not answer
  datahub,   \* up, stopped, or running without an answer
  caddy,     \* active or not
  poll,      \* what the watchdog looks at next
  fails,     \* per service: consecutive failures, 2 for more
  since,     \* per service: ticks since its last restart, Cooldown for more
  starting,  \* how many ticks the API's start has lasted
  starter    \* history: who began it

watchdog == <<poll, fails, since>>
host     == <<hung, datahub, caddy, starting, starter>>
vars     == <<install, watchdog, host>>

Init ==
  /\ InstallInit
  /\ hung = FALSE /\ datahub = "up" /\ caddy = "active"
  /\ poll = "idle"
  /\ fails = [x \in Services |-> 0]
  /\ since = [x \in Services |-> Cooldown]
  /\ starting = 0 /\ starter = "boot"

Starting == startup["api"] \notin {"down", "serving"}

-----------------------------------------------------------------------------
(* The API process.                                                        *)

StartUp ==
  /\ StartApi
  /\ UNCHANGED <<watchdog, host>>

Script ==
  /\ \E u \in Scripts : RunScript(u) \/ Start(u)
  /\ UNCHANGED <<watchdog, host>>

(* A process that hangs answers nothing. *)
Handle ==
  /\ ~hung /\ Requests
  /\ UNCHANGED <<watchdog, host>>

Restart(who) ==
  /\ Forget("tenant")
  /\ hung' = FALSE /\ starting' = 0 /\ starter' = who
  /\ UNCHANGED <<database, history>>

(* The process dies, or hangs. *)
Fail ==
  /\ startup["api"] # "down" /\ Spend("faults")
  /\ \/ Forget("down") /\ hung' = FALSE
     \/ Serving /\ hung' = TRUE /\ UNCHANGED <<startup, pending, callback>>
  /\ UNCHANGED <<database, build, history, watchdog, datahub, caddy, starting, starter>>

(* Other code is installed and the service restarted. *)
Deploy ==
  /\ Spend("deploys")
  /\ build' \in Builds
  /\ Restart("deploy")
  /\ UNCHANGED <<watchdog, datahub, caddy>>

Outage ==
  /\ Spend("outages")
  /\ \/ datahub' \in {"stopped", "hung"} /\ UNCHANGED caddy
     \/ caddy' = "inactive" /\ UNCHANGED datahub
  /\ UNCHANGED <<database, process, history, watchdog, hung, starting, starter>>

-----------------------------------------------------------------------------
(* watchdog.sh                                                             *)

Min2(n) == IF n > 2 THEN 2 ELSE n

(* failed_twice counts the failure, or forgets them all. *)
Count(x, ok) == fails' = [fails EXCEPT ![x] = IF ok THEN 0 ELSE Min2(@ + 1)]

CooledDown(x) == since[x] >= Cooldown

(* A mutant of Acts: at the second failure and no later one. *)
ActsOnce(x, ok) == ~ok /\ fails[x] = 1 /\ CooledDown(x)

Acts(x, ok) == ~ok /\ fails[x] >= 1 /\ CooledDown(x)

(* A mutant of MarkRestart: the time of the restart is not kept. *)
Unmarked(x) == UNCHANGED since

MarkRestart(x) == since' = [since EXCEPT ![x] = 0]

(* The timer fires again five minutes after the last run. *)
Tick ==
  /\ poll = "idle"
  /\ Starting => starting < MaxStart
  /\ poll' = "datahub"
  /\ since' = [x \in Services |-> IF since[x] < Cooldown THEN since[x] + 1 ELSE Cooldown]
  /\ starting' = IF Starting THEN starting + 1 ELSE 0
  /\ Age
  /\ UNCHANGED <<database, startup, build, callback, admitted, exchanged, left, fails, hung,
                 datahub, caddy, starter>>

(* A probe of something that works may take too long. *)
Probe(works) ==
  \/ UNCHANGED left
  \/ works /\ Spend("slow")

(* docker start: a container that runs, answering or not, stays as it is.  *)
PollDataHub ==
  /\ poll = "datahub" /\ poll' = "comgu"
  /\ Probe(datahub = "up")
  /\ LET ok == datahub = "up" /\ left' = left
     IN /\ Count("datahub", ok)
        /\ IF Acts("datahub", ok)
           THEN /\ MarkRestart("datahub")
                /\ datahub' = IF datahub = "stopped" THEN "up" ELSE datahub
           ELSE UNCHANGED <<datahub, since>>
  /\ UNCHANGED <<database, process, history, hung, caddy, starting, starter>>

(* systemctl restart comgu *)
PollComgu ==
  /\ poll = "comgu" /\ poll' = "caddy"
  /\ Probe(Serving /\ ~hung)
  /\ LET ok == Serving /\ ~hung /\ left' = left
     IN /\ Count("comgu", ok)
        /\ IF Acts("comgu", ok)
           THEN MarkRestart("comgu") /\ Restart("watchdog")
           ELSE UNCHANGED <<database, startup, pending, callback, history, since, hung, starting,
                            starter>>
  /\ UNCHANGED <<build, datahub, caddy>>

(* Caddy is restarted at its first failure. *)
PollCaddy ==
  /\ poll = "caddy" /\ poll' = "idle"
  /\ IF caddy = "inactive" /\ CooledDown("caddy")
     THEN MarkRestart("caddy") /\ caddy' = "active"
     ELSE UNCHANGED <<since, caddy>>
  /\ UNCHANGED <<install, fails, hung, datahub, starting, starter>>

Poll == PollDataHub \/ PollComgu \/ PollCaddy

Next ==
  \/ StartUp \/ Script \/ Handle
  \/ Fail \/ Deploy \/ Outage
  \/ Tick \/ Poll

Spec == Init /\ [][Next]_vars

(* The timer fires, the watchdog's run ends and a start goes on. *)
FairSpec == Spec /\ WF_vars(Tick) /\ WF_vars(Poll) /\ WF_vars(StartUp)

-----------------------------------------------------------------------------
(* Properties.                                                             *)

TypeOK ==
  /\ InstallTypeOK
  /\ hung \in BOOLEAN
  /\ datahub \in {"up", "stopped", "hung"} /\ caddy \in {"active", "inactive"}
  /\ poll \in {"idle", "datahub", "comgu", "caddy"}
  /\ fails \in [Services -> 0 .. 2]
  /\ since \in [Services -> 0 .. Cooldown]
  /\ starting \in 0 .. MaxStart
  /\ starter \in {"boot", "deploy", "watchdog"}

(* watchdog.sh: "a watchdog that restarts eagerly turns a slow start into  *)
(* a restart loop".  A start that the watchdog made is never cut off by    *)
(* the watchdog, if it takes no longer than the cooldown.                  *)
NoRestartLoop ==
  [][Starting /\ starter = "watchdog" /\ poll = "comgu" =>
       starting' = starting \/ starter' = "deploy"]_vars

(* watchdog.sh, "Self-heal": an API process that died, hung or lost its    *)
(* start to a script serves again, and DataHub's containers and Caddy come *)
(* back when they stop.                                                    *)
Heals ==
  /\ [](startup["api"] = "down" \/ hung => <>(Serving /\ ~hung))
  /\ [](datahub = "stopped" => <>(datahub # "stopped"))
  /\ [](caddy = "inactive" => <>(caddy = "active"))
=============================================================================
