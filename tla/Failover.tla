------------------------------- MODULE Failover -------------------------------
(***************************************************************************)
(* HealthChecker and FailoverManager, for one of the services they watch   *)
(* (services share nothing but the switches).  The poll is not guarded     *)
(* against itself: readings of the system's health may be under way side   *)
(* by side and arrive in any order.  Restarts that wait are alike, so that *)
(* they are counted; the action history is kept by its last entry.         *)
(***************************************************************************)
EXTENDS Integers

CONSTANTS
    Services,         \* service names that may be registered
    CriticalServices, \* bot, database, redis: alerted and restarted at once
    Restartable,      \* restartService emits a request; for others it throws
    Recognised,       \* the status compared with is one the service can have
    NoService,        \* nothing registered yet
    UnhealthyAfter, HealthyAfter,  \* thresholds
    MaxAttempts,      \* maxRestartAttempts
    AutoRestart,      \* config.autoRestart
    MaxReadings,      \* bound on readings under way of each outcome
    MaxOutages,       \* bound on how often the service goes down
    MaxSwitches       \* bound on stop, enable, disable, shutdown, unregister

ASSUME FailoverAssumption ==
    /\ NoService \notin Services
    /\ UnhealthyAfter \in Nat \ {0} /\ HealthyAfter \in Nat \ {0}
    /\ MaxAttempts \in Nat /\ AutoRestart \in BOOLEAN
    /\ MaxReadings \in Nat /\ MaxOutages \in Nat /\ MaxSwitches \in Nat

VARIABLES
    service,      \* the service
    up,           \* getSystemHealth would find it well
    listed,       \* it is in serviceStatus
    healthy,      \* its status
    failures, successes,  \* in a row, up to the thresholds
    polling,      \* the interval runs
    readings,     \* polls that have read the service as well or not
    checking,     \* checkServiceHealth: "no", "asked", or what it has read
    failoverOn,   \* config.enabled
    shuttingDown, \* isShuttingDown
    attempts,     \* restartAttempts, 0 if there is no entry
    alerting,     \* critical alerts being sent
    waiting,      \* restarts in their restartDelay
    settling,     \* restarts in the five seconds before the check
    lastAction,   \* last entry of the failover history
    outages, switches  \* counted for the bounds

statusVars == <<listed, healthy, failures, successes>>
recoveryVars == <<attempts, alerting, waiting, settling, lastAction>>
switchVars == <<polling, failoverOn, shuttingDown, switches>>
failoverVars == <<service, up, outages, readings, checking, statusVars,
                  recoveryVars, switchVars>>

-----------------------------------------------------------------------------
(* Mutations: plausible bugs in the definitions below; FailoverNext uses   *)
(* none.                                                                   *)

\* every failure counts as the first of its row
BugUpdate(ok) ==
    /\ successes' = IF ~ok THEN 0
                    ELSE IF successes < HealthyAfter THEN successes + 1 ELSE successes
    /\ failures' = IF ok THEN 0 ELSE 1
    /\ healthy' = IF healthy THEN failures' < UnhealthyAfter
                  ELSE successes' >= HealthyAfter

-----------------------------------------------------------------------------
FailoverInit ==
    /\ service = NoService /\ up = TRUE /\ outages = 0
    /\ listed = FALSE /\ healthy = TRUE /\ failures = 0 /\ successes = 0
    /\ polling = FALSE
    /\ readings = [b \in BOOLEAN |-> 0]
    /\ checking = "no"
    /\ failoverOn = TRUE /\ shuttingDown = FALSE /\ switches = 0
    /\ attempts = 0 /\ alerting = 0 /\ waiting = 0 /\ settling = 0
    /\ lastAction = "none"

\* what a reading says of the service now
Reading == up /\ service \in Recognised

\* updateServiceHealth of a registered service
Update(ok) ==
    /\ successes' = IF ~ok THEN 0
                    ELSE IF successes < HealthyAfter THEN successes + 1 ELSE successes
    /\ failures' = IF ok THEN 0
                   ELSE IF failures < UnhealthyAfter THEN failures + 1 ELSE failures
    /\ healthy' = IF healthy THEN failures' < UnhealthyAfter
                  ELSE successes' >= HealthyAfter

UpdateServiceHealth(ok) ==
    /\ IF listed THEN Update(ok) ELSE UNCHANGED <<healthy, failures, successes>>
    /\ UNCHANGED listed

\* the listeners run inside updateServiceHealth: a service that turns
\* unhealthy is restarted, unless it has had its attempts, and if it is
\* critical an alert goes out that restarts it once more
Heeded == healthy /\ ~healthy' /\ failoverOn /\ ~shuttingDown
GivesUp == attempts >= MaxAttempts \/ ~AutoRestart
Respond(cured) ==
    LET restart == Heeded /\ ~GivesUp
    IN  /\ attempts' = IF cured THEN 0 ELSE IF restart THEN attempts + 1 ELSE attempts
        /\ waiting' = IF restart THEN waiting + 1 ELSE waiting
        /\ alerting' = IF Heeded /\ service \in CriticalServices
                       THEN alerting + 1 ELSE alerting

-----------------------------------------------------------------------------
(* The service.                                                            *)

GoesDown ==
    /\ up /\ outages < MaxOutages
    /\ up' = FALSE /\ outages' = outages + 1
    /\ UNCHANGED <<service, readings, checking, statusVars, recoveryVars, switchVars>>

ComesBack ==
    /\ ~up /\ up' = TRUE
    /\ UNCHANGED <<service, outages, readings, checking, statusVars, recoveryVars,
                   switchVars>>

-----------------------------------------------------------------------------
(* HealthChecker.                                                          *)

\* for the first time, or again after unregisterService: a row of its own,
\* which the readings under way will be counted in; the restart attempts stay
RegisterService(s) ==
    /\ service \in {NoService, s} /\ ~listed
    /\ service' = s /\ listed' = TRUE
    /\ healthy' = TRUE /\ failures' = 0 /\ successes' = 0
    /\ UNCHANGED <<up, outages, readings, checking, recoveryVars, switchVars>>

UnregisterService ==
    /\ listed /\ switches < MaxSwitches
    /\ listed' = FALSE /\ switches' = switches + 1
    /\ UNCHANGED <<service, up, outages, readings, checking, healthy, failures,
                   successes, recoveryVars, polling, failoverOn, shuttingDown>>

\* performHealthChecks up to its reading: at once by start, then at intervals
Poll ==
    /\ service # NoService
    /\ readings[Reading] < MaxReadings
    /\ readings' = [readings EXCEPT ![Reading] = @ + 1]
    /\ UNCHANGED <<service, up, outages, checking, statusVars, recoveryVars>>

StartChecks == ~polling /\ Poll /\ polling' = TRUE
               /\ UNCHANGED <<failoverOn, shuttingDown, switches>>
Interval == polling /\ Poll /\ UNCHANGED switchVars

StopChecks ==
    /\ polling /\ switches < MaxSwitches
    /\ polling' = FALSE /\ switches' = switches + 1
    /\ UNCHANGED <<service, up, outages, readings, checking, statusVars,
                   recoveryVars, failoverOn, shuttingDown>>

\* the reading arrives
PollEnds(ok) ==
    /\ readings[ok] > 0
    /\ readings' = [readings EXCEPT ![ok] = @ - 1]
    /\ UpdateServiceHealth(ok)
    /\ Respond(~healthy /\ healthy')
    /\ lastAction' = IF Heeded /\ GivesUp THEN "notify" ELSE lastAction
    /\ UNCHANGED <<service, up, outages, checking, settling, switchVars>>

-----------------------------------------------------------------------------
(* FailoverManager: attemptServiceRestart.                                 *)

\* the critical alert is out, or has failed: restart, whatever the attempts
CriticalAlertSent ==
    /\ alerting > 0 /\ alerting' = alerting - 1
    /\ IF AutoRestart THEN attempts' = attempts + 1 /\ waiting' = waiting + 1
       ELSE UNCHANGED <<attempts, waiting>>
    /\ UNCHANGED <<service, up, outages, readings, checking, statusVars, settling,
                   lastAction, switchVars>>

\* the delay is over: request a restart, or throw and record the failure
RestartService ==
    /\ waiting > 0 /\ waiting' = waiting - 1
    /\ IF service \in Restartable
       THEN settling' = settling + 1 /\ UNCHANGED lastAction
       ELSE lastAction' = "failed" /\ UNCHANGED settling
    /\ UNCHANGED <<service, up, outages, readings, checking, statusVars, attempts,
                   alerting, switchVars>>

\* checkServiceHealth answers false if a check of the service is running
CheckServiceHealth ==
    /\ settling > 0 /\ settling' = settling - 1
    /\ IF checking = "no" THEN checking' = "asked" /\ UNCHANGED lastAction
       ELSE lastAction' = "failed" /\ UNCHANGED checking
    /\ UNCHANGED <<service, up, outages, readings, statusVars, attempts, alerting,
                   waiting, switchVars>>

CheckReads ==
    /\ checking = "asked"
    /\ checking' = IF Reading THEN "well" ELSE "ill"
    /\ UNCHANGED <<service, up, outages, readings, statusVars, recoveryVars, switchVars>>

\* the check counts as a poll does; the restart is recorded by its answer
CheckEnds ==
    /\ checking \in {"well", "ill"} /\ checking' = "no"
    /\ UpdateServiceHealth(checking = "well")
    /\ Respond(checking = "well")
    /\ lastAction' = IF checking = "well" THEN "restarted" ELSE "failed"
    /\ UNCHANGED <<service, up, outages, readings, settling, switchVars>>

\* enable, disable
SetFailover(on) ==
    /\ failoverOn # on /\ switches < MaxSwitches
    /\ failoverOn' = on /\ switches' = switches + 1
    /\ UNCHANGED <<service, up, outages, readings, checking, statusVars,
                   recoveryVars, polling, shuttingDown>>

\* restarts under way go on
ShutdownFailover ==
    /\ ~shuttingDown /\ switches < MaxSwitches
    /\ shuttingDown' = TRUE /\ failoverOn' = FALSE /\ switches' = switches + 1
    /\ UNCHANGED <<service, up, outages, readings, checking, statusVars,
                   recoveryVars, polling>>

FailoverNext ==
    \/ GoesDown \/ ComesBack
    \/ \E s \in Services : RegisterService(s)
    \/ UnregisterService
    \/ StartChecks \/ Interval \/ StopChecks
    \/ \E ok \in BOOLEAN : PollEnds(ok)
    \/ CriticalAlertSent \/ RestartService
    \/ CheckServiceHealth \/ CheckReads \/ CheckEnds
    \/ \E on \in BOOLEAN : SetFailover(on)
    \/ ShutdownFailover

-----------------------------------------------------------------------------
FailoverTypeOK ==
    /\ service \in Services \cup {NoService}
    /\ up \in BOOLEAN /\ listed \in BOOLEAN /\ healthy \in BOOLEAN
    /\ failures \in 0 .. UnhealthyAfter /\ successes \in 0 .. HealthyAfter
    /\ polling \in BOOLEAN /\ failoverOn \in BOOLEAN /\ shuttingDown \in BOOLEAN
    /\ readings \in [BOOLEAN -> 0 .. MaxReadings]
    /\ checking \in {"no", "asked", "well", "ill"}
    /\ attempts \in Nat /\ alerting \in Nat /\ waiting \in Nat /\ settling \in Nat
    /\ lastAction \in {"none", "notify", "failed", "restarted"}
    /\ outages \in 0 .. MaxOutages /\ switches \in 0 .. MaxSwitches

\* A service that stays down while it is registered and the checks run is
\* found unhealthy and stays so: no late reading of better days, and no check
\* by a restart that came too early, hides it for good.
\* HealthChecker.updateServiceHealth.
OutageNoticed ==
    <>[](listed /\ polling /\ ~up) => <>[]~healthy
=============================================================================
