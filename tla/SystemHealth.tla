----------------------------- MODULE SystemHealth -----------------------------
(***************************************************************************)
(* HealthService.getSystemHealth, a chain of waits whose readings are of   *)
(* different times, and the services it reads: UptimeService, which knows  *)
(* a process only if that very process registered it, and QueueMonitor     *)
(* with the one queue it knows.  What the database, the queue and the      *)
(* gateways (see Gateways) answer is left open.  No latency of the         *)
(* website, the API or the bot is recorded by anybody.                     *)
(***************************************************************************)
EXTENDS Integers

CONSTANTS
    MaxStats,   \* maxHistoryRecords of QueueMonitor
    MaxDown     \* gateways that can be down at a time

ASSUME SystemHealthAssumption == MaxStats \in Nat \ {0} /\ MaxDown \in Nat

VARIABLES
    registered,  \* services in the uptime map of this process
    queueKnown,  \* the reconciliation queue is in the monitor's map
    statsHistory, \* readings kept of it
    reading,     \* what getSystemHealth waits for
    bot, database, gatewaysDown, \* what it has read so far
    report,      \* the status it returned last
    redisReport  \* and that of Redis

healthVars == <<registered, queueKnown, statsHistory, reading, bot, database,
                gatewaysDown, report, redisReport>>
seenVars == <<bot, database, gatewaysDown>>
reportVars == <<report, redisReport>>

Verdicts == {"ok", "degraded", "down"}

-----------------------------------------------------------------------------
HealthInit ==
    /\ registered = {} /\ queueKnown = FALSE /\ statsHistory = 0
    /\ reading = "nothing"
    /\ bot = "down" /\ database = "down" /\ gatewaysDown = 0
    /\ report = "none" /\ redisReport = "none"

\* uptimeService.registerService, by bot/index.ts and api/index.ts
RegisterUptime(s) ==
    /\ s \notin registered
    /\ registered' = registered \cup {s}
    /\ UNCHANGED <<queueKnown, statsHistory, reading, seenVars, reportVars>>

\* QueueMonitor.initialize: the history starts anew
RegisterQueue ==
    /\ queueKnown' = TRUE /\ statsHistory' = 0
    /\ UNCHANGED <<registered, reading, seenVars, reportVars>>

\* checkBotHealth, checkWebsiteHealth and checkApiHealth wait for nothing; of
\* the three only the bot's answer varies
CheckBot == IF "bot" \in registered THEN "ok" ELSE "down"
ApiAnswer == "ok"

GetSystemHealth ==
    /\ reading = "nothing" /\ reading' = "database"
    /\ bot' = CheckBot
    /\ UNCHANGED <<registered, queueKnown, statsHistory, database, gatewaysDown, reportVars>>

\* checkDatabaseHealth: by the time settings.get takes; "down" if it throws
DatabaseAnswers(verdict) ==
    /\ reading = "database" /\ reading' = "redis"
    /\ database' = verdict
    /\ UNCHANGED <<registered, queueKnown, statsHistory, bot, gatewaysDown, reportVars>>

\* counts of a known queue, which are zeros when it has never connected, or
\* null: for any other name, or when it throws.  Without Redis the question may
\* wait for ever.
GetQueueStats(counts) == counts => queueKnown

\* checkRedisHealth; the gateways are read in the same step
RedisAnswers(counts, down) ==
    /\ reading = "redis" /\ reading' = "queues"
    /\ GetQueueStats(counts)
    /\ redisReport' = IF counts THEN "ok" ELSE "degraded"
    /\ gatewaysDown' = down
    /\ UNCHANGED <<registered, queueKnown, statsHistory, bot, database, report>>

\* getAllQueueStats: a reading of a known queue is kept, the oldest goes
RecordStats(counts) ==
    statsHistory' = IF counts /\ statsHistory < MaxStats THEN statsHistory + 1
                    ELSE statsHistory

\* determineOverallStatus; failed stands for more than 100 failed jobs
Overall(failed) ==
    CASE bot = "down" \/ database = "down" -> "down"
      [] bot # "down" /\ database = "degraded" -> "degraded"
      [] bot # "down" /\ database = "ok" ->
             IF ApiAnswer = "degraded" \/ gatewaysDown > 2 \/ failed THEN "degraded" ELSE "ok"

QueuesAnswer(counts, failed) ==
    /\ reading = "queues" /\ reading' = "nothing"
    /\ GetQueueStats(counts)
    /\ failed => counts
    /\ RecordStats(counts)
    /\ report' = Overall(failed)
    /\ UNCHANGED <<registered, queueKnown, seenVars, redisReport>>

\* GET /queue reads and keeps; the other routes only read
GetAllQueueStats(counts) ==
    /\ GetQueueStats(counts)
    /\ RecordStats(counts)
    /\ UNCHANGED <<registered, queueKnown, reading, seenVars, reportVars>>

HealthNext ==
    \/ \E s \in {"bot", "api"} : RegisterUptime(s)
    \/ RegisterQueue \/ GetSystemHealth
    \/ \E verdict \in Verdicts : DatabaseAnswers(verdict)
    \/ \E counts \in BOOLEAN :
           \/ \E down \in 0 .. MaxDown : RedisAnswers(counts, down)
           \/ \E failed \in BOOLEAN : QueuesAnswer(counts, failed)
           \/ GetAllQueueStats(counts)

-----------------------------------------------------------------------------
HealthTypeOK ==
    /\ registered \subseteq {"bot", "api"} /\ queueKnown \in BOOLEAN
    /\ statsHistory \in 0 .. MaxStats
    /\ reading \in {"nothing", "database", "redis", "queues"}
    /\ bot \in Verdicts /\ database \in Verdicts /\ gatewaysDown \in 0 .. MaxDown
    /\ report \in Verdicts \cup {"none"} /\ redisReport \in Verdicts \cup {"none"}
=============================================================================
