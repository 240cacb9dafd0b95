---------------------------- MODULE Reconciliation ----------------------------
(***************************************************************************)
(* ReconcileEngine: a run lists the transactions, asks the payment         *)
(* providers about them batch by batch, compares, and leaves one report    *)
(* file per day.  Runs are asked for by the cron job, by the route, and by *)
(* the job of a BullMQ queue, whose worker tries a failed job again.  One  *)
(* flag in memory lets one run in at a time.  dal.transactions.list does   *)
(* not exist today, so that every run fails when it lists: here it answers *)
(* or throws.                                                              *)
(***************************************************************************)
EXTENDS Integers, FiniteSets, FiniteSetsExt

CONSTANTS
    Txs,            \* transactions
    PaymentOf,      \* paymentId of each
    NoPayment,      \* that of a transaction without one
    Statuses,       \* what the database says of them, of "pending", "paid", "refunded"
    Sizes,          \* values of batchSize and maxConcurrency; 0 stands for all that
                    \* do not count up: zero, a negative number, null
    DefaultSize,    \* that of DEFAULT_RECONCILE_CONFIG
    Attempts,       \* attempts of a job
    ReconcileJobs,  \* bound: jobs that can be added
    MaxReconciles,  \* bound on runs
    MaxChanges,     \* bound on what is done to its configuration, queue,
                    \* process and files
    MaxDays         \* bound on days

ASSUME ReconciliationAssumption ==
    /\ DOMAIN PaymentOf = Txs
    /\ "pending" \in Statuses /\ Statuses \subseteq {"pending", "paid", "refunded"}
    /\ Sizes \subseteq Nat /\ DefaultSize \in Sizes \ {0} /\ Attempts \in Nat \ {0}
    /\ MaxReconciles \in Nat /\ MaxChanges \in Nat /\ MaxDays \in Nat \ {0}
    /\ ReconcileJobs \cap {"none", "cron", "route"} = {}

VARIABLES
    isRunning,
    phase,       \* what the run waits for
    owner,       \* who asked for it
    startDay,    \* its startTime
    listed,      \* status of each transaction it has read
    size,        \* of its batches
    left,        \* those not asked about yet
    asking,      \* those of the batch whose answer is awaited
    found,       \* mismatches
    status,      \* of its report
    reports,     \* file of each day
    enabled,     \* config.enabled
    batchSize,   \* config.batchSize
    maxConcurrency, \* config.maxConcurrency
    updating,    \* updates of the configuration that are being saved
    cronOn,      \* the cron job is scheduled
    queue,       \* BullMQ's queue and worker
    job,         \* state of each job
    tries,       \* attempts it has had
    today, runs, changes \* bounded counters

resultVars == <<listed, size, left, asking, found, status>>
runVars == <<isRunning, phase, owner, startDay, resultVars>>
configVars == <<enabled, batchSize, maxConcurrency, updating, cronOn>>
queueVars == <<queue, job, tries>>
reconciliationVars == <<runVars, reports, configVars, queueVars, today, runs, changes>>

\* what an adapter says, or Failure when it throws or there is none
Data(s, a) == [status |-> s, amount |-> a]
Failure == Data("error", "none")
Answers == [status : {"pending", "paid"}, amount : {"same", "off"}] \cup {Failure}
NoData == Data("none", "none")

-----------------------------------------------------------------------------
(* Mutations: plausible bugs in the definitions below; ReconciliationNext  *)
(* uses none.                                                              *)

\* the flag is reset where the run is completed, not when it fails
BugLeave == isRunning' = (status = "failed")

-----------------------------------------------------------------------------
(* ReconcileRules, MismatchDetector and PaymentManager.                    *)

\* shouldReconcileTransaction: lookbackDays and excludeStatuses are settings,
\* and which transactions they let through is left open
ShouldReconcile(t, taken) == t \in taken /\ PaymentOf[t] # NoPayment

\* PaymentManager.getPaymentStatus: an error is the answer "pending", without
\* an amount
GetPaymentStatus(answer) ==
    IF answer = Failure THEN Data("pending", "none") ELSE answer

\* detectMismatches; the difference to no amount is NaN, which exceeds nothing
DetectMismatches(t, data) ==
    IF data = NoData THEN {<<"missing provider", t>>}
    ELSE (IF listed[t] # data.status THEN {<<"status", t>>} ELSE {})
         \cup (IF data.amount = "off" THEN {<<"amount", t>>} ELSE {})

\* detectDuplicatePayments
DetectDuplicates(ts) ==
    {<<"duplicate", t>> : t \in {t \in ts : \E u \in ts \ {t} : PaymentOf[u] = PaymentOf[t]}}

-----------------------------------------------------------------------------
(* ReconcileEngine.runReconciliation.                                      *)

Nothing == [t \in Txs |-> "pending"]

\* the report of a run, before its first step and after its last
NoRun ==
    /\ listed' = Nothing /\ size' = 0 /\ left' = {} /\ asking' = {} /\ found' = {}

ReconciliationInit ==
    /\ isRunning = FALSE /\ phase = "idle" /\ owner = "none" /\ startDay = 1
    /\ listed = Nothing /\ size = 0 /\ left = {} /\ asking = {} /\ found = {}
    /\ status = "none"
    /\ reports = [d \in 1 .. MaxDays |-> "none"]
    /\ enabled = TRUE /\ batchSize = DefaultSize /\ maxConcurrency = DefaultSize
    /\ updating = 0 /\ cronOn = FALSE
    /\ queue = "none"
    /\ job = [j \in ReconcileJobs |-> "none"] /\ tries = [j \in ReconcileJobs |-> 0]
    /\ today = 1 /\ runs = 0 /\ changes = 0

\* up to the first await; a call that finds the flag set throws at once, which
\* leaves no trace but in the job it was made for
RunReconciliation(by) ==
    /\ ~isRunning /\ runs < MaxReconciles
    /\ isRunning' = TRUE /\ runs' = runs + 1
    /\ phase' = "listing" /\ owner' = by /\ startDay' = today
    /\ status' = "running"
    /\ UNCHANGED <<listed, size, left, asking, found>>

\* createBatches, of transactions and, for each batch, of the checks that are
\* under way, all started at once: with a size that does not count up it never
\* returns, and nothing else runs in its process.  After the last batch the
\* report is complete.
NextBatch(rest, n) ==
    IF rest = {}
    THEN /\ phase' = "saving" /\ status' = "completed"
         /\ asking' = {} /\ left' = {}
    ELSE \E batch \in SUBSET rest :
             /\ Cardinality(batch) = IF Cardinality(rest) < n THEN Cardinality(rest) ELSE n
             /\ phase' = IF 0 \in {n, maxConcurrency} THEN "looping" ELSE "checking"
             /\ asking' = batch /\ left' = rest \ batch
             /\ UNCHANGED status

\* the list, filtered, with its duplicates; or no list.  The statuses are
\* those of now, the provider's those of when it is asked.
Listed(statuses, taken) ==
    /\ phase = "listing" /\ size' = batchSize
    /\ LET ts == {t \in Txs : ShouldReconcile(t, taken)}
       IN  /\ listed' = [t \in Txs |-> IF t \in ts THEN statuses[t] ELSE Nothing[t]]
           /\ found' = DetectDuplicates(ts)
           /\ NextBatch(ts, batchSize)
    /\ UNCHANGED <<isRunning, owner, startDay, reports, configVars,
                   queueVars, today, runs, changes>>

ListFails ==
    /\ phase = "listing" /\ phase' = "saving" /\ status' = "failed"
    /\ UNCHANGED <<isRunning, owner, startDay, listed, size, left, asking, found,
                   reports, configVars, queueVars, today, runs,
                   changes>>

\* the provider has answered for one transaction of the batch
StatusArrives(t, answer) ==
    /\ phase = "checking" /\ t \in asking
    /\ found' = found \cup DetectMismatches(t, GetPaymentStatus(answer))
    /\ IF asking = {t} THEN NextBatch(left, size)
       ELSE asking' = asking \ {t} /\ UNCHANGED <<phase, left, status>>
    /\ UNCHANGED <<isRunning, owner, startDay, listed, size, reports, configVars,
                   queueVars, today, runs, changes>>

\* the job the run was for: done, or to be tried again later, or given up
Settled(j, ok) ==
    /\ tries' = [tries EXCEPT ![j] = @ + 1]
    /\ job' = [job EXCEPT ![j] = IF ok THEN "completed"
                                 ELSE IF tries[j] + 1 < Attempts THEN "delayed"
                                 ELSE "failed"]

\* finally
Leave == isRunning' = FALSE

RunEnds ==
    /\ Leave
    /\ phase' = "idle" /\ owner' = "none"
    /\ IF owner \in ReconcileJobs THEN Settled(owner, status = "completed")
       ELSE UNCHANGED <<job, tries>>
    /\ status' = "none" /\ startDay' = 1 /\ NoRun

\* saveReport writes over the report of the day the run began.  A completed
\* report that cannot be saved fails the run, whose failed report is saved
\* next; when that fails as well the run ends with the second error.
SaveReport ==
    /\ phase = "saving"
    /\ reports' = [reports EXCEPT ![startDay] = status]
    /\ IF found = {} THEN RunEnds
       ELSE /\ phase' = "csv"
            /\ UNCHANGED <<isRunning, owner, startDay, resultVars, job, tries>>
    /\ UNCHANGED <<configVars, queue, today, runs, changes>>

ReportNotSaved ==
    /\ phase = "saving"
    /\ reports' \in {reports, [reports EXCEPT ![startDay] = "torn"]}
    /\ IF status = "completed"
       THEN /\ status' = "failed"
            /\ UNCHANGED <<isRunning, phase, owner, startDay, listed, size, left,
                           asking, found, job, tries>>
       ELSE RunEnds
    /\ UNCHANGED <<configVars, queue, today, runs, changes>>

\* saveCSVReport: whether it can be written makes no difference
SaveCSV ==
    /\ phase = "csv" /\ RunEnds
    /\ UNCHANGED <<reports, configVars, queue, today, runs, changes>>

-----------------------------------------------------------------------------
(* Who asks for runs: cron job, route, queue.                              *)

Change == changes < MaxChanges /\ changes' = changes + 1

Defaults ==
    /\ enabled' = TRUE /\ batchSize' = DefaultSize /\ maxConcurrency' = DefaultSize

\* initialize: the saved record is spread over the defaults, none of whose
\* names it has, so that they hold whatever was saved
InitializeEngine ==
    /\ Change
    /\ Defaults /\ cronOn' = TRUE
    /\ UNCHANGED <<runVars, reports, updating, queueVars, today, runs>>

CronFires ==
    /\ cronOn /\ RunReconciliation("cron")
    /\ UNCHANGED <<reports, configVars, queueVars, today, changes>>

\* updateConfig, with whatever the request holds: at once in memory
UpdateConfig(on, n, m) ==
    /\ Change
    /\ enabled' = on /\ batchSize' = n /\ maxConcurrency' = m
    /\ updating' = updating + 1
    /\ UNCHANGED <<runVars, reports, cronOn, queueVars, today, runs>>

Updated ==
    /\ updating > 0 /\ updating' = updating - 1
    /\ UNCHANGED <<runVars, reports, enabled, batchSize, maxConcurrency, queueVars, today,
                   runs, changes>>

\* the cron job follows when it is saved, by what memory says then, if the
\* request named the schedule or enabled; a schedule that is none stops it
ConfigSaved == Updated /\ cronOn' \in {cronOn, enabled, FALSE}

ConfigNotSaved == Updated /\ UNCHANGED cronOn

\* POST /run: 409 while a run is on; without a queue, or when the job cannot be
\* added, the run is the route's own
AddReconcileJob(j) ==
    /\ ~isRunning /\ queue \in {"open", "paused", "closing"} /\ job[j] = "none"
    /\ job' = [job EXCEPT ![j] = "waiting"]
    /\ UNCHANGED <<runVars, reports, configVars, queue, tries, today, runs,
                   changes>>

RunDirectly ==
    /\ RunReconciliation("route")
    /\ UNCHANGED <<reports, configVars, queueVars, today, changes>>

InitializeQueue ==
    /\ Change
    /\ queue \in {"none", "closed"} /\ queue' = "open"
    /\ UNCHANGED <<runVars, reports, configVars, job, tries, today, runs>>

\* processJob; a job that meets another run fails
ProcessJob(j) ==
    /\ queue = "open" /\ job[j] = "waiting"
    /\ \A k \in ReconcileJobs : job[k] # "active"
    /\ IF isRunning THEN Settled(j, FALSE) /\ UNCHANGED <<runVars, runs>>
       ELSE /\ RunReconciliation(j)
            /\ job' = [job EXCEPT ![j] = "active"] /\ UNCHANGED tries
    /\ UNCHANGED <<reports, configVars, queue, today, changes>>

BackoffEnds(j) ==
    /\ job[j] = "delayed" /\ job' = [job EXCEPT ![j] = "waiting"]
    /\ UNCHANGED <<runVars, reports, configVars, queue, tries, today, runs,
                   changes>>

\* pauseQueue, resumeQueue; close waits for the worker's job
SetQueue(from, to) ==
    /\ queue = from /\ queue' = to
    /\ to = "closed" => \A k \in ReconcileJobs : job[k] # "active"
    /\ IF to \in {"paused", "closing"} THEN Change ELSE UNCHANGED changes
    /\ UNCHANGED <<runVars, reports, configVars, job, tries, today, runs>>

-----------------------------------------------------------------------------
(* The world, and what else touches the files.                             *)

DayPasses ==
    /\ Change
    /\ today < MaxDays /\ today' = today + 1
    /\ UNCHANGED <<runVars, reports, configVars, queueVars, runs>>

\* deleteOldReports: file by file, by when each was last written, which is the
\* day it is named after or later, up to the first that cannot be looked at.
\* The route takes 90 days for 0, and a negative number as it is, which is a
\* day to come.
DeleteOldReports(keep, gone) ==
    /\ Change
    /\ \A d \in gone : d < today - keep /\ reports[d] # "none"
    /\ reports' = [d \in 1 .. MaxDays |-> IF d \in gone THEN "none" ELSE reports[d]]
    /\ UNCHANGED <<runVars, configVars, queueVars, today, runs>>

\* the process ends and starts again; BullMQ gives the job it had to a worker
\* again
RestartReconciler ==
    /\ Change
    /\ isRunning' = FALSE /\ phase' = "idle" /\ owner' = "none" /\ startDay' = 1
    /\ status' = "none" /\ NoRun
    /\ reports' \in {reports} \cup (IF phase = "saving"
                                    THEN {[reports EXCEPT ![startDay] = "torn"]} ELSE {})
    /\ Defaults /\ updating' = 0 /\ cronOn' = FALSE /\ queue' = "none"
    /\ job' = [j \in ReconcileJobs |-> IF job[j] = "active" THEN "waiting" ELSE job[j]]
    /\ UNCHANGED <<tries, today, runs>>

RunGoesOn ==
    \/ \E statuses \in [Txs -> Statuses], taken \in SUBSET Txs : Listed(statuses, taken)
    \/ ListFails \/ SaveReport \/ ReportNotSaved \/ SaveCSV
    \/ \E t \in Txs, answer \in Answers : StatusArrives(t, answer)

\* what the process does but for the run
Served ==
    \/ InitializeEngine \/ CronFires \/ ConfigSaved \/ ConfigNotSaved
    \/ \E on \in BOOLEAN, n, m \in Sizes : UpdateConfig(on, n, m)
    \/ RunDirectly \/ InitializeQueue
    \/ \E j \in ReconcileJobs : AddReconcileJob(j) \/ ProcessJob(j) \/ BackoffEnds(j)
    \/ SetQueue("open", "paused") \/ SetQueue("paused", "open")
    \/ SetQueue("open", "closing") \/ SetQueue("closing", "closed")
    \/ \E keep \in (-1 .. MaxDays) \ {0} : \E gone \in SUBSET (1 .. MaxDays) :
           gone # {} /\ DeleteOldReports(keep, gone)

ReconciliationNext ==
    \/ RunGoesOn
    \/ phase # "looping" /\ Served
    \/ DayPasses \/ RestartReconciler

-----------------------------------------------------------------------------
ReconciliationTypeOK ==
    /\ listed \in [Txs -> Statuses]
    /\ isRunning \in BOOLEAN
    /\ phase \in {"idle", "listing", "checking", "looping", "saving", "csv"}
    /\ size \in Nat /\ batchSize \in Sizes /\ maxConcurrency \in Sizes
    /\ owner \in {"none", "cron", "route"} \cup ReconcileJobs
    /\ left \subseteq Txs /\ asking \subseteq Txs
    /\ reports \in [1 .. MaxDays -> {"none", "torn", "completed", "failed"}]
    /\ found \subseteq {"status", "amount", "duplicate", "missing provider"} \X Txs
    /\ status \in {"none", "running", "completed", "failed"}
    /\ job \in [ReconcileJobs -> {"none", "waiting", "active", "delayed", "completed", "failed"}]
    /\ tries \in [ReconcileJobs -> 0 .. Attempts]
    /\ queue \in {"none", "open", "paused", "closing", "closed"}
    /\ enabled \in BOOLEAN /\ cronOn \in BOOLEAN /\ updating \in 0 .. changes
    /\ startDay \in 1 .. today /\ today \in 1 .. MaxDays
    /\ runs \in 0 .. MaxReconciles /\ changes \in 0 .. MaxChanges

\* A run ends, and the flag lets the next one in, whichever of its steps fails:
\* the list, an answer of a provider, the report, or the report of the failure;
\* only a run whose configuration has a batchSize or a maxConcurrency that does
\* not count up keeps it, and its process.  ReconcileEngine.runReconciliation,
\* its catch and finally, and createBatches.
GuardReleased == isRunning ~> (~isRunning \/ phase = "looping")
=============================================================================
