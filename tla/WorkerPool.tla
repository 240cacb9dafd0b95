------------------------------ MODULE WorkerPool ------------------------------
(***************************************************************************)
(* WorkerPool, for one queue (queues share nothing): the worker, the queue *)
(* object and the statistics under its name, and the calls of closeWorker, *)
(* which await BullMQ twice and delete by name.  BullMQ: a worker that is  *)
(* closed takes no more jobs and is closed when its last job has ended; a  *)
(* paused one takes none.  Jobs are counted, not told apart.  The events   *)
(* the pool passes on have no listener and are left out.                   *)
(***************************************************************************)
EXTENDS Integers

CONSTANTS
    Concurrency,    \* jobs a worker takes at a time
    MaxJobs,        \* bound on jobs ever added
    MaxCloses,      \* bound on calls of closeWorker under way
    MaxRegistrations \* bound on workers registered

ASSUME PoolAssumption ==
    /\ Concurrency \in Nat \ {0} /\ MaxJobs \in Nat
    /\ MaxCloses \in Nat /\ MaxRegistrations \in Nat

VARIABLES
    worker,       \* the entry of workers: "none", "open", "paused", "closing"
    hasQueue,     \* the entry of queues
    hasStats,     \* the entry of stats
    statActive, processed,  \* what it says
    waitingJobs, activeJobs, \* jobs in Redis and in the worker's hands
    addedJobs,    \* jobs added so far
    closing,      \* calls that await worker.close, by whether they hold a queue
    emptying,     \* calls that await queue.close
    registrations

poolVars == <<worker, hasQueue, hasStats, statActive, processed, waitingJobs,
              activeJobs, addedJobs, closing, emptying, registrations>>
statVars == <<hasQueue, hasStats, statActive, processed>>
jobVars == <<waitingJobs, activeJobs, addedJobs>>

-----------------------------------------------------------------------------
(* Mutations: plausible bugs in the definition each Bug... stands for; Next *)
(* uses none of them.                                                      *)

\* the statistics are deleted before queue.close is awaited
BugWorkerClosed ==
    /\ worker = "closing" /\ activeJobs = 0
    /\ worker' = "none"
    /\ emptying' = emptying + closing[TRUE]
    /\ closing' = [held \in BOOLEAN |-> 0]
    /\ hasStats' = FALSE /\ statActive' = 0 /\ processed' = 0
    /\ UNCHANGED <<hasQueue, jobVars, registrations>>

-----------------------------------------------------------------------------

PoolInit ==
    /\ worker = "none" /\ hasQueue = FALSE /\ hasStats = FALSE
    /\ statActive = 0 /\ processed = 0
    /\ waitingJobs = 0 /\ activeJobs = 0 /\ addedJobs = 0
    /\ closing = [held \in BOOLEAN |-> 0] /\ emptying = 0
    /\ registrations = 0

\* a second registration of the name throws
RegisterWorker ==
    /\ worker = "none" /\ registrations < MaxRegistrations
    /\ worker' = "open" /\ hasQueue' = TRUE
    /\ hasStats' = TRUE /\ statActive' = 0 /\ processed' = 0
    /\ registrations' = registrations + 1
    /\ UNCHANGED <<jobVars, closing, emptying>>

\* BullMQ: somebody adds a job
AddJob ==
    /\ addedJobs < MaxJobs
    /\ addedJobs' = addedJobs + 1 /\ waitingJobs' = waitingJobs + 1
    /\ UNCHANGED <<worker, statVars, activeJobs, closing, emptying,
                   registrations>>

\* the worker takes a job; the listener of active counts it, or throws
\* for want of statistics, which is only logged
StartJob ==
    /\ worker = "open" /\ waitingJobs > 0 /\ activeJobs < Concurrency
    /\ waitingJobs' = waitingJobs - 1 /\ activeJobs' = activeJobs + 1
    /\ statActive' = IF hasStats THEN statActive + 1 ELSE statActive
    /\ UNCHANGED <<worker, hasQueue, hasStats, processed, addedJobs, closing,
                   emptying, registrations>>

\* the processor returns or throws; updateStats leaves active as it is
EndJob ==
    /\ activeJobs > 0 /\ activeJobs' = activeJobs - 1
    /\ processed' = IF hasStats THEN processed + 1 ELSE processed
    /\ UNCHANGED <<worker, hasQueue, hasStats, statActive, waitingJobs, addedJobs,
                   closing, emptying, registrations>>

\* getWorkerStats writes what BullMQ counts into the statistics
GetWorkerStats ==
    /\ hasQueue /\ hasStats /\ statActive # activeJobs
    /\ statActive' = activeJobs
    /\ UNCHANGED <<worker, hasQueue, hasStats, processed, jobVars, closing,
                   emptying, registrations>>

\* pauseWorker, resumeWorker; they throw without a worker
PauseWorker ==
    /\ worker = "open" /\ worker' = "paused"
    /\ UNCHANGED <<statVars, jobVars, closing, emptying, registrations>>

ResumeWorker ==
    /\ worker = "paused" /\ worker' = "open"
    /\ UNCHANGED <<statVars, jobVars, closing, emptying, registrations>>

\* what a call does after its last await
DropStats == hasStats' = FALSE /\ statActive' = 0 /\ processed' = 0

\* closeWorker, also for each name of closeAll: what is there is taken now
CloseWorker ==
    /\ worker # "none" /\ closing[TRUE] + closing[FALSE] + emptying < MaxCloses
    /\ worker' = "closing"
    /\ closing' = [closing EXCEPT ![hasQueue] = @ + 1]
    /\ UNCHANGED <<statVars, jobVars, emptying, registrations>>

\* without a worker it goes on at once with the queue, or with nothing
CloseRest ==
    /\ worker = "none" /\ closing[TRUE] + closing[FALSE] + emptying < MaxCloses
    /\ IF hasQueue THEN emptying' = emptying + 1 /\ UNCHANGED statVars
       ELSE DropStats /\ UNCHANGED <<hasQueue, emptying>>
    /\ UNCHANGED <<worker, jobVars, closing, registrations>>

\* worker.close resolves for all its callers at once
WorkerClosed ==
    /\ worker = "closing" /\ activeJobs = 0
    /\ worker' = "none"
    /\ emptying' = emptying + closing[TRUE]
    /\ closing' = [held \in BOOLEAN |-> 0]
    /\ IF closing[FALSE] > 0 THEN DropStats ELSE UNCHANGED <<hasStats, statActive, processed>>
    /\ UNCHANGED <<hasQueue, jobVars, registrations>>

\* queue.close resolves: whatever is under the name by now goes
QueueClosed ==
    /\ emptying > 0 /\ emptying' = emptying - 1
    /\ hasQueue' = FALSE /\ DropStats
    /\ UNCHANGED <<worker, jobVars, closing, registrations>>

PoolNext ==
    \/ RegisterWorker \/ AddJob \/ StartJob \/ EndJob \/ GetWorkerStats
    \/ PauseWorker \/ ResumeWorker
    \/ CloseWorker \/ CloseRest \/ WorkerClosed \/ QueueClosed

PoolSpec == PoolInit /\ [][PoolNext]_poolVars

-----------------------------------------------------------------------------
PoolTypeOK ==
    /\ worker \in {"none", "open", "paused", "closing"}
    /\ hasQueue \in BOOLEAN /\ hasStats \in BOOLEAN
    /\ statActive \in Nat /\ processed \in Nat
    /\ waitingJobs \in 0 .. MaxJobs /\ activeJobs \in 0 .. Concurrency
    /\ addedJobs \in 0 .. MaxJobs
    /\ closing \in [BOOLEAN -> 0 .. MaxCloses] /\ emptying \in 0 .. MaxCloses
    /\ registrations \in 0 .. MaxRegistrations

\* A queue that is there has its statistics, so that it is not left out of
\* getAllWorkerStats, however closes of one name overlap one another and a new
\* registration under it.  WorkerPool.closeWorker, registerWorker.
QueuesHaveStats == hasQueue => hasStats
=============================================================================
