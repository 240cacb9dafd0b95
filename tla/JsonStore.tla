----------------------------- MODULE JsonStore -----------------------------
(***************************************************************************)
(* The JSON driver of the DAL: collections are files, shared by every       *)
(* process of the deployment, and writers take turns through a lock file    *)
(* created with the `wx` flag.                                             *)
(*                                                                         *)
(* Every write has the same shape, `await acquireLock(); try { read;        *)
(* change; write } finally { releaseLock() }`: insert (createUser,          *)
(* createTransaction, createAdmin), update (updateUser, updateTransaction)  *)
(* and upsert (upsertBalance, setSetting).  From the read to the release a  *)
(* process does not suspend, so its own calls wait, but another process     *)
(* runs between any two file operations.  writeFileSync truncates the file  *)
(* and then fills it.  One lock file guards all collections; one collection *)
(* stands for them.                                                        *)
(*                                                                         *)
(* A process that opens the directory creates the file if it finds none,    *)
(* and takes no lock for that: two processes that start together may both   *)
(* find none.  The empty file is written in one step, its truncated form    *)
(* reads the same.                                                         *)
(***************************************************************************)
EXTENDS Naturals, FiniteSets

CONSTANTS Procs,        \* the processes that opened the storage directory
          Ops,          \* the writes they are asked for, one each
          Readers,      \* the lock-free reads, one each
          Keys,         \* the records
          Home,         \* the process of each write and of each read
          MaxAttempts,  \* maxAttempts of acquireLock (50 in the code)
          MaxFaults     \* bound on crashes, disconnects and write errors

ASSUME JsonAssumption ==
    /\ Home \in [Ops \cup Readers -> Procs]
    /\ MaxAttempts \in Nat \ {0}
    /\ MaxFaults \in Nat

VARIABLES
    exists,    \* whether the collection's file exists
    opening,   \* how far each process is with initializeFiles
    file,      \* the collection as the last complete write left it
    torn,      \* whether the file on disk is cut short of that
    lockFile,  \* whether the lock file exists
    asked,     \* the kind and the record of each write
    pc,        \* where each write stands
    attempts,  \* failed tries to create the lock file
    snap,      \* the collection as each write read it
    seen,      \* what each read returned
    faults,
    tampered   \* the lock was removed under its holder, a file left torn, or
               \* a file in use replaced by an empty one

\* the collection's file as it is on disk, and how far each process has opened it
opened == <<exists, opening>>

vars == <<file, torn, lockFile, asked, pc, attempts, snap, seen, faults, tampered,
          opened>>

Kinds == {"insert", "update", "upsert"}

NoRecords == [k \in Keys |-> {}]

Collection == [Keys -> SUBSET Ops]

\* initializeFiles: not looked yet, found no file, done
Openings == {"new", "absent", "open"}

PCs == {"idle", "trying", "locked", "loaded", "writing", "written", "missing",
        "done", "failed", "dead"}

\* between acquireLock and the end of releaseLock
Critical == {"locked", "loaded", "writing", "written", "missing"}

\* from the read to the release the process does not suspend
Sync == {"loaded", "writing", "written", "missing"}

-----------------------------------------------------------------------------
(* Mutations: plausible bugs in the definition each Bug... stands for; Next *)
(* uses none of them.                                                      *)

\* writeFileSync(lockFile) without the wx flag
BugLockWithoutWx(w) ==
    /\ pc[w] = "trying"
    /\ lockFile' = TRUE
    /\ pc' = [pc EXCEPT ![w] = "locked"]
    /\ UNCHANGED <<file, torn, asked, attempts, snap, seen, faults, tampered,
                   opened>>

\* acquireLock waits for as long as it takes
BugLockForever(w) ==
    /\ pc[w] = "trying"
    /\ lockFile
    /\ UNCHANGED vars

\* the write starts from the driver's in-memory copy instead of the file
BugLoadCached(w) ==
    /\ pc[w] = "locked"
    /\ pc' = [pc EXCEPT ![w] = "loaded"]
    /\ UNCHANGED <<file, torn, lockFile, asked, attempts, snap, seen, faults,
                   tampered, opened>>

\* an update stores its fields alone
BugChangedReplaces(c, w) == [c EXCEPT ![asked[w][2]] = {w}]

-----------------------------------------------------------------------------
\* a process inside its critical section runs nothing else
Busy(p) == \E w \in Ops : Home[w] = p /\ pc[w] \in Sync

\* the write runs when its process is not inside another write
MayRun(w) == \A v \in Ops : v # w /\ Home[v] = Home[w] => pc[v] \notin Sync

\* readCollection: any error, a torn file included, yields no records
Parsed == IF torn THEN NoRecords ELSE file

\* insert and upsert store a new object, update spreads over the old one
Changed(c, w) ==
    [c EXCEPT ![asked[w][2]] =
        IF asked[w][1] = "update" THEN @ \cup {w} ELSE {w}]

\* uuidv4: no two created records share an id
FreshInserts(a) ==
    \A v, w \in Ops : v # w /\ a[v][1] = "insert" /\ a[w][1] # "update" =>
                     a[v][2] # a[w][2]

Goto(w, there) == pc' = [pc EXCEPT ![w] = there]

Fault == faults < MaxFaults /\ faults' = faults + 1

-----------------------------------------------------------------------------
Init ==
    /\ exists \in BOOLEAN
    /\ opening = [p \in Procs |-> "new"]
    /\ file = NoRecords
    /\ torn = FALSE
    /\ lockFile = FALSE
    /\ asked \in [Ops -> Kinds \X Keys]
    /\ FreshInserts(asked)
    /\ pc = [w \in Ops |-> "idle"]
    /\ attempts = [w \in Ops |-> 0]
    /\ snap = [w \in Ops |-> NoRecords]
    /\ seen = [r \in Readers |-> "unread"]
    /\ faults = 0
    /\ tampered = FALSE

\* the constructor's initializeFiles: existsSync ...
Look(p) ==
    /\ opening[p] = "new"
    /\ opening' = [opening EXCEPT ![p] = IF exists THEN "open" ELSE "absent"]
    /\ UNCHANGED <<exists, file, torn, lockFile, asked, pc, attempts, snap, seen,
                   faults, tampered>>

\* ... and, when it found none, writeFileSync of an empty collection over
\* whatever another process has put there since
Create(p) ==
    /\ opening[p] = "absent"
    /\ opening' = [opening EXCEPT ![p] = "open"]
    /\ exists' = TRUE
    /\ file' = NoRecords
    /\ torn' = FALSE
    /\ tampered' = (tampered \/ file # NoRecords
                             \/ \E w \in Ops : pc[w] \in Critical)
    /\ UNCHANGED <<lockFile, asked, pc, attempts, snap, seen, faults>>

Ask(w) ==
    /\ pc[w] = "idle"
    /\ opening[Home[w]] = "open"
    /\ MayRun(w)
    /\ Goto(w, "trying")
    /\ UNCHANGED <<file, torn, lockFile, asked, attempts, snap, seen, faults,
                   tampered, opened>>

\* acquireLock: writeFileSync(lockFile, pid, wx)
Lock(w) ==
    /\ pc[w] = "trying"
    /\ MayRun(w)
    /\ ~lockFile
    /\ lockFile' = TRUE
    /\ Goto(w, "locked")
    /\ UNCHANGED <<file, torn, asked, attempts, snap, seen, faults, tampered,
                   opened>>

\* ... which throws while the file exists; after the last try acquireLock does
LockTaken(w) ==
    /\ pc[w] = "trying"
    /\ MayRun(w)
    /\ lockFile
    /\ attempts' = [attempts EXCEPT ![w] = @ + 1]
    /\ Goto(w, IF attempts[w] + 1 < MaxAttempts THEN "trying" ELSE "failed")
    /\ UNCHANGED <<file, torn, lockFile, asked, snap, seen, faults, tampered,
                   opened>>

\* readCollection, and findIndex for an update: a missing record throws
Load(w) ==
    /\ pc[w] = "locked"
    /\ MayRun(w)
    /\ snap' = [snap EXCEPT ![w] = Parsed]
    /\ Goto(w, IF asked[w][1] = "update" /\ Parsed[asked[w][2]] = {}
               THEN "missing" ELSE "loaded")
    /\ UNCHANGED <<file, torn, lockFile, asked, attempts, seen, faults,
                   tampered, opened>>

\* writeCollection: the file is opened for writing, hence truncated ...
Truncate(w) ==
    /\ pc[w] = "loaded"
    /\ torn' = TRUE
    /\ Goto(w, "writing")
    /\ UNCHANGED <<file, lockFile, asked, attempts, snap, seen, faults,
                   tampered, opened>>

\* ... and then filled with the whole collection
Fill(w) ==
    /\ pc[w] = "writing"
    /\ file' = Changed(snap[w], w)
    /\ torn' = FALSE
    /\ Goto(w, "written")
    /\ UNCHANGED <<lockFile, asked, attempts, snap, seen, faults, tampered,
                   opened>>

\* ... or the write throws (no space): DatabaseError, the lock is released
FillFails(w) ==
    /\ pc[w] = "writing"
    /\ Fault
    /\ tampered' = TRUE
    /\ Goto(w, "missing")
    /\ UNCHANGED <<file, torn, lockFile, asked, attempts, snap, seen, opened>>

\* finally { releaseLock() }: unlinks the file whoever made it, then the call
\* returns its record or rethrows
Unlock(w) ==
    /\ pc[w] \in {"written", "missing"}
    /\ lockFile' = FALSE
    /\ Goto(w, IF pc[w] = "written" THEN "done" ELSE "failed")
    /\ UNCHANGED <<file, torn, asked, attempts, snap, seen, faults, tampered,
                   opened>>

\* findUserById, findTransactionByOrderId, getSetting, ...: no lock taken
Read(r, k) ==
    /\ seen[r] = "unread"
    /\ opening[Home[r]] = "open"
    /\ ~Busy(Home[r])
    /\ seen' = [seen EXCEPT ![r] = IF Parsed[k] = {} THEN "miss" ELSE "hit"]
    /\ UNCHANGED <<file, torn, lockFile, asked, pc, attempts, snap, faults,
                   tampered, opened>>

\* dal.shutdown: releaseLock without asking whose lock it is
Disconnect(p) ==
    /\ ~Busy(p)
    /\ Fault
    /\ lockFile
    /\ lockFile' = FALSE
    /\ tampered' = (tampered \/ \E w \in Ops : pc[w] \in Critical)
    /\ UNCHANGED <<file, torn, asked, pc, attempts, snap, seen, opened>>

\* the process is killed: its lock file stays, a file it was writing is torn;
\* the process that takes its place opens the directory again
Crash(p) ==
    /\ Fault
    /\ opening' = [opening EXCEPT ![p] = "new"]
    /\ pc' = [w \in Ops |-> IF Home[w] = p /\ pc[w] \in Critical \cup {"trying"}
                            THEN "dead" ELSE pc[w]]
    /\ tampered' = (tampered \/ \E w \in Ops : Home[w] = p /\ pc[w] = "writing")
    /\ UNCHANGED <<exists, file, torn, lockFile, asked, attempts, snap, seen>>

-----------------------------------------------------------------------------
Step(w) == \/ Lock(w) \/ LockTaken(w) \/ Load(w) \/ Truncate(w)
           \/ Fill(w) \/ FillFails(w) \/ Unlock(w)

Next == \/ \E w \in Ops : Ask(w) \/ Step(w)
        \/ \E r \in Readers, k \in Keys : Read(r, k)
        \/ \E p \in Procs : Look(p) \/ Create(p) \/ Disconnect(p) \/ Crash(p)

Spec == Init /\ [][Next]_vars

\* the event loop of a running process is fair to its pending calls
FairSpec == Spec /\ \A w \in Ops : WF_vars(Step(w))

-----------------------------------------------------------------------------
(* Properties.                                                             *)

\* Type invariant.
TypeOK ==
    /\ exists \in BOOLEAN
    /\ opening \in [Procs -> Openings]
    /\ file \in Collection
    /\ torn \in BOOLEAN
    /\ lockFile \in BOOLEAN
    /\ asked \in [Ops -> Kinds \X Keys]
    /\ pc \in [Ops -> PCs]
    /\ attempts \in [Ops -> 0 .. MaxAttempts]
    /\ snap \in [Ops -> Collection]
    /\ seen \in [Readers -> {"unread", "hit", "miss"}]
    /\ faults \in 0 .. MaxFaults
    /\ tampered \in BOOLEAN

\* Until a lock is removed under its holder (disconnect), a write is cut short
\* or a process that starts wipes the file, at most one write of all processes is between acquireLock and
\* releaseLock; a crash alone does not break this, it leaves the lock behind.
MutualExclusion ==
    ~tampered => \A v, w \in Ops :
        pc[v] \in Critical /\ pc[w] \in Critical => v = w

\* Until then no acknowledged write is lost: its mark is in its record as last
\* completely written, or an upsert of the same key replaced it.
NoLostUpdate ==
    ~tampered => \A w \in Ops :
        pc[w] = "done" => \/ w \in file[asked[w][2]]
                          \/ \E v \in Ops \ {w} : v \in file[asked[w][2]]
                                                  /\ asked[v][1] = "upsert"

\* Every write ends, however long another one or a dead process's lock file
\* blocks it: acquireLock gives up after maxAttempts.
WritesEnd == \A w \in Ops : pc[w] = "trying" ~> pc[w] \in {"done", "failed", "dead"}

\* The driver implements atomic writes until it is tampered with: a write
\* takes effect when it has filled the file.
AsState(there) ==
    IF there \in {"trying", "locked", "loaded", "writing", "missing"}
    THEN "pending"
    ELSE IF there = "written" THEN "applied"
    ELSE IF there = "done" THEN "acked"
    ELSE IF there = "failed" THEN "refused"
    ELSE there

Atomic == INSTANCE AtomicStore WITH
    store  <- file,
    asked  <- asked,
    state  <- [w \in Ops |-> AsState(pc[w])],
    broken <- tampered

ImplementsAtomic == Atomic!Spec

\* README.md, Database Modes: "File-based storage with atomic writes".  A read
\* that starts after a write was acknowledged finds the record, until the store
\* is tampered with.  Refuted without any fault: reads take no lock and a file
\* cut short reads as empty.
ReadsFindAcknowledged ==
    [][\A r \in Readers, k \in Keys :
          (Read(r, k) /\ seen'[r] = "miss" /\ ~tampered) =>
              ~\E w \in Ops : pc[w] = "done" /\ asked[w][2] = k]_vars
=============================================================================
