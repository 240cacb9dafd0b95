--------------------------- MODULE DistributedLock ---------------------------
(***************************************************************************)
(* DistributedLock: one resource, its key in Redis, and the instances of   *)
(* the class that lock it.  A user is one call of withLock (or of acquire, *)
(* extend and release by hand); its lock value is drawn at random, so the  *)
(* user stands for it.                                                     *)
(*                                                                         *)
(* An instance talks to Redis over one connection.  Redis executes a       *)
(* command in one step; the reply comes back later, in the order of the    *)
(* commands, and the code after the `await` runs then.  Meanwhile the      *)
(* lease runs.  Time is the lease's own: Tick takes a unit off it.         *)
(*                                                                         *)
(* When a connection breaks, the client library sends the commands it has  *)
(* no reply to once more, executed or not; after too many reconnects it    *)
(* rejects them.  LockInfo.expiresAt is read nowhere and left out.         *)
(***************************************************************************)
EXTENDS Naturals, Sequences

CONSTANTS
    Users,          \* calls of withLock
    Nodes,          \* DistributedLock instances, one connection each
    NodeOf,         \* the instance each call is made on
    Nobody,         \* "the key does not exist", "no entry in the map"
    Retries,        \* options.retries
    Ttl,            \* options.ttl
    Extensions,     \* values of additionalTtl given to extend
    MaxLockFaults   \* bound on lost connections and crashes

ASSUME LockAssumption ==
    /\ Nobody \notin Users
    /\ NodeOf \in [Users -> Nodes]
    /\ Retries \in Nat
    /\ Ttl \in Nat \ {0}
    /\ Extensions \subseteq Nat \ {0}
    /\ MaxLockFaults \in Nat

VARIABLES
    owner,      \* the value stored under the key
    left,       \* what is left of the key's time to live
    at,         \* where each call stands
    attempt,    \* the attempt acquire is at
    inbox,      \* the calls whose replies are on their way to each instance
    locks,      \* the entry of each instance's map for the resource
    lapsed,     \* the calls whose key ran out under them
    lockFaults  \* lost connections and crashes so far

lockVars == <<owner, left, at, attempt, inbox, locks, lapsed, lockFaults>>

\* setting: SET is to be executed; granted, refused: its reply is on its way.
\* releasing: the release script is to be executed; released, mismatch: its
\* reply is on its way.
InSet == {"setting", "granted", "refused"}
InEval == {"releasing", "released", "mismatch"}
Ended == {"returned", "threw", "crashed"}
UserStates == {"idle", "working"} \cup InSet \cup InEval \cup Ended

-----------------------------------------------------------------------------
(* Mutations: plausible bugs in the definitions below; LockNext uses none.  *)

\* SET PX without NX
BugGrantAnyway(u) ==
    /\ owner' = u /\ left' = Ttl /\ lapsed' = lapsed \ {u}

\* SET NX without PX: a key that never runs out
BugGrantWithoutTtl(u) ==
    /\ owner = Nobody
    /\ owner' = u /\ left' = 0 /\ lapsed' = lapsed \ {u}

\* acquire counts its attempts from one too low
BugRetryOnceMore(u) ==
    /\ at[u] = "refused"
    /\ inbox[NodeOf[u]] # <<>> /\ Head(inbox[NodeOf[u]]) = u
    /\ inbox' = [inbox EXCEPT ![NodeOf[u]] = Tail(@)]
    /\ attempt' = [attempt EXCEPT ![u] = @ + 1]
    /\ at' = [at EXCEPT ![u] = "setting"]
    /\ UNCHANGED <<owner, left, locks, lapsed, lockFaults>>

\* release deletes the key without comparing its value
BugMayDelete(u) == owner # Nobody

\* release forgets its map entry whatever Redis answered
BugForgetAlways(u) ==
    /\ at[u] = "mismatch"
    /\ inbox[NodeOf[u]] # <<>> /\ Head(inbox[NodeOf[u]]) = u
    /\ inbox' = [inbox EXCEPT ![NodeOf[u]] = Tail(@)]
    /\ at' = [at EXCEPT ![u] = "returned"]
    /\ locks' = [locks EXCEPT ![NodeOf[u]] = Nobody]
    /\ UNCHANGED <<owner, left, attempt, lapsed, lockFaults>>

\* withLock without finally: a function that throws skips the release
BugFinish(u) ==
    /\ at[u] = "working"
    /\ \E s \in {"releasing", "threw"} : at' = [at EXCEPT ![u] = s]
    /\ UNCHANGED <<owner, left, attempt, inbox, locks, lapsed, lockFaults>>

-----------------------------------------------------------------------------
Goto(u, there) == at' = [at EXCEPT ![u] = there]

\* Redis has executed u's command: the reply is under way
Answer(u, reply) ==
    /\ Goto(u, reply)
    /\ inbox' = [inbox EXCEPT ![NodeOf[u]] = Append(@, u)]

\* u's reply is the next one its instance reads
Reads(u) ==
    LET n == NodeOf[u]
    IN  /\ inbox[n] # <<>>
        /\ Head(inbox[n]) = u
        /\ inbox' = [inbox EXCEPT ![n] = Tail(@)]

\* SET key value PX ttl NX, when the key does not exist
Grant(u) ==
    /\ owner = Nobody
    /\ owner' = u
    /\ left' = Ttl
    /\ lapsed' = lapsed \ {u}

\* the release script's comparison
MayDelete(u) == owner = u

LockFault == lockFaults < MaxLockFaults /\ lockFaults' = lockFaults + 1

LockInit ==
    /\ owner = Nobody
    /\ left = 0
    /\ at = [u \in Users |-> "idle"]
    /\ attempt = [u \in Users |-> 0]
    /\ inbox = [n \in Nodes |-> <<>>]
    /\ locks = [n \in Nodes |-> Nobody]
    /\ lapsed = {}
    /\ lockFaults = 0

-----------------------------------------------------------------------------
(* acquire                                                                 *)

Acquire(u) ==
    /\ at[u] = "idle"
    /\ Goto(u, "setting")
    /\ UNCHANGED <<owner, left, attempt, inbox, locks, lapsed, lockFaults>>

SetOk(u) ==
    /\ at[u] = "setting"
    /\ Grant(u)
    /\ Answer(u, "granted")
    /\ UNCHANGED <<attempt, locks, lockFaults>>

SetNil(u) ==
    /\ at[u] = "setting"
    /\ owner # Nobody
    /\ Answer(u, "refused")
    /\ UNCHANGED <<owner, left, attempt, locks, lapsed, lockFaults>>

\* the map entry is written and withLock starts its function, however much
\* of the lease is left by now
Acquired(u) ==
    /\ at[u] = "granted"
    /\ Reads(u)
    /\ Goto(u, "working")
    /\ locks' = [locks EXCEPT ![NodeOf[u]] = u]
    /\ UNCHANGED <<owner, left, attempt, lapsed, lockFaults>>

\* waits retryDelay and tries again
Retry(u) ==
    /\ at[u] = "refused"
    /\ Reads(u)
    /\ attempt[u] < Retries
    /\ attempt' = [attempt EXCEPT ![u] = @ + 1]
    /\ Goto(u, "setting")
    /\ UNCHANGED <<owner, left, locks, lapsed, lockFaults>>

\* acquire returns null: withLock throws
GiveUp(u) ==
    /\ at[u] = "refused"
    /\ Reads(u)
    /\ attempt[u] = Retries
    /\ Goto(u, "threw")
    /\ UNCHANGED <<owner, left, attempt, locks, lapsed, lockFaults>>

-----------------------------------------------------------------------------
(* Under the lock: extend, the end of the function, release.               *)

\* the script compares and then sets the time to live, it does not add to it;
\* with another value under the key nothing changes.  The reply tells the
\* function what no property is about, and writes expiresAt, which nothing
\* reads; that extend throws is the function throwing, which Finish allows at
\* any moment.  A command sent again is another Extend
Extend(u, ttl) ==
    /\ at[u] = "working"
    /\ owner = u
    /\ left' = ttl
    /\ UNCHANGED <<owner, at, attempt, inbox, locks, lapsed, lockFaults>>

\* the function returned or threw: finally
Finish(u) ==
    /\ at[u] = "working"
    /\ Goto(u, "releasing")
    /\ UNCHANGED <<owner, left, attempt, inbox, locks, lapsed, lockFaults>>

DelKey(u) ==
    /\ at[u] = "releasing"
    /\ MayDelete(u)
    /\ owner' = Nobody
    /\ left' = 0
    /\ Answer(u, "released")
    /\ UNCHANGED <<attempt, locks, lapsed, lockFaults>>

KeepKey(u) ==
    /\ at[u] = "releasing"
    /\ ~MayDelete(u)
    /\ Answer(u, "mismatch")
    /\ UNCHANGED <<owner, left, attempt, locks, lapsed, lockFaults>>

Released(u) ==
    /\ at[u] = "released"
    /\ Reads(u)
    /\ locks' = [locks EXCEPT ![NodeOf[u]] = Nobody]
    /\ Goto(u, "returned")
    /\ UNCHANGED <<owner, left, attempt, lapsed, lockFaults>>

\* release returns false: the map entry stays, and withLock does not look
NotReleased(u) ==
    /\ at[u] = "mismatch"
    /\ Reads(u)
    /\ Goto(u, "returned")
    /\ UNCHANGED <<owner, left, attempt, locks, lapsed, lockFaults>>

-----------------------------------------------------------------------------
(* The lease and the connections.                                          *)

Tick ==
    /\ left > 0
    /\ left' = left - 1
    /\ IF left = 1
       THEN owner' = Nobody /\ lapsed' = lapsed \cup {owner}
       ELSE UNCHANGED <<owner, lapsed>>
    /\ UNCHANGED <<at, attempt, inbox, locks, lockFaults>>

\* the connection of n breaks and comes back: replies under way are lost and
\* their commands are sent again
LockReconnect(n) ==
    /\ LockFault
    /\ inbox[n] # <<>>
    /\ inbox' = [inbox EXCEPT ![n] = <<>>]
    /\ at' = [u \in Users |->
                IF NodeOf[u] # n THEN at[u]
                ELSE IF at[u] \in InSet THEN "setting"
                ELSE IF at[u] \in InEval THEN "releasing"
                ELSE at[u]]
    /\ UNCHANGED <<owner, left, attempt, locks, lapsed>>

\* the library gives up on n's commands: acquire tries again at once or
\* throws, release throws
LockReject(n) ==
    /\ LockFault
    /\ \E u \in Users : NodeOf[u] = n /\ at[u] \in InSet \cup InEval
    /\ inbox' = [inbox EXCEPT ![n] = <<>>]
    /\ at' = [u \in Users |->
                IF NodeOf[u] # n THEN at[u]
                ELSE IF at[u] \in InSet /\ attempt[u] < Retries THEN "setting"
                ELSE IF at[u] \in InSet \cup InEval THEN "threw"
                ELSE at[u]]
    /\ attempt' = [u \in Users |->
                     IF NodeOf[u] = n /\ at[u] \in InSet /\ attempt[u] < Retries
                     THEN attempt[u] + 1 ELSE attempt[u]]
    /\ UNCHANGED <<owner, left, locks, lapsed>>

\* the process of n dies with its map; the key stays
LockCrash(n) ==
    /\ LockFault
    /\ inbox' = [inbox EXCEPT ![n] = <<>>]
    /\ at' = [u \in Users |->
                IF NodeOf[u] = n /\ at[u] \notin Ended \cup {"idle"}
                THEN "crashed" ELSE at[u]]
    /\ locks' = [locks EXCEPT ![n] = Nobody]
    /\ UNCHANGED <<owner, left, attempt, lapsed>>

-----------------------------------------------------------------------------
UserStep(u) ==
    \/ SetOk(u) \/ SetNil(u)
    \/ Acquired(u) \/ Retry(u) \/ GiveUp(u)
    \/ DelKey(u) \/ KeepKey(u)
    \/ Released(u) \/ NotReleased(u)

LockNext ==
    \/ \E u \in Users : Acquire(u) \/ UserStep(u) \/ Finish(u)
    \/ \E u \in Users, ttl \in Extensions : Extend(u, ttl)
    \/ Tick
    \/ \E n \in Nodes : LockReconnect(n) \/ LockReject(n) \/ LockCrash(n)

\* Redis executes and answers, and leases run; the function under the lock
\* need not end.
LockFairness ==
    /\ \A u \in Users : WF_lockVars(UserStep(u))
    /\ WF_lockVars(Tick)

LockSpec == LockInit /\ [][LockNext]_lockVars

LockFairSpec == LockSpec /\ LockFairness

-----------------------------------------------------------------------------
(* Properties.                                                             *)

\* Type invariant: the key, the calls and the maps stay in range.
LockTypeOK ==
    /\ owner \in Users \cup {Nobody}
    /\ left \in Nat
    /\ at \in [Users -> UserStates]
    /\ attempt \in [Users -> 0 .. Retries]
    /\ inbox \in [Nodes -> Seq(Users)]
    /\ locks \in [Nodes -> Users \cup {Nobody}]
    /\ lapsed \subseteq Users
    /\ lockFaults \in 0 .. MaxLockFaults

\* A call that runs its function and whose lease has not run out is the one
\* the key names: two such calls never run at once, over lost replies, sent
\* again commands, crashes, and releases that come after the lease.
Exclusive ==
    \A u \in Users : at[u] = "working" /\ u \notin lapsed => owner = u

\* The instance of such a call lists it (getActiveLocks): no late release of
\* another call of the same instance has struck it off.
HolderIsListed ==
    \A u \in Users :
        at[u] = "working" /\ u \notin lapsed => locks[NodeOf[u]] = u

\* Without a lost connection or a crash, a withLock that has ended, also by
\* the function throwing or by running out of retries, has left no key.
KeyGivenUp ==
    \A u \in Users : at[u] \in Ended /\ owner = u => lockFaults > 0

\* a key whose call will never release it as its holder
Orphan(u) == owner = u /\ at[u] \notin {"granted", "working", "releasing"}

\* A key left behind by a crash, a lost reply or a rejected release does not
\* block the resource for ever.
OrphanLapses == []<>(\A u \in Users : ~Orphan(u))
=============================================================================
