---------------------------- MODULE MCDistributed ----------------------------
(***************************************************************************)
(* DistributedLock and StateManager share a Redis server and nothing else: *)
(* their keys have different prefixes and each has its own connection.     *)
(* Interleaving them would add no behaviour of either, so that a behaviour *)
(* here is one of the lock or one of the state manager.                    *)
(***************************************************************************)
EXTENDS DistributedLock, StateManager

VARIABLE focus

\* Three calls of withLock, two of them on one instance
ThreeUsers == {"u1", "u2", "u3"}
TwoNodes == {"n1", "n2"}
Homes == [u \in ThreeUsers |-> IF u = "u3" THEN "n2" ELSE "n1"]
OneUnit == {1}

\* What is stored before the first call; a delete or expiry takes it away
StoredOne == {1}

\* Every method once: set lends its value a time to live, increment counts
\* down, compareAndSet swaps 1 for 2
Method(k) ==
    [kind |-> k, expected |-> 1, ttl |-> k = "set",
     value |-> IF k = "set" THEN 1 ELSE IF k = "increment" THEN -1 ELSE 2]
SomeAsks == {Method(k) : k \in Kinds}
WatchAndSet == {Method("watch"), Method("set")}

Init == LockInit /\ StateInit /\ focus \in {"lock", "state"}

InLock(A) == focus = "lock" /\ A /\ UNCHANGED <<stateVars, focus>>
InState(A) == focus = "state" /\ A /\ UNCHANGED <<lockVars, focus>>

Next == InLock(LockNext) \/ InState(StateNext)

vars == <<lockVars, stateVars, focus>>

Spec == Init /\ [][Next]_vars

\* LockFairness and StateFairness
FairSpec ==
    /\ Spec
    /\ \A u \in Users : WF_vars(InLock(UserStep(u)))
    /\ WF_vars(InLock(Tick))
    /\ \A t \in Threads : WF_vars(InState(ThreadStep(t)))

TypeOK == LockTypeOK /\ StateTypeOK
=============================================================================
