---------------------------- MODULE MCOperations ----------------------------
(***************************************************************************)
(* The components that keep the system running: scaling and failover, the  *)
(* database drivers, and the parts of the distributed state that share     *)
(* only a Redis server with the lock.  No code of the repository connects  *)
(* one of them to another but by their public methods, which the modules   *)
(* call in any order: a behaviour here is one of a single component.       *)
(***************************************************************************)
EXTENDS Failover, AutoScaler, Cluster, LoadBalancer, WorkerPool, Database,
        MessageBroker, DistributedCache

VARIABLE focus

OneEach == [r \in Rules |-> 1]
Zeros == [c \in Clients |-> 0]

\* The second call is one that meets the first
SecondAsked == {<<"getOrCreate", "users">>, <<"update", "users">>,
                <<"upsert", "balances">>}
TwoAsked == <<CallKinds, SecondAsked>>

Parts == {"failover", "scaler", "cluster", "balancer", "pool", "database",
          "broker", "cache"}

Init ==
    /\ FailoverInit /\ ScalerInit /\ ClusterInit /\ BalancerInit /\ PoolInit
    /\ DbInit /\ BrokerInit /\ CacheInit
    /\ focus \in Parts

InFailover(A) ==
    /\ focus = "failover" /\ A
    /\ UNCHANGED <<focus, scalerVars, clusterVars, balancerVars, poolVars, dbVars,
                   brokerVars, cacheVars>>
InScaler(A) ==
    /\ focus = "scaler" /\ A
    /\ UNCHANGED <<focus, failoverVars, clusterVars, balancerVars, poolVars, dbVars,
                   brokerVars, cacheVars>>
InCluster(A) ==
    /\ focus = "cluster" /\ A
    /\ UNCHANGED <<focus, failoverVars, scalerVars, balancerVars, poolVars, dbVars,
                   brokerVars, cacheVars>>
InBalancer(A) ==
    /\ focus = "balancer" /\ A
    /\ UNCHANGED <<focus, failoverVars, scalerVars, clusterVars, poolVars, dbVars,
                   brokerVars, cacheVars>>
InPool(A) ==
    /\ focus = "pool" /\ A
    /\ UNCHANGED <<focus, failoverVars, scalerVars, clusterVars, balancerVars, dbVars,
                   brokerVars, cacheVars>>
InDatabase(A) ==
    /\ focus = "database" /\ A
    /\ UNCHANGED <<focus, failoverVars, scalerVars, clusterVars, balancerVars,
                   poolVars, brokerVars, cacheVars>>
InBroker(A) ==
    /\ focus = "broker" /\ A
    /\ UNCHANGED <<focus, failoverVars, scalerVars, clusterVars, balancerVars,
                   poolVars, dbVars, cacheVars>>
InCache(A) ==
    /\ focus = "cache" /\ A
    /\ UNCHANGED <<focus, failoverVars, scalerVars, clusterVars, balancerVars,
                   poolVars, dbVars, brokerVars>>

Next ==
    \/ InFailover(FailoverNext) \/ InScaler(ScalerNext) \/ InCluster(ClusterNext)
    \/ InBalancer(BalancerNext) \/ InPool(PoolNext) \/ InDatabase(DbNext)
    \/ InBroker(BrokerNext) \/ InCache(CacheNext)

vars == <<failoverVars, scalerVars, clusterVars, balancerVars, poolVars, dbVars,
          brokerVars, cacheVars, focus>>

Spec == Init /\ [][Next]_vars

\* Intervals and timers fire, readings arrive; Redis answers, keys expire
FairSpec ==
    /\ Spec
    /\ WF_vars(InFailover(Interval))
    /\ \A ok \in BOOLEAN : WF_vars(InFailover(PollEnds(ok)))
    /\ WF_vars(InFailover(CheckReads)) /\ WF_vars(InFailover(CheckEnds))
    /\ WF_vars(InCache(Lapse))
    /\ \A c \in CacheCalls : WF_vars(InCache(CacheStep(c)))

TypeOK ==
    /\ FailoverTypeOK /\ ScalerTypeOK /\ ClusterTypeOK /\ BalancerTypeOK
    /\ PoolTypeOK /\ DbTypeOK /\ BrokerTypeOK /\ CacheTypeOK
=============================================================================
