--------------------------- MODULE OperationsProofs ---------------------------
(***************************************************************************)
(* What the load balancer's counts, the worker pool's maps, the cluster's  *)
(* restarts and the autoscaler's cooldowns promise, for any number of      *)
(* backends, requests, probes, jobs, closes, registrations, workers,       *)
(* restarts, deaths, rules and evaluations.                                *)
(* Then the types of all eight parts, alone and composed.                  *)
(***************************************************************************)
EXTENDS MCOperations, DataProofs, Counting

-----------------------------------------------------------------------------
(* LoadBalancer                                                            *)

\* The counts of the code beside the requests that are really open
CountInv ==
    /\ active \in [Backends -> Nat]
    /\ inFlight \in [Backends -> Nat]
    /\ NoPhantomConnections

\* Whichever backend a request is given to, it is counted where it is open.
LEMMA StartCounted ==
    ASSUME CountInv, NEW client \in Clients, StartRequest(client)
    PROVE  CountInv'
<1>1. PICK b : /\ active' = [active EXCEPT ![b] = @ + 1]
               /\ inFlight' = [inFlight EXCEPT ![b] = @ + 1]
    BY DEF StartRequest
<1>2. CASE b \in Backends
    BY <1>1, <1>2 DEF CountInv, NoPhantomConnections
<1>3. CASE b \notin Backends
  <2>1. active' = active /\ inFlight' = inFlight
      BY <1>1, <1>3 DEF CountInv
  <2> QED BY <2>1 DEF CountInv, NoPhantomConnections
<1> QED BY <1>2, <1>3

\* An end never takes more off than it leaves open: the count stops at zero,
\* and above zero both go down.
LEMMA EndCounted ==
    ASSUME CountInv, NEW b \in Backends, CompleteRequest(b)
    PROVE  CountInv'
<1>1. inFlight[b] \in Nat /\ active[b] \in Nat /\ inFlight[b] > 0
    BY DEF CountInv, CompleteRequest
<1>2. inFlight' \in [Backends -> Nat]
    BY <1>1 DEF CountInv, CompleteRequest
<1>3. active' \in [Backends -> Nat]
    BY <1>1 DEF CountInv, CompleteRequest
<1>4. NoPhantomConnections'
    BY <1>1 DEF CountInv, CompleteRequest, NoPhantomConnections
<1> QED BY <1>2, <1>3, <1>4 DEF CountInv

\* LoadBalancer.recordRequestComplete and registerBackend: no backend is ever
\* charged with more connections than are open to it.
THEOREM ConnectionsNotInvented == BalancerSpec => []NoPhantomConnections
<1>1. BalancerInit => CountInv
    BY DEF BalancerInit, CountInv, NoPhantomConnections
<1>2. CountInv /\ [BalancerNext]_balancerVars => CountInv'
  <2> SUFFICES ASSUME CountInv, [BalancerNext]_balancerVars PROVE CountInv'
      OBVIOUS
  <2>1. ASSUME NEW b \in Backends, RegisterBackend(b) PROVE CountInv'
      BY <2>1 DEF RegisterBackend, CountInv, NoPhantomConnections
  <2>2. ASSUME NEW b \in Backends, UnregisterBackend(b) PROVE CountInv'
      BY <2>2 DEF UnregisterBackend, CountInv, NoPhantomConnections
  <2>3. ASSUME NEW b \in Backends, CompleteRequest(b) PROVE CountInv'
      BY <2>3, EndCounted
  <2>4. ASSUME NEW client \in Clients, StartRequest(client) PROVE CountInv'
      BY <2>4, StartCounted
  <2>5. CASE ShutdownBalancer
      BY <2>5 DEF ShutdownBalancer, CountInv, NoPhantomConnections
  <2>6. CASE UNCHANGED <<active, inFlight>>
      BY <2>6 DEF CountInv, NoPhantomConnections
  <2>7. ASSUME NEW b \in Backends,
               \/ ProbeAnswered(b) \/ ProbeTimesOut(b) \/ ProbeWell(b) \/ ProbeIll(b)
               \/ BackendFails(b)
        PROVE  UNCHANGED <<active, inFlight>>
      BY <2>7 DEF ProbeAnswered, ProbeTimesOut, ProbeWell, ProbeIll, BackendFails
  <2>8. ASSUME NEW on \in BOOLEAN, SetProbing(on)
        PROVE  UNCHANGED <<active, inFlight>>
      BY <2>8 DEF SetProbing
  <2>9. CASE ProbeAll
      BY <2>6, <2>9 DEF ProbeAll
  <2>10. CASE UNCHANGED balancerVars
      BY <2>6, <2>10 DEF balancerVars
  <2> QED BY <2>1, <2>2, <2>3, <2>4, <2>5, <2>6, <2>7, <2>8, <2>9, <2>10
          DEF BalancerNext
<1>3. CountInv => NoPhantomConnections
    BY DEF CountInv
<1> QED BY <1>1, <1>2, <1>3, PTL DEF BalancerSpec

-----------------------------------------------------------------------------
(* WorkerPool                                                              *)

\* The calls that await a worker's close were made while it was there; those
\* that found no queue drop the statistics when it has closed, so that there
\* must be no queue then
ClosingInv ==
    /\ closing \in [BOOLEAN -> Nat] /\ hasQueue \in BOOLEAN /\ hasStats \in BOOLEAN
    /\ closing[FALSE] > 0 => worker = "closing" /\ ~hasQueue
    /\ QueuesHaveStats

\* WorkerPool.closeWorker and registerWorker: a queue in the map has its
\* statistics, for any closes that overlap and any registrations meanwhile.
THEOREM StatisticsKept == PoolSpec => []QueuesHaveStats
<1>1. PoolInit => ClosingInv
  <2> SUFFICES ASSUME PoolInit PROVE ClosingInv
      OBVIOUS
  <2>1. closing \in [BOOLEAN -> Nat] /\ closing[FALSE] = 0
      BY DEF PoolInit
  <2>2. ~(closing[FALSE] > 0)
      BY <2>1
  <2> QED BY <2>1, <2>2, Zenon DEF PoolInit, ClosingInv, QueuesHaveStats
<1>2. ClosingInv /\ [PoolNext]_poolVars => ClosingInv'
  <2> SUFFICES ASSUME ClosingInv, [PoolNext]_poolVars PROVE ClosingInv'
      OBVIOUS
  <2> USE DEF ClosingInv, QueuesHaveStats
  <2>1. CASE RegisterWorker
      BY <2>1 DEF RegisterWorker
  <2>2. CASE CloseWorker
    <3>1. closing' \in [BOOLEAN -> Nat]
        BY <2>2 DEF CloseWorker
    <3>2. UNCHANGED <<hasQueue, hasStats>> /\ worker' = "closing"
        BY <2>2 DEF CloseWorker, statVars
    <3>3. CASE hasQueue
        BY <2>2, <3>1, <3>2, <3>3 DEF CloseWorker
    <3>4. CASE ~hasQueue
        BY <3>1, <3>2, <3>4
    <3> QED BY <3>3, <3>4
  <2>3. CASE CloseRest
      BY <2>3 DEF CloseRest, DropStats, statVars
  <2>4. CASE WorkerClosed
    <3>1. closing' = [held \in BOOLEAN |-> 0] /\ hasQueue' = hasQueue
        BY <2>4 DEF WorkerClosed
    <3>2. closing' \in [BOOLEAN -> Nat] /\ closing'[FALSE] = 0
        BY <3>1
    <3>3. ~(closing'[FALSE] > 0)
        BY <3>2
    <3>4. CASE closing[FALSE] > 0
      <4>1. hasStats' = FALSE
          BY <2>4, <3>4 DEF WorkerClosed, DropStats
      <4> QED BY <3>1, <3>2, <3>3, <3>4, <4>1, Zenon
    <3>5. CASE ~(closing[FALSE] > 0)
      <4>1. hasStats' = hasStats
          BY <2>4, <3>5 DEF WorkerClosed
      <4> QED BY <3>1, <3>2, <3>3, <4>1, Zenon
    <3> QED BY <3>4, <3>5
  <2>5. CASE QueueClosed
      BY <2>5 DEF QueueClosed, DropStats
  <2>6. CASE PauseWorker \/ ResumeWorker
    <3>1. UNCHANGED <<closing, hasQueue, hasStats>> /\ worker # "closing"
        BY <2>6 DEF PauseWorker, ResumeWorker, statVars
    <3> QED BY <3>1
  <2>7. CASE UNCHANGED <<worker, closing, hasQueue, hasStats>>
      BY <2>7
  <2>8. ASSUME AddJob \/ StartJob \/ EndJob \/ GetWorkerStats \/ UNCHANGED poolVars
        PROVE  UNCHANGED <<worker, closing, hasQueue, hasStats>>
      BY <2>8 DEF AddJob, StartJob, EndJob, GetWorkerStats, statVars, jobVars, poolVars
  <2> QED BY <2>1, <2>2, <2>3, <2>4, <2>5, <2>6, <2>7, <2>8 DEF PoolNext
<1>3. ClosingInv => QueuesHaveStats
    BY DEF ClosingInv
<1> QED BY <1>1, <1>2, <1>3, PTL DEF PoolSpec

-----------------------------------------------------------------------------
(* ClusterManager                                                          *)

\* Workers that came to serve without taking another's place
Originals == {w \in served : replaces[w] = 0}

\* A worker that has listened is past its start: it can listen but once.
ForksInv ==
    /\ state \in [Workers -> WorkerStates]
    /\ served \subseteq Workers
    /\ replaces \in [Workers -> 0 .. MaxForks]
    /\ crashes \in Nat /\ kills \in Nat
    /\ \A w \in served : state[w] \notin {"none", "starting"}

GracefulInv == ForksInv /\ RestartsGraceful

\* Sets of workers can be counted, and the larger set has the larger count.
LEMMA WorkersCounted ==
    ASSUME NEW S \in SUBSET Workers, NEW T \in SUBSET Workers
    PROVE  /\ IsFiniteSet(S) /\ Cardinality(S) \in Nat
           /\ S \subseteq T => Cardinality(S) <= Cardinality(T)
<1>1. IsFiniteSet(Workers)
    BY ClusterAssumption, FS_Interval DEF Workers
<1>2. IsFiniteSet(S) /\ IsFiniteSet(T)
    BY <1>1, FS_Subset
<1> QED BY <1>2, FS_Subset, FS_CardinalityType

\* Who loses one worker at most is one short at most, and one who loses one
\* and gains another is none short.
LEMMA OneLost ==
    ASSUME NEW S \in SUBSET Workers, NEW T \in SUBSET Workers, NEW w,
           S \ {w} \subseteq T
    PROVE  /\ Cardinality(S) <= Cardinality(T) + 1
           /\ \A v \in T \ S : Cardinality(S) <= Cardinality(T)
<1>1. IsFiniteSet(S) /\ Cardinality(S) \in Nat /\ Cardinality(T) \in Nat
    BY WorkersCounted
<1>2. /\ IsFiniteSet(S \ {w})
      /\ Cardinality(S \ {w}) = IF w \in S THEN Cardinality(S) - 1 ELSE Cardinality(S)
    BY <1>1, FS_RemoveElement
<1>3. Cardinality(S \ {w}) <= Cardinality(T)
    BY WorkersCounted
<1>4. ASSUME NEW v \in T \ S PROVE Cardinality(S) <= Cardinality(T)
  <2>1. (S \ {w}) \cup {v} \in SUBSET Workers /\ (S \ {w}) \cup {v} \subseteq T
      OBVIOUS
  <2>2. Cardinality((S \ {w}) \cup {v}) <= Cardinality(T)
      BY <2>1, WorkersCounted
  <2>3. Cardinality((S \ {w}) \cup {v}) = Cardinality(S \ {w}) + 1
      BY <1>2, FS_AddElement
  <2> QED BY <1>1, <1>2, <2>2, <2>3
<1> QED BY <1>1, <1>2, <1>3, <1>4

\* One worker more.
LEMMA OneGained ==
    ASSUME NEW S \in SUBSET Workers, NEW T \in SUBSET Workers, NEW w,
           w \in T \ S, S \subseteq T
    PROVE  Cardinality(S) + 1 <= Cardinality(T)
<1>1. IsFiniteSet(S)
    BY WorkersCounted
<1>2. Cardinality(S \cup {w}) = Cardinality(S) + 1
    BY <1>1, FS_AddElement
<1>3. S \cup {w} \in SUBSET Workers /\ S \cup {w} \subseteq T
    OBVIOUS
<1> QED BY <1>2, <1>3, WorkersCounted

\* Who serves and who has died, together.
LEMMA NoneShort ==
    ASSUME NEW n \in Nat, NEW c \in Nat, NEW k \in Nat,
           NEW m \in Nat, NEW d \in Nat, NEW l \in Nat,
           \/ n <= m /\ d + l >= c + k
           \/ n <= m + 1 /\ d + l >= c + k + 1
    PROVE  n + c + k <= m + d + l
OBVIOUS

\* A step that loses no listener, brings no new one to serve and counts no
\* death or kill less keeps the balance; so does one that loses a listener
\* and counts it.
LEMMA BalanceKept ==
    ASSUME GracefulInv, ForksInv', NEW w,
           Originals' = Originals, clusterDown' = clusterDown,
           \/ Listening \subseteq Listening' /\ crashes' + kills' >= crashes + kills
           \/ Listening \ {w} \subseteq Listening' /\ crashes' + kills' >= crashes + kills + 1
    PROVE  GracefulInv'
<1>1. Listening \in SUBSET Workers /\ Listening' \in SUBSET Workers
    BY DEF Listening
<1>2. Originals \in SUBSET Workers
    BY DEF Originals, GracefulInv, ForksInv
<1>3. /\ Cardinality(Listening) \in Nat /\ Cardinality(Listening') \in Nat
      /\ Cardinality(Originals) \in Nat
    BY <1>1, <1>2, WorkersCounted
<1>4. crashes \in Nat /\ kills \in Nat /\ crashes' \in Nat /\ kills' \in Nat
    BY DEF GracefulInv, ForksInv
<1>5. Cardinality(Listening) + crashes + kills
          <= Cardinality(Listening') + crashes' + kills'
  <2>1. CASE Listening \subseteq Listening' /\ crashes' + kills' >= crashes + kills
    <3>1. Cardinality(Listening) <= Cardinality(Listening')
        BY <1>1, <2>1, WorkersCounted
    <3> QED BY <1>3, <1>4, <2>1, <3>1, NoneShort
  <2>2. CASE Listening \ {w} \subseteq Listening' /\ crashes' + kills' >= crashes + kills + 1
    <3>1. Cardinality(Listening) <= Cardinality(Listening') + 1
        BY <1>1, <2>2, OneLost
    <3> QED BY <1>3, <1>4, <2>2, <3>1, NoneShort
  <2> QED BY <2>1, <2>2
<1>6. clusterDown \/ Cardinality(Listening) + crashes + kills >= Cardinality(Originals)
    BY DEF GracefulInv, RestartsGraceful, Originals
<1>7. clusterDown' \/ Cardinality(Listening') + crashes' + kills' >= Cardinality(Originals')
    BY <1>3, <1>4, <1>5, <1>6
<1> QED BY <1>7 DEF GracefulInv, RestartsGraceful, Originals

\* A worker that has not been forked neither serves nor listens: forking it,
\* for whichever reason, leaves the balance alone.
LEMMA ForkKeeps ==
    ASSUME GracefulInv, NEW w \in Workers, state[w] = "none",
           state' = [state EXCEPT ![w] = "starting"],
           replaces' \in [Workers -> 0 .. MaxForks],
           \A v \in Workers \ {w} : replaces'[v] = replaces[v],
           UNCHANGED <<served, clusterDown, crashes, kills>>
    PROVE  GracefulInv'
<1>1. w \notin served
    BY DEF GracefulInv, ForksInv
<1>2. ForksInv'
    BY <1>1 DEF GracefulInv, ForksInv, WorkerStates
<1>3. Listening \subseteq Listening'
    BY DEF GracefulInv, ForksInv, Listening
<1>4. Originals' = Originals
    BY <1>1 DEF GracefulInv, ForksInv, Originals
<1>5. crashes' + kills' >= crashes + kills
    BY DEF GracefulInv, ForksInv
<1> QED BY <1>2, <1>3, <1>4, <1>5, BalanceKept

\* A worker that listens for the first time is one more that serves; if it
\* replaces another, that one goes, but it is not counted itself.
LEMMA ListensKeeps ==
    ASSUME GracefulInv, NEW w \in Workers, WorkerListens(w)
    PROVE  GracefulInv'
<1> DEFINE old == replaces[w]
           goes == old \in Alive
<1>1. /\ state[w] = "starting" /\ w \notin served
      /\ served' = served \cup {w}
      /\ UNCHANGED <<replaces, clusterDown, crashes, kills>>
    BY DEF WorkerListens, GracefulInv, ForksInv
<1>2. state' = [v \in Workers |->
                   IF v = w THEN "listening"
                   ELSE IF v = old /\ goes THEN "leaving" ELSE state[v]]
    BY DEF WorkerListens
<1>3. ForksInv'
    BY <1>1, <1>2 DEF GracefulInv, ForksInv, WorkerStates, Alive
<1>4. /\ Listening \in SUBSET Workers /\ Listening' \in SUBSET Workers
      /\ Originals \in SUBSET Workers /\ Originals' \in SUBSET Workers
    BY <1>3 DEF Listening, Originals, GracefulInv, ForksInv
<1>5. w \in Listening' \ Listening
    BY <1>1, <1>2 DEF Listening
<1>6. /\ Cardinality(Listening) \in Nat /\ Cardinality(Listening') \in Nat
      /\ Cardinality(Originals) \in Nat /\ Cardinality(Originals') \in Nat
      /\ crashes \in Nat /\ kills \in Nat
    BY <1>4, WorkersCounted DEF GracefulInv, ForksInv
<1>7. clusterDown \/ Cardinality(Listening) + crashes + kills >= Cardinality(Originals)
    BY DEF GracefulInv, RestartsGraceful, Originals
<1>8. clusterDown' \/ Cardinality(Listening') + crashes + kills >= Cardinality(Originals')
  <2>1. CASE goes
    <3>1. old # 0
        BY <2>1 DEF Alive, Workers
    <3>2. Originals' = Originals
        BY <1>1, <3>1 DEF Originals
    <3>3. Listening \ {old} \subseteq Listening'
        BY <1>2 DEF Listening
    <3>4. Cardinality(Listening) <= Cardinality(Listening')
        BY <1>4, <1>5, <3>3, OneLost
    <3> QED BY <1>1, <1>6, <1>7, <3>2, <3>4
  <2>2. CASE ~goes
    <3>1. Listening \subseteq Listening'
        BY <1>2, <2>2 DEF Listening
    <3>2. Cardinality(Listening) + 1 <= Cardinality(Listening')
        BY <1>4, <1>5, <3>1, OneGained
    <3>3. Originals' \ {w} \subseteq Originals
        BY <1>1 DEF Originals
    <3>4. Cardinality(Originals') <= Cardinality(Originals) + 1
        BY <1>4, <3>3, OneLost
    <3> QED BY <1>1, <1>6, <1>7, <3>2, <3>4
  <2> QED BY <2>1, <2>2
<1> QED BY <1>1, <1>3, <1>8 DEF GracefulInv, RestartsGraceful, Originals

\* The workers forked first are all there is, and nobody has served yet.
LEMMA InitGraceful == ClusterInit => GracefulInv
<1> SUFFICES ASSUME ClusterInit PROVE GracefulInv
    OBVIOUS
<1>1. ForksInv
    BY ClusterAssumption DEF ClusterInit, ForksInv, WorkerStates
<1>2. Originals = {} /\ Cardinality({}) = 0
    BY FS_EmptySet DEF ClusterInit, Originals
<1>3. Listening \in SUBSET Workers
    BY DEF Listening
<1>4. Cardinality(Listening) \in Nat
    BY <1>3, WorkersCounted
<1>5. Cardinality(Listening) + crashes + kills >= Cardinality(Originals)
    BY <1>1, <1>2, <1>4 DEF ForksInv
<1> QED BY <1>1, <1>5 DEF GracefulInv, RestartsGraceful, Originals

\* A fork, a worker that listens, dies or is killed, and a restart keep the
\* counts.
LEMMA ClusterStep == GracefulInv /\ [ClusterNext]_clusterVars => GracefulInv'
<1> SUFFICES ASSUME GracefulInv, [ClusterNext]_clusterVars PROVE GracefulInv'
    OBVIOUS
<1>1. crashes \in Nat /\ kills \in Nat
    BY DEF GracefulInv, ForksInv
<1>2. CASE UNCHANGED <<state, served, replaces, clusterDown, crashes, kills>>
    BY <1>2 DEF GracefulInv, ForksInv, RestartsGraceful, Listening
<1>3. ASSUME NEW w \in Workers, WorkerDies(w) PROVE GracefulInv'
  <2>1. /\ state' = [state EXCEPT ![w] = "dead"]
        /\ crashes' = crashes + 1
        /\ UNCHANGED <<served, replaces, clusterDown, kills>>
      BY <1>3 DEF WorkerDies, Exit
  <2>2. ForksInv'
      BY <2>1 DEF GracefulInv, ForksInv, WorkerStates
  <2>3. Listening \ {w} \subseteq Listening'
      BY <2>1 DEF GracefulInv, ForksInv, Listening
  <2> QED BY <1>1, <2>1, <2>2, <2>3, BalanceKept DEF Originals
<1>4. ASSUME NEW w \in Workers, WorkerLeaves(w) PROVE GracefulInv'
  <2>1. /\ state[w] = "leaving" /\ state' = [state EXCEPT ![w] = "dead"]
        /\ UNCHANGED <<served, replaces, clusterDown, crashes, kills>>
      BY <1>4 DEF WorkerLeaves, Exit
  <2>2. ForksInv'
      BY <2>1 DEF GracefulInv, ForksInv, WorkerStates
  <2>3. Listening \subseteq Listening'
      BY <2>1 DEF GracefulInv, ForksInv, Listening
  <2> QED BY <1>1, <2>1, <2>2, <2>3, BalanceKept DEF Originals
<1>5. ASSUME NEW w \in Workers, WorkerListens(w) PROVE GracefulInv'
    BY <1>5, ListensKeeps
<1>6. ASSUME NEW w \in Workers, Respawn(w) PROVE GracefulInv'
  <2>1. state[w] = "none" /\ replaces \in [Workers -> 0 .. MaxForks]
      BY <1>6 DEF Respawn, IsNext, Unforked, GracefulInv, ForksInv
  <2> QED BY <1>6, <2>1, ForkKeeps DEF Respawn
<1>7. ASSUME NEW old \in Alive, NEW new \in Workers, IsNext(new), Replace(old, new),
             UNCHANGED <<served, clusterDown, crashes, kills>>
      PROVE  GracefulInv'
  <2>1. old \in 0 .. MaxForks
      BY ClusterAssumption DEF Alive, Workers
  <2>2. state[new] = "none"
      BY <1>7 DEF IsNext, Unforked
  <2>3. /\ replaces' \in [Workers -> 0 .. MaxForks]
        /\ \A v \in Workers \ {new} : replaces'[v] = replaces[v]
      BY <1>7, <2>1 DEF Replace, GracefulInv, ForksInv
  <2> QED BY <1>7, <2>2, <2>3, ForkKeeps DEF Replace
<1>8. ASSUME NEW new \in Workers, RollOne(new) PROVE GracefulInv'
    BY <1>7, <1>8 DEF RollOne
<1>9. ASSUME NEW old \in Workers, NEW new \in Workers, RestartWorker(old, new)
      PROVE  GracefulInv'
    BY <1>7, <1>9 DEF RestartWorker
<1>10. ASSUME NEW w \in Workers, KillWorker(w) PROVE GracefulInv'
  <2>1. /\ state' = [state EXCEPT ![w] = "leaving"]
        /\ kills' = kills + 1
        /\ UNCHANGED <<served, replaces, clusterDown, crashes>>
      BY <1>10 DEF KillWorker
  <2>2. ForksInv'
      BY <2>1 DEF GracefulInv, ForksInv, WorkerStates
  <2>3. Listening \ {w} \subseteq Listening'
      BY <2>1 DEF GracefulInv, ForksInv, Listening
  <2> QED BY <1>1, <2>1, <2>2, <2>3, BalanceKept DEF Originals
<1>11. CASE ShutdownCluster
  <2>1. ForksInv' /\ clusterDown'
      BY <1>11 DEF ShutdownCluster, GracefulInv, ForksInv, WorkerStates
  <2> QED BY <2>1 DEF GracefulInv, RestartsGraceful
<1>12. CASE RestartAllWorkers \/ RollOn \/ RollFails
    BY <1>2, <1>12 DEF RestartAllWorkers, RollOn, RollFails
<1>13. CASE UNCHANGED clusterVars
    BY <1>2, <1>13 DEF clusterVars
<1> QED BY <1>3, <1>4, <1>5, <1>6, <1>8, <1>9, <1>10, <1>11, <1>12, <1>13 DEF ClusterNext

\* ClusterManager.restartWorker, restartAllWorkers, killWorker and the
\* listening and exit handlers: until a shutdown no restart costs a worker,
\* for any number of workers, restarts that overlap, deaths and kills.
THEOREM RestartsLoseNobody == ClusterSpec => []RestartsGraceful
<1>1. GracefulInv => RestartsGraceful
    BY DEF GracefulInv
<1> QED BY <1>1, InitGraceful, ClusterStep, PTL DEF ClusterSpec

-----------------------------------------------------------------------------
(* AutoScaler                                                              *)

\* Each scaling that is kept has a rule of its own, whose cooldown began with
\* it and has not ended.
Spends(rule, age, kept) ==
    /\ rule \in Injection(DOMAIN kept, Rules)
    /\ \A i \in DOMAIN kept : age[rule[i]] = kept[i] /\ kept[i] < RuleCooldown

\* The rules' cooldowns against the scalings that are kept, oldest first
CooldownInv ==
    /\ ruleAge \in [Rules -> 0 .. RuleCooldown]
    /\ history \in Seq(Nat)
    /\ \A i, j \in DOMAIN history : i < j => history[i] >= history[j]
    /\ RuleCooldown > 0 => \E rule : Spends(rule, ruleAge, history)

\* Who scales has a vote: without one the target is where it was.
LEMMA ScalingHasVoter ==
    ASSUME NEW level \in [Rules -> Levels], Target(level) # instances
    PROVE  Voters(level) # {}
<1> SUFFICES ASSUME Voters(level) = {} PROVE FALSE
    OBVIOUS
<1>1. {r \in Fresh : level[r] = "high"} = {} /\ {r \in Fresh : level[r] = "low"} = {}
    BY DEF Voters, Fresh
<1>2. UpVotes(level) = 0 /\ DownVotes(level) = 0
    BY <1>1, FS_EmptySet DEF UpVotes, DownVotes
<1> QED BY <1>2 DEF Target

\* The end of an evaluation: rules that vote were out of their cooldown, so
\* that no scaling kept has spent them; the new one spends any of them.
LEMMA EvaluationSpends ==
    ASSUME CooldownInv, NEW level \in [Rules -> Levels], EndEvaluation(level)
    PROVE  CooldownInv'
<1>1. RuleCooldown \in Nat
    BY ScalerAssumption
<1>2. ruleAge' = [r \in Rules |-> IF r \in Voters(level) THEN 0 ELSE ruleAge[r]]
    BY DEF EndEvaluation
<1>3. ruleAge' \in [Rules -> 0 .. RuleCooldown]
    BY <1>1, <1>2 DEF CooldownInv
<1>4. \A r \in Voters(level) : r \in Rules /\ ruleAge[r] >= RuleCooldown
    BY DEF Voters, Fresh
<1>5. history' = history \/ (history' = Append(history, 0) /\ Target(level) # instances)
    BY DEF EndEvaluation, NoAction, Scales
<1>6. /\ history' \in Seq(Nat)
      /\ \A i, j \in DOMAIN history' : i < j => history'[i] >= history'[j]
  <2>1. CASE history' = history
      BY <2>1 DEF CooldownInv
  <2>2. CASE history' = Append(history, 0)
    <3>1. history \in Seq(Nat) /\ history' \in Seq(Nat)
        BY <2>2 DEF CooldownInv
    <3>2. /\ Len(history) \in Nat /\ DOMAIN history = 1 .. Len(history)
          /\ DOMAIN history' = 1 .. Len(history) + 1
          /\ history'[Len(history) + 1] = 0
          /\ \A i \in DOMAIN history : history'[i] = history[i] /\ history[i] \in Nat
        BY <2>2, <3>1
    <3>3. ASSUME NEW i \in DOMAIN history', NEW j \in DOMAIN history', i < j
          PROVE  history'[i] >= history'[j]
      <4>1. i \in DOMAIN history /\ (j \in DOMAIN history \/ j = Len(history) + 1)
          BY <3>2, <3>3
      <4> QED BY <3>2, <3>3, <4>1 DEF CooldownInv
    <3> QED BY <3>1, <3>3
  <2> QED BY <1>5, <2>1, <2>2
<1>7. ASSUME RuleCooldown > 0 PROVE \E rule : Spends(rule, ruleAge', history')
  <2>1. PICK rule : Spends(rule, ruleAge, history)
      BY <1>7 DEF CooldownInv
  <2>2. /\ rule \in [DOMAIN history -> Rules]
        /\ \A i, j \in DOMAIN history : rule[i] = rule[j] => i = j
      BY <2>1 DEF Spends, Injection, IsInjective
  <2>3. \A i \in DOMAIN history : rule[i] \notin Voters(level)
      BY <1>1, <1>4, <2>1, <2>2 DEF Spends, CooldownInv
  <2>4. \A i \in DOMAIN history : ruleAge'[rule[i]] = history[i] /\ history[i] < RuleCooldown
      BY <1>2, <2>1, <2>2, <2>3 DEF Spends
  <2>5. CASE history' = history
      BY <2>1, <2>4, <2>5 DEF Spends
  <2>6. CASE history' = Append(history, 0) /\ Target(level) # instances
    <3>1. PICK v : v \in Voters(level)
        BY <2>6, ScalingHasVoter
    <3>2. v \in Rules /\ ruleAge'[v] = 0
        BY <1>2, <1>4, <3>1
    <3> DEFINE n == Len(history)
               rule2 == [i \in DOMAIN history' |-> IF i <= n THEN rule[i] ELSE v]
    <3>3. /\ n \in Nat /\ DOMAIN history = 1 .. n /\ DOMAIN history' = 1 .. n + 1
          /\ history'[n + 1] = 0 /\ \A i \in 1 .. n : history'[i] = history[i]
        BY <2>6 DEF CooldownInv
    <3>4. rule2 \in [DOMAIN history' -> Rules]
        BY <2>2, <3>2, <3>3
    <3>5. rule2[n + 1] = v /\ \A i \in 1 .. n : rule2[i] = rule[i]
        BY <3>3
    <3> HIDE DEF rule2, n
    <3>6. \A i, j \in DOMAIN history' : rule2[i] = rule2[j] => i = j
        BY <2>2, <2>3, <3>1, <3>3, <3>5
    <3>7. \A i \in DOMAIN history' :
              ruleAge'[rule2[i]] = history'[i] /\ history'[i] < RuleCooldown
        BY <1>1, <1>7, <2>4, <3>2, <3>3, <3>5
    <3>8. Spends(rule2, ruleAge', history')
        BY <3>4, <3>6, <3>7 DEF Spends, Injection, IsInjective
    <3> QED BY <3>8
  <2> QED BY <1>5, <2>5, <2>6
<1> QED BY <1>3, <1>6, <1>7 DEF CooldownInv

\* A tick: the scalings that are no longer kept are those whose rule has had
\* its cooldown.
LEMMA TickSpends ==
    ASSUME CooldownInv, TimePasses
    PROVE  CooldownInv'
<1>1. RuleCooldown \in Nat
    BY ScalerAssumption
<1>2. ruleAge' = [r \in Rules |-> Least(ruleAge[r] + 1, RuleCooldown)]
    BY DEF TimePasses
<1>3. ruleAge' \in [Rules -> 0 .. RuleCooldown]
    BY <1>1, <1>2 DEF CooldownInv, Least
<1>4. PICK n \in 0 .. Len(history) :
          /\ \A i \in DOMAIN history : history[i] + 1 >= RuleCooldown <=> i <= n
          /\ history' = [i \in 1 .. Len(history) - n |-> history[n + i] + 1]
    BY DEF TimePasses, Forgets
<1> DEFINE m == Len(history) - n
<1>5. /\ m \in Nat /\ DOMAIN history = 1 .. n + m
      /\ history' = [i \in 1 .. m |-> history[n + i] + 1]
      /\ \A i \in 1 .. m : n + i \in DOMAIN history /\ history[n + i] \in Nat
    BY <1>4 DEF CooldownInv
<1> HIDE DEF m
<1>6. /\ history' \in Seq(Nat) /\ DOMAIN history' = 1 .. m
      /\ \A i \in 1 .. m : history'[i] = history[n + i] + 1
  <2> DEFINE rest == [i \in 1 .. m |-> history[n + i] + 1]
  <2>1. ASSUME NEW i \in 1 .. m PROVE history[n + i] + 1 \in Nat
    <3>1. history[n + i] \in Nat
        BY <1>5
    <3> QED BY <3>1
  <2>2. /\ rest \in [1 .. m -> Nat] /\ DOMAIN rest = 1 .. m
        /\ \A i \in 1 .. m : rest[i] = history[n + i] + 1
      BY <2>1
  <2> HIDE DEF rest
  <2>3. rest \in Seq(Nat)
      BY <1>5, <2>2
  <2>4. history' = rest
      BY <1>5 DEF rest
  <2> QED BY <2>2, <2>3, <2>4
<1>7. ASSUME NEW i \in DOMAIN history', NEW j \in DOMAIN history', i < j
      PROVE  history'[i] >= history'[j]
  <2>1. i \in 1 .. m /\ j \in 1 .. m /\ n \in Nat
      BY <1>6
  <2>2. n + i \in DOMAIN history /\ n + j \in DOMAIN history /\ n + i < n + j
      BY <1>5, <1>7, <2>1
  <2>3. history[n + i] >= history[n + j]
      BY <2>2 DEF CooldownInv
  <2>4. history[n + i] \in Nat /\ history[n + j] \in Nat
      BY <1>5, <2>1
  <2>5. history[n + i] + 1 >= history[n + j] + 1
      BY <2>3, <2>4
  <2> QED BY <1>6, <2>1, <2>5
<1>8. ASSUME RuleCooldown > 0 PROVE \E rule : Spends(rule, ruleAge', history')
  <2>1. PICK rule : Spends(rule, ruleAge, history)
      BY <1>8 DEF CooldownInv
  <2>2. /\ rule \in [DOMAIN history -> Rules]
        /\ \A i, j \in DOMAIN history : rule[i] = rule[j] => i = j
      BY <2>1 DEF Spends, Injection, IsInjective
  <2> DEFINE rule2 == [i \in DOMAIN history' |-> rule[n + i]]
  <2>3. rule2 \in [DOMAIN history' -> Rules]
      BY <1>5, <1>6, <2>2
  <2>4. \A i \in 1 .. m : rule2[i] = rule[n + i]
      BY <1>6
  <2> HIDE DEF rule2
  <2>5. \A i, j \in DOMAIN history' : rule2[i] = rule2[j] => i = j
    <3>1. ASSUME NEW i \in 1 .. m, NEW j \in 1 .. m, rule[n + i] = rule[n + j]
          PROVE  i = j
      <4>1. n + i = n + j
          BY <1>5, <2>2, <3>1
      <4> QED BY <1>5, <4>1
    <3>2. \A i, j \in 1 .. m : rule2[i] = rule2[j] => rule[n + i] = rule[n + j]
        BY <2>4
    <3> QED BY <1>6, <3>1, <3>2
  <2>6. ASSUME NEW i \in 1 .. m
        PROVE  ruleAge'[rule2[i]] = history'[i] /\ history'[i] < RuleCooldown
    <3>1. /\ n + i \in DOMAIN history /\ history[n + i] \in Nat
          /\ ~(history[n + i] + 1 >= RuleCooldown)
      <4>1. ~(n + i <= n)
          BY <1>5
      <4> QED BY <1>4, <1>5, <4>1
    <3>2. rule[n + i] \in Rules /\ ruleAge[rule[n + i]] = history[n + i]
        BY <2>1, <2>2, <3>1 DEF Spends
    <3>3. ruleAge'[rule[n + i]] = history[n + i] + 1
        BY <1>1, <1>2, <3>1, <3>2 DEF Least
    <3> QED BY <1>1, <1>6, <2>4, <3>1, <3>3
  <2>7. Spends(rule2, ruleAge', history')
      BY <1>6, <2>3, <2>5, <2>6 DEF Spends, Injection, IsInjective
  <2> QED BY <2>7
<1> QED BY <1>3, <1>6, <1>7, <1>8 DEF CooldownInv

\* At the start nothing was scaled.
LEMMA InitCooldown == ScalerInit => CooldownInv
<1> SUFFICES ASSUME ScalerInit PROVE CooldownInv
    OBVIOUS
<1>1. RuleCooldown \in Nat
    BY ScalerAssumption
<1>2. history = <<>> /\ DOMAIN history = {} /\ history \in Seq(Nat)
    BY DEF ScalerInit
<1>3. Spends(<<>>, ruleAge, history)
  <2>1. <<>> \in [{} -> Rules]
      OBVIOUS
  <2> QED BY <1>2, <2>1 DEF Spends, Injection, IsInjective
<1> QED BY <1>1, <1>2, <1>3 DEF ScalerInit, CooldownInv

\* A scaling spends the cooldown of a rule; time gives it back when the scaling
\* is forgotten.
LEMMA CooldownStep == CooldownInv /\ [ScalerNext]_scalerVars => CooldownInv'
<1> SUFFICES ASSUME CooldownInv, [ScalerNext]_scalerVars PROVE CooldownInv'
    OBVIOUS
<1>1. CASE UNCHANGED <<ruleAge, history>>
    BY <1>1 DEF CooldownInv, Spends
<1>2. ASSUME NEW level \in [Rules -> Levels], EndEvaluation(level) PROVE CooldownInv'
    BY <1>2, EvaluationSpends
<1>3. CASE TimePasses
    BY <1>3, TickSpends
<1>4. CASE StartScaler \/ StopScaler \/ StartEvaluation
    BY <1>1, <1>4 DEF StartScaler, StopScaler, StartEvaluation
<1>5. ASSUME NEW on \in BOOLEAN, SetScaler(on) PROVE CooldownInv'
    BY <1>1, <1>5 DEF SetScaler
<1>6. ASSUME NEW n \in MinInstances .. MaxInstances, SetInstanceCount(n)
      PROVE  CooldownInv'
    BY <1>1, <1>6 DEF SetInstanceCount
<1>7. CASE UNCHANGED scalerVars
    BY <1>1, <1>7 DEF scalerVars
<1> QED BY <1>2, <1>3, <1>4, <1>5, <1>6, <1>7 DEF ScalerNext

\* AutoScaler.evaluateScaling: no more scalings fall within one cooldown of
\* the rules than there are rules, for any number of evaluations that await
\* their metrics together.
THEOREM BurstIsBounded == ScalerSpec => []BurstBounded
<1>1. CooldownInv => BurstBounded
  <2> SUFFICES ASSUME CooldownInv, RuleCooldown > 0
               PROVE  Len(history) <= Cardinality(Rules)
      BY DEF BurstBounded
  <2>1. PICK rule : Spends(rule, ruleAge, history)
      BY DEF CooldownInv
  <2>2. Len(history) \in Nat /\ DOMAIN history = 1 .. Len(history)
      BY DEF CooldownInv
  <2>3. Cardinality(1 .. Len(history)) = Len(history)
    <3> DEFINE n == Len(history)
    <3> HIDE DEF n
    <3>1. n \in Nat
        BY <2>2 DEF n
    <3>2. Cardinality(1 .. n) = n
        BY <3>1, FS_Interval
    <3> QED BY <3>2 DEF n
  <2>4. rule \in Injection(1 .. Len(history), Rules) /\ IsFiniteSet(Rules)
      BY <2>1, <2>2, ScalerAssumption DEF Spends
  <2>5. Cardinality(1 .. Len(history)) <= Cardinality(Rules)
      BY <2>4, FS_Injection
  <2> QED BY <2>3, <2>5
<1> QED BY <1>1, InitCooldown, CooldownStep, PTL DEF ScalerSpec

-----------------------------------------------------------------------------
(* Types.                                                                  *)

\* HealthChecker and FailoverManager: every count and flag stays in range.
LEMMA FailoverTyped ==
    /\ FailoverInit => FailoverTypeOK
    /\ FailoverTypeOK /\ [FailoverNext]_failoverVars => FailoverTypeOK'
<1>. USE FailoverAssumption
<1>1. ASSUME FailoverInit PROVE FailoverTypeOK
  <2>1. /\ up \in BOOLEAN /\ listed \in BOOLEAN /\ healthy \in BOOLEAN
        /\ polling \in BOOLEAN /\ failoverOn \in BOOLEAN /\ shuttingDown \in BOOLEAN
    BY <1>1, Zenon DEF FailoverInit
  <2>2. /\ service = NoService /\ checking = "no" /\ lastAction = "none"
        /\ failures = 0 /\ successes = 0 /\ outages = 0 /\ switches = 0
        /\ attempts = 0 /\ alerting = 0 /\ waiting = 0 /\ settling = 0
        /\ readings = [b \in BOOLEAN |-> 0]
    BY <1>1, Zenon DEF FailoverInit
  <2>. QED BY <2>1, <2>2 DEF FailoverTypeOK
<1>2. ASSUME FailoverTypeOK, [FailoverNext]_failoverVars PROVE FailoverTypeOK'
  <2>. USE <1>2 DEF FailoverTypeOK
  <2>1. ASSUME NEW ok \in BOOLEAN, UpdateServiceHealth(ok)
        PROVE  /\ listed' \in BOOLEAN /\ healthy' \in BOOLEAN
               /\ failures' \in 0 .. UnhealthyAfter /\ successes' \in 0 .. HealthyAfter
    <3>1. listed' \in BOOLEAN
      BY <2>1 DEF UpdateServiceHealth
    <3>2. CASE UNCHANGED <<healthy, failures, successes>>
      BY <3>1, <3>2
    <3>3. CASE Update(ok)
      BY <3>1, <3>3 DEF Update
    <3>. QED BY <2>1, <3>2, <3>3 DEF UpdateServiceHealth
  <2>2. ASSUME NEW cured, Respond(cured)
        PROVE  attempts' \in Nat /\ waiting' \in Nat /\ alerting' \in Nat
    BY <2>2 DEF Respond
  <2>3. CASE GoesDown \/ ComesBack
    <3>1. up' \in BOOLEAN
      BY <2>3, Zenon DEF GoesDown, ComesBack
    <3>2. \/ outages' = outages
          \/ outages < MaxOutages /\ outages' = outages + 1
      BY <2>3, Zenon DEF GoesDown, ComesBack
    <3>3. UNCHANGED <<service, readings, checking, statusVars, recoveryVars, switchVars>>
      BY <2>3, Zenon DEF GoesDown, ComesBack
    <3>. QED BY <3>1, <3>2, <3>3 DEF statusVars, recoveryVars, switchVars
  <2>4. ASSUME NEW s \in Services, RegisterService(s) PROVE FailoverTypeOK'
    BY <2>4 DEF RegisterService, recoveryVars, switchVars
  <2>5. CASE UnregisterService
    <3>1. listed' \in BOOLEAN /\ switches < MaxSwitches /\ switches' = switches + 1
      BY <2>5, Zenon DEF UnregisterService
    <3>2. UNCHANGED <<service, up, outages, readings, checking, healthy, failures,
                      successes, recoveryVars, polling, failoverOn, shuttingDown>>
      BY <2>5, Zenon DEF UnregisterService
    <3>. QED BY <3>1, <3>2 DEF recoveryVars
  <2>6. ASSUME Poll PROVE /\ readings' \in [BOOLEAN -> 0 .. MaxReadings]
                          /\ UNCHANGED <<service, up, outages, checking, statusVars, recoveryVars>>
    <3>1. Reading \in BOOLEAN
      BY Zenon DEF Reading
    <3>. HIDE <1>2
    <3>2. readings \in [BOOLEAN -> 0 .. MaxReadings]
      BY <1>2
    <3>3. /\ readings[Reading] < MaxReadings
          /\ readings' = [readings EXCEPT ![Reading] = @ + 1]
      BY <2>6, Zenon DEF Poll
    <3>4. ASSUME NEW seen \in BOOLEAN, readings[seen] < MaxReadings,
                 readings' = [readings EXCEPT ![seen] = @ + 1]
          PROVE  readings' \in [BOOLEAN -> 0 .. MaxReadings]
      BY <3>2, <3>4
    <3>5. UNCHANGED <<service, up, outages, checking, statusVars, recoveryVars>>
      BY <2>6, Zenon DEF Poll
    <3>. QED BY <3>1, <3>3, <3>4, <3>5, Zenon
  <2>7. CASE StartChecks \/ Interval
    <3>1. CASE StartChecks
      BY <2>6, <3>1 DEF StartChecks, statusVars, recoveryVars, switchVars
    <3>2. CASE Interval
      BY <2>6, <3>2 DEF Interval, statusVars, recoveryVars, switchVars
    <3>. QED BY <2>7, <3>1, <3>2
  <2>8. CASE StopChecks
    <3>1. polling' \in BOOLEAN /\ switches < MaxSwitches /\ switches' = switches + 1
      BY <2>8, Zenon DEF StopChecks
    <3>2. UNCHANGED <<service, up, outages, readings, checking, statusVars,
                      recoveryVars, failoverOn, shuttingDown>>
      BY <2>8, Zenon DEF StopChecks
    <3>. QED BY <3>1, <3>2 DEF statusVars, recoveryVars
  <2>9. ASSUME NEW ok \in BOOLEAN, PollEnds(ok) PROVE FailoverTypeOK'
    BY <2>1, <2>2, <2>9 DEF PollEnds, switchVars
  <2>10. CASE CriticalAlertSent
    BY <2>10 DEF CriticalAlertSent, statusVars, switchVars
  <2>11. CASE RestartService
    BY <2>11 DEF RestartService, statusVars, switchVars
  <2>12. CASE CheckServiceHealth
    BY <2>12 DEF CheckServiceHealth, statusVars, switchVars
  <2>13. CASE CheckReads
    BY <2>13 DEF CheckReads, statusVars, recoveryVars, switchVars
  <2>14. CASE CheckEnds
    BY <2>1, <2>2, <2>14 DEF CheckEnds, switchVars
  <2>15. ASSUME NEW on \in BOOLEAN, SetFailover(on) PROVE FailoverTypeOK'
    BY <2>15 DEF SetFailover, statusVars, recoveryVars
  <2>16. CASE ShutdownFailover
    <3>1. /\ shuttingDown' \in BOOLEAN /\ failoverOn' \in BOOLEAN
          /\ switches < MaxSwitches /\ switches' = switches + 1
      BY <2>16, Zenon DEF ShutdownFailover
    <3>2. UNCHANGED <<service, up, outages, readings, checking, statusVars,
                      recoveryVars, polling>>
      BY <2>16, Zenon DEF ShutdownFailover
    <3>. QED BY <3>1, <3>2 DEF statusVars, recoveryVars
  <2>17. CASE UNCHANGED failoverVars
    BY <2>17 DEF failoverVars, statusVars, recoveryVars, switchVars
  <2>. QED BY <2>3, <2>4, <2>5, <2>7, <2>8, <2>9, <2>10, <2>11, <2>12, <2>13, <2>14, <2>15,
              <2>16, <2>17 DEF FailoverNext
<1>. QED BY <1>1, <1>2

\* DistributedCache: values are versions, and calls go through their stages.
LEMMA CacheTyped ==
    /\ CacheInit => CacheTypeOK
    /\ CacheTypeOK /\ [CacheNext]_cacheVars => CacheTypeOK'
<1>. USE CacheAssumption
<1>1. ASSUME CacheInit PROVE CacheTypeOK
  <2>1. expires \in BOOLEAN
    BY <1>1, Zenon DEF CacheInit
  <2>2. /\ source = 0 /\ cached = NoValue /\ cacheFaults = 0
        /\ method = [c \in CacheCalls |-> "none"]
        /\ at = [c \in CacheCalls |-> "idle"]
        /\ computed = [c \in CacheCalls |-> NoValue]
    BY <1>1, Zenon DEF CacheInit
  <2>. QED BY <2>1, <2>2 DEF CacheTypeOK
<1>2. ASSUME CacheTypeOK, [CacheNext]_cacheVars PROVE CacheTypeOK'
  <2>. USE <1>2 DEF CacheTypeOK
  <2>1. ASSUME NEW c \in CacheCalls, NEW m \in Methods, CallCache(c, m) PROVE CacheTypeOK'
    BY <2>1 DEF CallCache
  <2>2. ASSUME NEW c \in CacheCalls, CacheStep(c) PROVE CacheTypeOK'
    <3>1. CASE SetValue(c) \/ GetValue(c) \/ DeleteValue(c)
      BY <3>1 DEF SetValue, GetValue, DeleteValue, Over
    <3>2. CASE Look(c) \/ Compute(c) \/ Store(c)
      BY <3>2 DEF Look, Compute, Store, Over
    <3>3. CASE Increment(c) \/ SetTtl(c)
      <4>1. expires' \in BOOLEAN
        BY <3>3, Zenon DEF Increment, SetTtl
      <4>2. cached' = cached \/ cached' = 0
        BY <3>3 DEF Increment, SetTtl
      <4>3. UNCHANGED <<source, method, computed, cacheFaults>>
        BY <3>3, Zenon DEF Increment, SetTtl
      <4>4. \E s \in {"expiring", "over"} : at' = [at EXCEPT ![c] = s]
        BY <3>3 DEF Increment, SetTtl, Over
      <4>. QED BY <4>1, <4>2, <4>3, <4>4
    <3>4. CASE FindKeys(c) \/ DeleteKeys(c)
      BY <3>4 DEF FindKeys, DeleteKeys, Over
    <3>. QED BY <2>2, <3>1, <3>2, <3>3, <3>4 DEF CacheStep
  <2>3. ASSUME NEW c \in CacheCalls, CallThrows(c) PROVE CacheTypeOK'
    BY <2>3 DEF CallThrows, Over
  <2>4. CASE Lapse
    <3>1. expires' \in BOOLEAN
      BY <2>4, Zenon DEF Lapse
    <3>2. cached' = NoValue /\ UNCHANGED <<source, method, at, computed, cacheFaults>>
      BY <2>4, Zenon DEF Lapse
    <3>. QED BY <3>1, <3>2
  <2>6. CASE SourceChanges
    BY <2>6 DEF SourceChanges
  <2>5. CASE UNCHANGED cacheVars
    BY <2>5 DEF cacheVars
  <2>. QED BY <2>1, <2>2, <2>3, <2>4, <2>5, <2>6 DEF CacheNext
<1>. QED BY <1>1, <1>2

\* AutoScaler: the increments are among those configured.
LEMMA Increments == ScaleUpIncrement \in Nat /\ ScaleDownIncrement \in Nat
<1>. DEFINE Ups == {UpBy[r] : r \in Rules}
            Downs == {DownBy[r] : r \in Rules}
<1>1. Ups \in SUBSET Nat /\ Downs \in SUBSET Nat /\ Ups # {} /\ Downs # {}
  BY ScalerAssumption
<1>2. IsFiniteSet(Ups)
  <2>1. UpBy \in Surjection(Rules, Ups)
    BY ScalerAssumption DEF Surjection
  <2>. HIDE DEF Ups
  <2>. QED BY <2>1, FS_Surjection, ScalerAssumption
<1>3. Max(Ups) \in Ups /\ Min(Downs) \in Downs
  <2>. HIDE DEF Ups, Downs
  <2>. QED BY <1>1, <1>2, LargestNumber, SmallestNumber
<1>. QED BY <1>1, <1>3 DEF ScaleUpIncrement, ScaleDownIncrement

\* The count of instances stays within its bounds, ages within their cooldowns.
LEMMA ScalerTyped ==
    /\ ScalerInit => ScalerTypeOK
    /\ ScalerTypeOK /\ [ScalerNext]_scalerVars => ScalerTypeOK'
<1>. USE ScalerAssumption
<1>1. ASSUME ScalerInit PROVE ScalerTypeOK
  <2>1. ticking \in BOOLEAN /\ scalerOn \in BOOLEAN
    BY <1>1, Zenon DEF ScalerInit
  <2>2. /\ instances = FirstInstances /\ scaledAge = ScalingCooldown
        /\ ruleAge = [r \in Rules |-> RuleCooldown] /\ collecting = 0 /\ history = <<>>
    BY <1>1, Zenon DEF ScalerInit
  <2>. QED BY <2>1, <2>2 DEF ScalerTypeOK
<1>2. ASSUME ScalerTypeOK, [ScalerNext]_scalerVars PROVE ScalerTypeOK'
  <2>1. /\ instances \in MinInstances .. MaxInstances
        /\ ticking \in BOOLEAN /\ scalerOn \in BOOLEAN
        /\ scaledAge \in 0 .. ScalingCooldown
        /\ ruleAge \in [Rules -> 0 .. RuleCooldown]
        /\ collecting \in 0 .. MaxEvaluations
        /\ history \in Seq(0 .. RuleCooldown)
        /\ \A i, j \in DOMAIN history : i < j => history[i] >= history[j]
    BY <1>2 DEF ScalerTypeOK
  <2>10. \A k \in DOMAIN history : history[k] \in 0 .. RuleCooldown
    BY <2>1
  <2>2. ASSUME UNCHANGED <<instances, scaledAge, ruleAge, history>>,
               ticking' \in BOOLEAN, scalerOn' \in BOOLEAN, collecting' \in 0 .. MaxEvaluations
        PROVE  ScalerTypeOK'
    BY <2>1, <2>2 DEF ScalerTypeOK
  <2>3. CASE StartScaler \/ StopScaler
    <3>1. ticking' \in BOOLEAN
      BY <2>3, Zenon DEF StartScaler, StopScaler
    <3>2. UNCHANGED <<instances, scalerOn, scaledAge, ruleAge, collecting, history>>
      BY <2>3, Zenon DEF StartScaler, StopScaler
    <3>. QED BY <2>1, <2>2, <3>1, <3>2
  <2>4. ASSUME NEW on \in BOOLEAN, SetScaler(on) PROVE ScalerTypeOK'
    BY <2>1, <2>2, <2>4 DEF SetScaler
  <2>5. CASE StartEvaluation
    BY <2>1, <2>2, <2>5 DEF StartEvaluation
  <2>6. ASSUME NEW level \in [Rules -> Levels], EndEvaluation(level) PROVE ScalerTypeOK'
    <3>1. ruleAge' \in [Rules -> 0 .. RuleCooldown]
      BY <2>1, <2>6 DEF EndEvaluation
    <3>2. Target(level) \in MinInstances .. MaxInstances
      BY <2>1, Increments DEF Target, Least, Greatest
    <3>3. /\ collecting' \in 0 .. MaxEvaluations
          /\ UNCHANGED <<ticking, scalerOn>>
          /\ NoAction \/ Scales(Target(level))
      BY <2>1, <2>6 DEF EndEvaluation
    <3>4. CASE NoAction
      BY <2>1, <3>1, <3>3, <3>4 DEF NoAction, ScalerTypeOK
    <3>5. CASE Scales(Target(level))
      <4>1. history' = Append(history, 0)
        BY <3>5 DEF Scales
      <4>2. /\ history' \in Seq(0 .. RuleCooldown)
            /\ \A i, j \in DOMAIN history' : i < j => history'[i] >= history'[j]
        <5>1. history' \in Seq(0 .. RuleCooldown)
          BY <2>1, <4>1
        <5>2. /\ Len(history) \in Nat
              /\ DOMAIN history = 1 .. Len(history)
              /\ DOMAIN history' = 1 .. Len(history) + 1
              /\ history'[Len(history) + 1] = 0
              /\ \A i \in 1 .. Len(history) :
                     history'[i] = history[i] /\ history[i] \in 0 .. RuleCooldown
          BY <2>1, <4>1
        <5>3. ASSUME NEW i \in DOMAIN history', NEW j \in DOMAIN history', i < j
              PROVE  history'[i] >= history'[j]
          <6>1. i \in 1 .. Len(history)
            BY <5>2, <5>3
          <6>2. j \in 1 .. Len(history) \/ j = Len(history) + 1
            BY <5>2, <5>3
          <6>. QED BY <2>1, <5>2, <5>3, <6>1, <6>2
        <5>. QED BY <5>1, <5>3
      <4>3. instances' \in MinInstances .. MaxInstances /\ scaledAge' \in 0 .. ScalingCooldown
        BY <3>2, <3>5 DEF Scales
      <4>. QED BY <2>1, <3>1, <3>3, <4>2, <4>3 DEF ScalerTypeOK
    <3>. QED BY <3>3, <3>4, <3>5
  <2>7. ASSUME NEW n \in MinInstances .. MaxInstances, SetInstanceCount(n)
        PROVE  ScalerTypeOK'
    BY <2>1, <2>7 DEF SetInstanceCount, ScalerTypeOK
  <2>8. CASE TimePasses
    <3>1. /\ scaledAge' \in 0 .. ScalingCooldown
          /\ ruleAge' \in [Rules -> 0 .. RuleCooldown]
          /\ UNCHANGED <<instances, ticking, scalerOn, collecting>>
      <4>1. \A max \in Nat : \A age \in 0 .. max : Least(age + 1, max) \in 0 .. max
        BY DEF Least
      <4>2. /\ scaledAge' = Least(scaledAge + 1, ScalingCooldown)
            /\ ruleAge' = [r \in Rules |-> Least(ruleAge[r] + 1, RuleCooldown)]
            /\ UNCHANGED <<instances, ticking, scalerOn, collecting>>
        BY <2>8, Zenon DEF TimePasses
      <4>. QED BY <2>1, <4>1, <4>2
    <3>2. PICK n \in 0 .. Len(history) : Forgets(n)
      BY <2>8 DEF TimePasses
    <3>. DEFINE m == Len(history) - n
                kept == [i \in 1 .. m |-> history[n + i] + 1]
    <3>3. m \in Nat /\ n \in Nat /\ DOMAIN history = 1 .. n + m
      BY <2>1
    <3>4. ASSUME NEW i \in 1 .. m PROVE n + i \in DOMAIN history /\ history[n + i] + 1 \in 0 .. RuleCooldown
      <4>1. n + i \in DOMAIN history /\ ~(n + i <= n)
        BY <3>3
      <4>2. ~(history[n + i] + 1 >= RuleCooldown) /\ history[n + i] \in 0 .. RuleCooldown
        BY <2>1, <3>2, <4>1 DEF Forgets
      <4>. QED BY <4>1, <4>2
    <3>5. history' = kept
      BY <3>2 DEF Forgets
    <3>6. DOMAIN kept = 1 .. m /\ \A i \in 1 .. m : kept[i] = history[n + i] + 1
      OBVIOUS
    <3>7. kept \in Seq(0 .. RuleCooldown)
      <4>1. kept \in [1 .. m -> 0 .. RuleCooldown]
        BY <3>4
      <4>. HIDE DEF kept, m
      <4>. QED BY <3>3, <4>1
    <3>. HIDE DEF kept, m
    <3>8. ASSUME NEW i \in 1 .. m, NEW j \in 1 .. m, i < j PROVE kept[i] >= kept[j]
      <4>1. /\ n + i \in DOMAIN history /\ n + j \in DOMAIN history /\ n + i < n + j
            /\ kept[i] = history[n + i] + 1 /\ kept[j] = history[n + j] + 1
        BY <3>3, <3>4, <3>6, <3>8
      <4>2. history[n + i] >= history[n + j]
        BY <2>1, <4>1
      <4>3. history[n + i] \in 0 .. RuleCooldown /\ history[n + j] \in 0 .. RuleCooldown
        BY <2>10, <4>1
      <4>. QED BY <4>1, <4>2, <4>3
    <3>. QED BY <2>1, <3>1, <3>5, <3>6, <3>7, <3>8 DEF ScalerTypeOK
  <2>9. CASE UNCHANGED scalerVars
    BY <2>1, <2>2, <2>9 DEF scalerVars
  <2>. QED BY <1>2, <2>3, <2>4, <2>5, <2>6, <2>7, <2>8, <2>9 DEF ScalerNext
<1>. QED BY <1>1, <1>2

\* ClusterManager: numbers are those of workers, and kills are commands.
LEMMA ClusterTyped ==
    /\ ClusterInit => ClusterTypeOK
    /\ ClusterTypeOK /\ [ClusterNext]_clusterVars => ClusterTypeOK'
<1>. USE ClusterAssumption
<1>1. ASSUME ClusterInit PROVE ClusterTypeOK
  <2>1. clusterDown \in BOOLEAN
    BY <1>1, Zenon DEF ClusterInit
  <2>2. /\ state = [w \in Workers |-> IF w <= WorkerCount THEN "starting" ELSE "none"]
        /\ voluntary = {} /\ served = {}
        /\ replaces = [w \in Workers |-> 0] /\ restartCounts = [w \in Workers |-> 0]
        /\ respawning = 0 /\ rolling = <<>> /\ rollingNew = 0
        /\ crashes = 0 /\ kills = 0 /\ commands = 0
    BY <1>1, Zenon DEF ClusterInit
  <2>. QED BY <2>1, <2>2 DEF ClusterTypeOK, WorkerStates
<1>2. ASSUME ClusterTypeOK, [ClusterNext]_clusterVars PROVE ClusterTypeOK'
  <2>. USE <1>2 DEF ClusterTypeOK, WorkerStates
  <2>1. ASSUME NEW w \in Workers, Exit(w)
        PROVE  /\ state' \in [Workers -> WorkerStates]
               /\ respawning' \in Nat /\ restartCounts' \in [Workers -> Nat]
    <3>1. state' \in [Workers -> WorkerStates]
      BY <2>1 DEF Exit
    <3>2. CASE UNCHANGED <<respawning, restartCounts>>
      BY <3>1, <3>2
    <3>3. CASE /\ respawning' = respawning + 1
               /\ restartCounts' = [restartCounts EXCEPT ![w] = @ + 1]
      BY <3>1, <3>3
    <3>. QED BY <2>1, <3>2, <3>3 DEF Exit
  <2>2. ASSUME NEW w \in Workers, WorkerDies(w) \/ WorkerLeaves(w) PROVE ClusterTypeOK'
    <3>1. CASE WorkerDies(w)
      BY <2>1, <3>1 DEF WorkerDies, rollVars
    <3>2. CASE WorkerLeaves(w)
      BY <2>1, <3>2 DEF WorkerLeaves, rollVars
    <3>. QED BY <2>2, <3>1, <3>2
  <2>3. ASSUME NEW w \in Workers, Respawn(w) PROVE ClusterTypeOK'
    BY <2>3 DEF Respawn, rollVars
  <2>4. ASSUME NEW w \in Workers, WorkerListens(w) PROVE ClusterTypeOK'
    BY <2>4 DEF WorkerListens, rollVars, Alive
  <2>5. ASSUME NEW old \in Workers, NEW new \in Workers, Replace(old, new)
        PROVE  /\ state' \in [Workers -> WorkerStates]
               /\ replaces' \in [Workers -> 0 .. MaxForks]
               /\ voluntary' = voluntary
    BY <2>5 DEF Replace, Workers
  <2>6. ASSUME NEW old \in Workers, NEW new \in Workers, RestartWorker(old, new)
        PROVE  ClusterTypeOK'
    BY <2>5, <2>6 DEF RestartWorker, Command, rollVars
  <2>7. CASE RestartAllWorkers
    <3>1. rolling' \in Seq(Workers)
      <4>1. IsFiniteSet(Alive)
        BY WorkersCounted DEF Alive
      <4>2. Cardinality(Alive) \in Nat
        BY <4>1, FS_CardinalityType
      <4>3. rolling' \in [1 .. Cardinality(Alive) -> Alive]
        BY <2>7 DEF RestartAllWorkers, AliveInOrder
      <4>4. rolling' \in [1 .. Cardinality(Alive) -> Workers]
        BY <4>3 DEF Alive
      <4>5. \A n \in Nat : [1 .. n -> Workers] \subseteq Seq(Workers)
        OBVIOUS
      <4>. QED BY <4>2, <4>4, <4>5
    <3>. QED BY <2>7, <3>1 DEF RestartAllWorkers, Command
  <2>8. ASSUME NEW new \in Workers, RollOne(new) PROVE ClusterTypeOK'
    <3>1. Head(rolling) \in Workers /\ Tail(rolling) \in Seq(Workers)
      BY <2>8 DEF RollOne
    <3>2. Replace(Head(rolling), new) /\ rolling' = Tail(rolling) /\ rollingNew' = new
      BY <2>8 DEF RollOne
    <3>3. UNCHANGED <<served, restartCounts, respawning, clusterDown, crashes, kills, commands>>
      BY <2>8 DEF RollOne
    <3>4. new \in 0 .. MaxForks
      BY DEF Workers
    <3>5. /\ state' \in [Workers -> WorkerStates]
          /\ replaces' \in [Workers -> 0 .. MaxForks]
          /\ voluntary' = voluntary
      BY <2>5, <3>1, <3>2
    <3>. QED BY <3>1, <3>2, <3>3, <3>4, <3>5
  <2>9. CASE RollOn
    BY <2>9 DEF RollOn
  <2>13. CASE RollFails
    <3>1. /\ rolling' = <<>> /\ rollingNew' = 0
          /\ UNCHANGED <<state, voluntary, served, replaces, restartCounts, respawning,
                         clusterDown, crashes, kills, commands>>
      BY <2>13, Zenon DEF RollFails
    <3>. QED BY <3>1
  <2>10. ASSUME NEW w \in Workers, KillWorker(w) PROVE ClusterTypeOK'
    BY <2>10 DEF KillWorker, Command, rollVars
  <2>11. CASE ShutdownCluster
    <3>1. clusterDown' \in BOOLEAN
      BY <2>11, Zenon DEF ShutdownCluster
    <3>2. /\ state' = [w \in Workers |-> IF w \in Alive THEN "leaving" ELSE state[w]]
          /\ voluntary' = voluntary \cup Alive
          /\ UNCHANGED <<served, replaces, restartCounts, respawning, rollVars, crashes,
                         kills, commands>>
      BY <2>11, Zenon DEF ShutdownCluster
    <3>. QED BY <3>1, <3>2 DEF rollVars, Alive
  <2>12. CASE UNCHANGED clusterVars
    BY <2>12 DEF clusterVars, rollVars
  <2>. QED BY <2>2, <2>3, <2>4, <2>6, <2>7, <2>8, <2>9, <2>10, <2>11, <2>12,
              <2>13 DEF ClusterNext
<1>. QED BY <1>1, <1>2

\* A sequence without one of its members has the others, each once as before.
LEMMA Removed ==
    ASSUME NEW S, NEW s \in Seq(S), IsInjective(s), NEW i \in DOMAIN s
    PROVE  RemoveAt(s, i) \in Seq(S) /\ IsInjective(RemoveAt(s, i))
<1>. DEFINE n == Len(s)
            a == SubSeq(s, 1, i - 1)
            b == SubSeq(s, i + 1, n)
            place(k) == IF k < i THEN k ELSE k + 1
<1>1. n \in Nat /\ i \in 1 .. n /\ DOMAIN s = 1 .. n /\ \A k \in 1 .. n : s[k] \in S
  OBVIOUS
<1>2. RemoveAt(s, i) = a \o b
  BY DEF RemoveAt
<1>. HIDE DEF n
<1>3. a \in Seq(S) /\ Len(a) = i - 1 /\ \A k \in 1 .. i - 1 : a[k] = s[k]
  <2>1. \A k \in 1 .. i - 1 : s[k] \in S
    BY <1>1
  <2>2. /\ a \in Seq(S) /\ Len(a) = IF 1 <= i - 1 THEN (i - 1) - 1 + 1 ELSE 0
        /\ \A k \in 1 .. (i - 1) - 1 + 1 : a[k] = s[1 + k - 1]
    BY <1>1, <2>1, SubSeqProperties
  <2>. HIDE DEF a
  <2>. QED BY <1>1, <2>2
<1>4. b \in Seq(S) /\ Len(b) = n - i /\ \A k \in 1 .. n - i : b[k] = s[i + k]
  <2>1. \A k \in i + 1 .. n : s[k] \in S
    BY <1>1
  <2>2. /\ b \in Seq(S) /\ Len(b) = IF i + 1 <= n THEN n - (i + 1) + 1 ELSE 0
        /\ \A k \in 1 .. n - (i + 1) + 1 : b[k] = s[(i + 1) + k - 1]
    BY <1>1, <2>1, SubSeqProperties
  <2>3. \A k \in 1 .. n - i : (i + 1) + k - 1 = i + k /\ k \in 1 .. n - (i + 1) + 1
    BY <1>1
  <2>. HIDE DEF b
  <2>. QED BY <1>1, <2>2, <2>3
<1>. HIDE DEF a, b
<1>5. /\ a \o b \in Seq(S) /\ Len(a \o b) = n - 1
      /\ \A k \in 1 .. n - 1 : (a \o b)[k] = s[place(k)] /\ place(k) \in DOMAIN s
  <2>1. /\ a \o b \in Seq(S) /\ Len(a \o b) = (i - 1) + (n - i)
        /\ \A k \in 1 .. (i - 1) + (n - i) :
               (a \o b)[k] = IF k <= i - 1 THEN a[k] ELSE b[k - (i - 1)]
    <3>1. /\ a \o b \in Seq(S) /\ Len(a \o b) = Len(a) + Len(b)
          /\ \A k \in 1 .. Len(a) + Len(b) :
                 (a \o b)[k] = IF k <= Len(a) THEN a[k] ELSE b[k - Len(a)]
      BY <1>3, <1>4, ConcatProperties
    <3>. QED BY <1>3, <1>4, <3>1
  <2>2. ASSUME NEW k \in 1 .. n - 1
        PROVE  (a \o b)[k] = s[place(k)] /\ place(k) \in DOMAIN s
    <3>1. place(k) \in DOMAIN s
      BY <1>1
    <3>2. CASE k <= i - 1
      BY <1>1, <1>3, <2>1, <3>1, <3>2
    <3>3. CASE ~(k <= i - 1)
      <4>1. k - (i - 1) \in 1 .. n - i /\ i + (k - (i - 1)) = k + 1 /\ place(k) = k + 1
        BY <1>1, <3>3
      <4>2. (a \o b)[k] = b[k - (i - 1)]
        BY <1>1, <2>1, <3>3
      <4>. QED BY <1>4, <3>1, <4>1, <4>2
    <3>. QED BY <3>2, <3>3
  <2>. QED BY <1>1, <2>1, <2>2
<1>. DEFINE r == a \o b
<1>. HIDE DEF r
<1>6. /\ r \in Seq(S) /\ DOMAIN r = 1 .. n - 1
      /\ \A k \in 1 .. n - 1 : r[k] = s[place(k)] /\ place(k) \in DOMAIN s
  BY <1>5 DEF r
<1>7. ASSUME NEW k \in DOMAIN r, NEW j \in DOMAIN r, r[k] = r[j] PROVE k = j
  <2>1. place(k) = place(j)
    <3>1. s[place(k)] = s[place(j)] /\ place(k) \in DOMAIN s /\ place(j) \in DOMAIN s
      BY <1>6, <1>7
    <3>. HIDE DEF place
    <3>. QED BY <3>1 DEF IsInjective
  <2>. QED BY <1>1, <1>6, <1>7, <2>1
<1>8. IsInjective(r)
  BY <1>7 DEF IsInjective
<1>. QED BY <1>2, <1>6, <1>8 DEF r

\* A probe that has been sent is answered, and an answer is read.
LEMMA Counted ==
    ASSUME NEW p \in [sent : Nat, well : Nat, ill : Nat]
    PROVE  /\ p.sent > 0 => /\ AnsweredWell(p) \in [sent : Nat, well : Nat, ill : Nat]
                            /\ AnsweredIll(p) \in [sent : Nat, well : Nat, ill : Nat]
           /\ p.well > 0 => WellRead(p) \in [sent : Nat, well : Nat, ill : Nat]
           /\ p.ill > 0 => IllRead(p) \in [sent : Nat, well : Nat, ill : Nat]
<1>1. p.sent \in Nat /\ p.well \in Nat /\ p.ill \in Nat
  OBVIOUS
<1>2. /\ p.sent > 0 => p.sent - 1 \in Nat /\ p.well + 1 \in Nat /\ p.ill + 1 \in Nat
      /\ p.well > 0 => p.well - 1 \in Nat
      /\ p.ill > 0 => p.ill - 1 \in Nat
  BY <1>1
<1>. QED BY <1>2 DEF AnsweredWell, AnsweredIll, WellRead, IllRead

\* LoadBalancer: the map holds each id once, the counts stay in range.
LEMMA BalancerTyped ==
    /\ BalancerInit => BalancerTypeOK
    /\ BalancerTypeOK /\ [BalancerNext]_balancerVars => BalancerTypeOK'
<1>. USE BalancerAssumption
<1>. DEFINE Records == [sent : Nat, well : Nat, ill : Nat]
<1>0. NoProbes \in Records
  BY DEF NoProbes
<1>1. ASSUME BalancerInit PROVE BalancerTypeOK
  <2>1. probing \in BOOLEAN
    BY <1>1, Zenon DEF BalancerInit
  <2>2. /\ backends = <<>> /\ fit = [b \in Backends |-> FALSE]
        /\ active = [b \in Backends |-> 0] /\ inFlight = [b \in Backends |-> 0]
        /\ alive = Backends /\ currentIndex = 0 /\ probes = [b \in Backends |-> NoProbes]
    BY <1>1, Zenon DEF BalancerInit
  <2>3. IsInjective(backends)
    BY <2>2 DEF IsInjective
  <2>4. fit \in [Backends -> BOOLEAN] /\ probes \in [Backends -> Records]
    BY <1>0, <2>2
  <2>. QED BY <2>1, <2>2, <2>3, <2>4 DEF BalancerTypeOK
<1>2. ASSUME BalancerTypeOK, [BalancerNext]_balancerVars PROVE BalancerTypeOK'
  <2>1. /\ backends \in Seq(Backends) /\ IsInjective(backends)
        /\ fit \in [Backends -> BOOLEAN]
        /\ active \in [Backends -> Nat] /\ inFlight \in [Backends -> 0 .. MaxRequests]
        /\ alive \subseteq Backends
        /\ currentIndex \in 0 .. MaxSelections
        /\ probing \in BOOLEAN
        /\ probes \in [Backends -> Records]
    BY <1>2 DEF BalancerTypeOK
  <2>2. ASSUME /\ backends' \in Seq(Backends) /\ IsInjective(backends')
               /\ fit' \in [Backends -> BOOLEAN]
               /\ active' \in [Backends -> Nat] /\ inFlight' \in [Backends -> 0 .. MaxRequests]
               /\ alive' \subseteq Backends
               /\ currentIndex' \in 0 .. MaxSelections
               /\ probing' \in BOOLEAN
               /\ probes' \in [Backends -> Records]
        PROVE  BalancerTypeOK'
    BY <2>2 DEF BalancerTypeOK
  <2>. HIDE DEF Records
  <2>3. ASSUME NEW b \in Backends, RegisterBackend(b) PROVE BalancerTypeOK'
    <3>1. backends' \in Seq(Backends) /\ IsInjective(backends')
      <4>1. CASE Registered(b)
        BY <2>1, <2>3, <4>1 DEF RegisterBackend
      <4>2. CASE ~Registered(b)
        <5>1. backends' = Append(backends, b)
          BY <2>3, <4>2 DEF RegisterBackend
        <5>2. \A i \in DOMAIN backends : backends[i] # b
          BY <4>2 DEF Registered, ToSet
        <5>3. \A i, j \in DOMAIN backends : backends[i] = backends[j] => i = j
          BY <2>1 DEF IsInjective
        <5>4. backends' \in Seq(Backends)
          BY <2>1, <5>1
        <5>5. ASSUME NEW i \in DOMAIN backends', NEW j \in DOMAIN backends',
                     backends'[i] = backends'[j]
              PROVE  i = j
          <6>1. /\ DOMAIN backends = 1 .. Len(backends) /\ Len(backends) \in Nat
                /\ DOMAIN backends' = 1 .. Len(backends) + 1
            BY <2>1, <5>1
          <6>2. \A k \in DOMAIN backends' :
                    backends'[k] = IF k \in DOMAIN backends THEN backends[k] ELSE b
            BY <2>1, <5>1
          <6>. QED BY <5>2, <5>3, <5>5, <6>1, <6>2
        <5>. QED BY <5>4, <5>5, Zenon DEF IsInjective
      <4>. QED BY <4>1, <4>2
    <3>. QED BY <1>0, <2>1, <2>2, <2>3, <3>1 DEF RegisterBackend
  <2>4. ASSUME NEW b \in Backends, UnregisterBackend(b) PROVE BalancerTypeOK'
    <3>1. backends' \in Seq(Backends) /\ IsInjective(backends')
      BY <2>1, <2>4, Removed DEF UnregisterBackend
    <3>. QED BY <1>0, <2>1, <2>2, <2>4, <3>1 DEF UnregisterBackend
  <2>5. ASSUME NEW b \in Backends, CompleteRequest(b) PROVE BalancerTypeOK'
    <3>1. active' \in [Backends -> Nat] /\ inFlight' \in [Backends -> 0 .. MaxRequests]
      BY <2>1, <2>5 DEF CompleteRequest
    <3>. QED BY <2>1, <2>2, <2>5, <3>1 DEF CompleteRequest
  <2>6. ASSUME NEW b \in Backends,
               ProbeAnswered(b) \/ ProbeTimesOut(b) \/ ProbeWell(b) \/ ProbeIll(b)
        PROVE  BalancerTypeOK'
    <3>1. probes[b] \in Records
      BY <2>1
    <3>2. /\ probes[b].sent > 0 =>
                 AnsweredWell(probes[b]) \in Records /\ AnsweredIll(probes[b]) \in Records
          /\ probes[b].well > 0 => WellRead(probes[b]) \in Records
          /\ probes[b].ill > 0 => IllRead(probes[b]) \in Records
      BY <3>1, Counted DEF Records
    <3>5. probes' \in [Backends -> Records]
      BY <2>1, <2>6, <3>2 DEF ProbeAnswered, ProbeTimesOut, ProbeWell, ProbeIll
    <3>3. fit' \in [Backends -> BOOLEAN]
      <4>1. fit' = fit \/ fit' = [fit EXCEPT ![b] = TRUE] \/ fit' = [fit EXCEPT ![b] = FALSE]
        BY <2>6, Zenon DEF ProbeAnswered, ProbeTimesOut, ProbeWell, ProbeIll
      <4>. QED BY <2>1, <4>1
    <3>4. UNCHANGED <<backends, active, inFlight, alive, currentIndex, probing>>
      BY <2>6 DEF ProbeAnswered, ProbeTimesOut, ProbeWell, ProbeIll
    <3>. QED BY <2>1, <2>2, <3>3, <3>4, <3>5
  <2>7. ASSUME NEW b \in Backends, BackendFails(b) PROVE BalancerTypeOK'
    BY <2>1, <2>2, <2>7 DEF BackendFails
  <2>8. ASSUME NEW client \in Clients, StartRequest(client) PROVE BalancerTypeOK'
    <3>1. PICK b : /\ inFlight[b] < MaxRequests
                   /\ Rotates => currentIndex < MaxSelections
                   /\ active' = [active EXCEPT ![b] = @ + 1]
                   /\ inFlight' = [inFlight EXCEPT ![b] = @ + 1]
                   /\ currentIndex' = IF Rotates THEN currentIndex + 1 ELSE currentIndex
                   /\ UNCHANGED <<backends, fit, alive, probing, probes>>
      BY <2>8 DEF StartRequest
    <3>2. currentIndex' \in 0 .. MaxSelections
      BY <2>1, <3>1
    <3>3. CASE b \in Backends
      <4>1. active' \in [Backends -> Nat] /\ inFlight' \in [Backends -> 0 .. MaxRequests]
        BY <2>1, <3>1, <3>3
      <4>. QED BY <2>1, <2>2, <3>1, <3>2, <4>1
    <3>4. CASE b \notin Backends
      <4>1. active' = active /\ inFlight' = inFlight
        BY <2>1, <3>1, <3>4
      <4>. QED BY <2>1, <2>2, <3>1, <3>2, <4>1
    <3>. QED BY <3>3, <3>4
  <2>9. ASSUME NEW on \in BOOLEAN, SetProbing(on) PROVE BalancerTypeOK'
    BY <2>1, <2>2, <2>9 DEF SetProbing
  <2>10. CASE ProbeAll
    <3>1. ASSUME NEW b \in Backends PROVE [probes[b] EXCEPT !.sent = @ + 1] \in Records
      <4>1. probes[b] \in Records
        BY <2>1
      <4>. QED BY <4>1 DEF Records
    <3>2. probes' \in [Backends -> Records]
      BY <2>1, <2>10, <3>1 DEF ProbeAll
    <3>. QED BY <2>1, <2>2, <2>10, <3>2 DEF ProbeAll
  <2>11. CASE ShutdownBalancer
    <3>1. probing' \in BOOLEAN
      BY <2>11, Zenon DEF ShutdownBalancer
    <3>2. /\ backends' = <<>> /\ fit' = [b \in Backends |-> FALSE]
          /\ active' = [b \in Backends |-> 0] /\ probes' = [b \in Backends |-> NoProbes]
          /\ UNCHANGED <<inFlight, alive, currentIndex>>
      BY <2>11, Zenon DEF ShutdownBalancer
    <3>3. fit' \in [Backends -> BOOLEAN] /\ probes' \in [Backends -> Records]
      BY <1>0, <3>2
    <3>4. backends' \in Seq(Backends) /\ IsInjective(backends')
      BY <3>2 DEF IsInjective
    <3>. QED BY <2>1, <2>2, <3>1, <3>2, <3>3, <3>4
  <2>12. CASE UNCHANGED balancerVars
    BY <2>1, <2>2, <2>12 DEF balancerVars
  <2>. QED BY <1>2, <2>3, <2>4, <2>5, <2>6, <2>7, <2>8, <2>9, <2>10, <2>11, <2>12
           DEF BalancerNext
<1>. QED BY <1>1, <1>2

\* What the worker and its statistics are
FlagsInv ==
    /\ worker \in {"none", "open", "paused", "closing"}
    /\ hasQueue \in BOOLEAN /\ hasStats \in BOOLEAN

\* Jobs that wait or run are among those added.
JobsInv ==
    /\ statActive \in Nat /\ processed \in Nat
    /\ waitingJobs \in Nat /\ activeJobs \in 0 .. Concurrency
    /\ addedJobs \in 0 .. MaxJobs
    /\ waitingJobs + activeJobs <= addedJobs
    /\ registrations \in 0 .. MaxRegistrations

\* Calls that close are bounded together.
ClosesInv ==
    /\ closing \in [BOOLEAN -> Nat] /\ emptying \in Nat
    /\ closing[TRUE] + closing[FALSE] + emptying <= MaxCloses

PoolInv == FlagsInv /\ JobsInv /\ ClosesInv

\* WorkerPool: what the three say is what stays in range.
LEMMA PoolTyped == PoolInv => PoolTypeOK
<1>. SUFFICES ASSUME PoolInv PROVE PoolTypeOK
  OBVIOUS
<1>1. closing \in [BOOLEAN -> 0 .. MaxCloses] /\ emptying \in 0 .. MaxCloses
  <2>. DEFINE t == closing[TRUE]
              f == closing[FALSE]
  <2>1. closing \in [BOOLEAN -> Nat] /\ emptying \in Nat /\ t + f + emptying <= MaxCloses
    BY DEF PoolInv, ClosesInv
  <2>2. t \in Nat /\ f \in Nat /\ MaxCloses \in Nat
    BY <2>1, PoolAssumption
  <2>3. t \in 0 .. MaxCloses /\ f \in 0 .. MaxCloses /\ emptying \in 0 .. MaxCloses
    <3>. HIDE DEF t, f
    <3>. QED BY <2>1, <2>2
  <2>4. \A held \in BOOLEAN : closing[held] \in 0 .. MaxCloses
    BY <2>3, Zenon
  <2>. QED BY <2>1, <2>3, <2>4
<1>2. waitingJobs \in 0 .. MaxJobs
  BY PoolAssumption DEF PoolInv, JobsInv
<1>. QED BY <1>1, <1>2 DEF PoolInv, FlagsInv, JobsInv, PoolTypeOK

\* A call more while there is room, or one that goes on, leaves the bound.
LEMMA ClosesBounded ==
    ASSUME NEW t \in Nat, NEW f \in Nat, NEW e \in Nat, NEW m \in Nat, t + f + e <= m
    PROVE  /\ t + f + e < m => /\ t + 1 + f + e <= m /\ t + (f + 1) + e <= m
                               /\ t + f + (e + 1) <= m /\ e + 1 \in Nat
           /\ 0 + 0 + (e + t) <= m /\ e + t \in Nat
           /\ e > 0 => t + f + (e - 1) <= m /\ e - 1 \in Nat
OBVIOUS

\* WorkerPool: every step keeps them.
LEMMA PoolStep ==
    /\ PoolInit => PoolInv
    /\ PoolInv /\ [PoolNext]_poolVars => PoolInv'
<1>1. ASSUME PoolInit PROVE PoolInv
  <2>1. FlagsInv
    BY <1>1, Zenon DEF PoolInit, FlagsInv
  <2>2. /\ statActive = 0 /\ processed = 0 /\ waitingJobs = 0 /\ activeJobs = 0
        /\ addedJobs = 0 /\ registrations = 0
    BY <1>1, Zenon DEF PoolInit
  <2>3. closing = [held \in BOOLEAN |-> 0] /\ emptying = 0
    BY <1>1, Zenon DEF PoolInit
  <2>4. JobsInv
    BY <2>2, PoolAssumption DEF JobsInv
  <2>5. ClosesInv
    BY <2>3, PoolAssumption DEF ClosesInv
  <2>. QED BY <2>1, <2>4, <2>5 DEF PoolInv
<1>2. ASSUME PoolInv, [PoolNext]_poolVars PROVE PoolInv'
  <2>1. FlagsInv /\ JobsInv /\ ClosesInv
    BY <1>2 DEF PoolInv
  <2>14. /\ closing \in [BOOLEAN -> Nat] /\ closing[TRUE] \in Nat /\ closing[FALSE] \in Nat
         /\ emptying \in Nat /\ MaxCloses \in Nat
         /\ closing[TRUE] + closing[FALSE] + emptying <= MaxCloses
    BY <2>1, PoolAssumption DEF ClosesInv
  <2>2. UNCHANGED <<closing, emptying>> => ClosesInv'
    BY <2>1 DEF ClosesInv
  <2>3. UNCHANGED jobVars /\ UNCHANGED registrations /\ statActive' \in Nat
            /\ processed' \in Nat => JobsInv'
    BY <2>1 DEF JobsInv, jobVars
  <2>4. ASSUME DropStats
        PROVE  hasStats' \in BOOLEAN /\ statActive' \in Nat /\ processed' \in Nat
    <3>1. hasStats' \in BOOLEAN
      BY <2>4, Zenon DEF DropStats
    <3>2. statActive' = 0 /\ processed' = 0
      BY <2>4, Zenon DEF DropStats
    <3>. QED BY <3>1, <3>2
  <2>5. statActive \in Nat /\ processed \in Nat /\ hasQueue \in BOOLEAN /\ hasStats \in BOOLEAN
    BY <2>1 DEF FlagsInv, JobsInv
  <2>6. CASE RegisterWorker
    <3>1. FlagsInv'
      BY <2>6, Zenon DEF RegisterWorker, FlagsInv
    <3>2. /\ statActive' = 0 /\ processed' = 0
          /\ registrations < MaxRegistrations /\ registrations' = registrations + 1
          /\ UNCHANGED <<jobVars, closing, emptying>>
      BY <2>6, Zenon DEF RegisterWorker
    <3>3. JobsInv'
      BY <2>1, <3>2, PoolAssumption DEF JobsInv, jobVars
    <3>. QED BY <2>2, <3>1, <3>2, <3>3 DEF PoolInv
  <2>7. CASE AddJob \/ StartJob \/ EndJob \/ GetWorkerStats
    <3>1. FlagsInv' /\ UNCHANGED <<closing, emptying>>
      BY <2>1, <2>7 DEF AddJob, StartJob, EndJob, GetWorkerStats, FlagsInv, statVars
    <3>2. JobsInv'
      <4>. USE <2>1, PoolAssumption DEF JobsInv
      <4>1. CASE AddJob
        BY <4>1 DEF AddJob, statVars
      <4>2. CASE StartJob
        <5>1. statActive' = statActive \/ statActive' = statActive + 1
          BY <4>2 DEF StartJob
        <5>. QED BY <4>2, <5>1 DEF StartJob
      <4>3. CASE EndJob
        <5>1. processed' = processed \/ processed' = processed + 1
          BY <4>3 DEF EndJob
        <5>. QED BY <4>3, <5>1 DEF EndJob
      <4>4. CASE GetWorkerStats
        BY <4>4 DEF GetWorkerStats, jobVars
      <4>. QED BY <2>7, <4>1, <4>2, <4>3, <4>4
    <3>. QED BY <2>2, <3>1, <3>2 DEF PoolInv
  <2>8. CASE PauseWorker \/ ResumeWorker \/ UNCHANGED poolVars
    <3>1. FlagsInv' /\ UNCHANGED <<closing, emptying>>
      BY <2>1, <2>8 DEF PauseWorker, ResumeWorker, FlagsInv, statVars, poolVars
    <3>2. UNCHANGED jobVars /\ UNCHANGED <<statActive, processed, registrations>>
      BY <2>8 DEF PauseWorker, ResumeWorker, statVars, jobVars, poolVars
    <3>. QED BY <2>2, <2>3, <2>5, <3>1, <3>2 DEF PoolInv
  <2>9. CASE CloseWorker
    <3>1. FlagsInv' /\ UNCHANGED <<jobVars, registrations, statActive, processed>>
      BY <2>1, <2>9 DEF CloseWorker, FlagsInv, statVars
    <3>2. ClosesInv'
      <4>1. closing[TRUE] + closing[FALSE] + emptying < MaxCloses /\ emptying' = emptying
        BY <2>9, Zenon DEF CloseWorker
      <4>2. \/ closing' = [closing EXCEPT ![TRUE] = @ + 1]
            \/ closing' = [closing EXCEPT ![FALSE] = @ + 1]
        BY <2>5, <2>9, Zenon DEF CloseWorker
      <4>3. /\ closing' \in [BOOLEAN -> Nat]
            /\ \/ closing'[TRUE] = closing[TRUE] + 1 /\ closing'[FALSE] = closing[FALSE]
               \/ closing'[TRUE] = closing[TRUE] /\ closing'[FALSE] = closing[FALSE] + 1
        <5>1. CASE closing' = [closing EXCEPT ![TRUE] = @ + 1]
          <6>1. closing' \in [BOOLEAN -> Nat]
            <7>1. closing[TRUE] + 1 \in Nat
              <8>1. \A n \in Nat : n + 1 \in Nat
                OBVIOUS
              <8>. QED BY <2>14, <8>1, Zenon
            <7>2. \A held, v : v \in Nat => [closing EXCEPT ![held] = v] \in [BOOLEAN -> Nat]
              BY <2>14
            <7>. QED BY <5>1, <7>1, <7>2, Zenon
          <6>2. closing'[TRUE] = closing[TRUE] + 1
            BY <2>14, <5>1
          <6>3. closing'[FALSE] = closing[FALSE]
            BY <2>14, <5>1, Zenon
          <6>. QED BY <6>1, <6>2, <6>3
        <5>2. CASE closing' = [closing EXCEPT ![FALSE] = @ + 1]
          <6>1. closing' \in [BOOLEAN -> Nat]
            <7>1. closing[FALSE] + 1 \in Nat
              <8>1. \A n \in Nat : n + 1 \in Nat
                OBVIOUS
              <8>. QED BY <2>14, <8>1, Zenon
            <7>2. \A held, v : v \in Nat => [closing EXCEPT ![held] = v] \in [BOOLEAN -> Nat]
              BY <2>14
            <7>. QED BY <5>2, <7>1, <7>2, Zenon
          <6>2. closing'[FALSE] = closing[FALSE] + 1
            BY <2>14, <5>2
          <6>3. closing'[TRUE] = closing[TRUE]
            BY <2>14, <5>2, Zenon
          <6>. QED BY <6>1, <6>2, <6>3
        <5>. QED BY <4>2, <5>1, <5>2
      <4>. QED BY <2>14, <4>1, <4>3, ClosesBounded DEF ClosesInv
    <3>. QED BY <2>3, <2>5, <3>1, <3>2 DEF PoolInv
  <2>10. CASE CloseRest
    <3>1. worker' = worker /\ UNCHANGED <<jobVars, closing, registrations>>
      BY <2>10, Zenon DEF CloseRest
    <3>2. closing[TRUE] + closing[FALSE] + emptying < MaxCloses
      BY <2>10, Zenon DEF CloseRest
    <3>3. \/ emptying' = emptying + 1 /\ UNCHANGED statVars
          \/ DropStats /\ UNCHANGED <<hasQueue, emptying>>
      BY <2>10, Zenon DEF CloseRest
    <3>4. /\ hasQueue' \in BOOLEAN /\ hasStats' \in BOOLEAN
          /\ statActive' \in Nat /\ processed' \in Nat
      BY <2>4, <2>5, <3>3 DEF statVars
    <3>5. ClosesInv'
      <4>1. CASE emptying' = emptying
        BY <2>2, <3>1, <4>1
      <4>2. CASE emptying' = emptying + 1
        <5>1. closing' = closing
          BY <3>1
        <5>. QED BY <2>14, <3>2, <4>2, <5>1, ClosesBounded DEF ClosesInv
      <4>. QED BY <3>3, <4>1, <4>2
    <3>6. FlagsInv'
      BY <2>1, <3>1, <3>4 DEF FlagsInv
    <3>. QED BY <2>3, <3>1, <3>4, <3>5, <3>6 DEF PoolInv
  <2>11. CASE WorkerClosed
    <3>1. worker' = "none" /\ UNCHANGED <<hasQueue, jobVars, registrations>>
      BY <2>11, Zenon DEF WorkerClosed
    <3>2. emptying' = emptying + closing[TRUE] /\ closing' = [held \in BOOLEAN |-> 0]
      BY <2>11, Zenon DEF WorkerClosed
    <3>3. DropStats \/ UNCHANGED <<hasStats, statActive, processed>>
      BY <2>11, Zenon DEF WorkerClosed
    <3>4. hasStats' \in BOOLEAN /\ statActive' \in Nat /\ processed' \in Nat
      BY <2>4, <2>5, <3>3
    <3>5. ClosesInv'
      <4>1. closing' \in [BOOLEAN -> Nat] /\ closing'[TRUE] = 0 /\ closing'[FALSE] = 0
        BY <3>2
      <4>. QED BY <2>14, <3>2, <4>1, ClosesBounded DEF ClosesInv
    <3>6. FlagsInv'
      BY <2>1, <3>1, <3>4 DEF FlagsInv
    <3>. QED BY <2>3, <3>1, <3>4, <3>5, <3>6 DEF PoolInv
  <2>12. CASE QueueClosed
    <3>1. /\ hasQueue' \in BOOLEAN /\ DropStats
          /\ UNCHANGED <<worker, jobVars, closing, registrations>>
      BY <2>12, Zenon DEF QueueClosed
    <3>2. ClosesInv'
      <4>1. emptying > 0 /\ emptying' = emptying - 1
        BY <2>12, Zenon DEF QueueClosed
      <4>2. closing' = closing
        BY <3>1
      <4>. QED BY <2>14, <4>1, <4>2, ClosesBounded DEF ClosesInv
    <3>3. FlagsInv'
      BY <2>1, <2>4, <3>1 DEF FlagsInv
    <3>. QED BY <2>3, <2>4, <3>1, <3>2, <3>3 DEF PoolInv
  <2>. QED BY <1>2, <2>6, <2>7, <2>8, <2>9, <2>10, <2>11, <2>12 DEF PoolNext
<1>. QED BY <1>1, <1>2

-----------------------------------------------------------------------------
(* All of them together.                                                   *)

\* MCOperations: a step of the composition is one of a part, and of the other
\* parts none.
LEMMA StepOfAPart ==
    ASSUME [Next]_vars
    PROVE  /\ [FailoverNext]_failoverVars /\ [ScalerNext]_scalerVars
           /\ [ClusterNext]_clusterVars /\ [BalancerNext]_balancerVars
           /\ [PoolNext]_poolVars /\ [DbNext]_dbVars
           /\ [BrokerNext]_brokerVars /\ [CacheNext]_cacheVars
<1>1. CASE UNCHANGED vars
  BY <1>1 DEF vars
<1>2. CASE InFailover(FailoverNext)
  BY <1>2 DEF InFailover
<1>3. CASE InScaler(ScalerNext)
  BY <1>3 DEF InScaler
<1>4. CASE InCluster(ClusterNext)
  BY <1>4 DEF InCluster
<1>5. CASE InBalancer(BalancerNext)
  BY <1>5 DEF InBalancer
<1>6. CASE InPool(PoolNext)
  BY <1>6 DEF InPool
<1>7. CASE InDatabase(DbNext)
  BY <1>7 DEF InDatabase
<1>8. CASE InBroker(BrokerNext)
  BY <1>8 DEF InBroker
<1>9. CASE InCache(CacheNext)
  BY <1>9 DEF InCache
<1>. QED BY <1>1, <1>2, <1>3, <1>4, <1>5, <1>6, <1>7, <1>8, <1>9 DEF Next

\* The composition that the runs check is each part's own specification: what
\* is proved of a part holds of the composition.
THEOREM PartsImplemented ==
    Spec => ScalerSpec /\ ClusterSpec /\ BalancerSpec /\ PoolSpec /\ DbSpec /\ BrokerSpec
<1>1. Init => ScalerInit /\ ClusterInit /\ BalancerInit /\ PoolInit /\ DbInit /\ BrokerInit
  BY DEF Init
<1>2. [Next]_vars =>
          /\ [ScalerNext]_scalerVars /\ [ClusterNext]_clusterVars
          /\ [BalancerNext]_balancerVars /\ [PoolNext]_poolVars
          /\ [DbNext]_dbVars /\ [BrokerNext]_brokerVars
  BY StepOfAPart
<1>. QED
  BY <1>1, <1>2, PTL
    DEF Spec, ScalerSpec, ClusterSpec, BalancerSpec, PoolSpec, DbSpec, BrokerSpec

\* Every part's state stays in range: no count below zero or over its bound,
\* no instance out of the scaler's limits, no id twice in the balancer's map.
THEOREM OperationsTypeCorrect == Spec => []TypeOK
<1>. DEFINE Inv == /\ FailoverTypeOK /\ ScalerTypeOK /\ ClusterTypeOK /\ BalancerTypeOK
                   /\ PoolInv /\ DbTypeOK /\ UsersInv /\ BrokerTypeOK /\ HandlerInv
                   /\ OrderInv /\ CacheTypeOK
<1>1. Init => Inv
  BY FailoverTyped, ScalerTyped, ClusterTyped, BalancerTyped, PoolStep, InitUsers,
    InitBroker, CacheTyped DEF Init
<1>2. Inv /\ [Next]_vars => Inv'
  BY StepOfAPart, FailoverTyped, ScalerTyped, ClusterTyped, BalancerTyped, PoolStep,
    DbTypeStep, BeforeStep, WaitStep, SameStep, BrokerTypeStep, HandlerStep, OrderStep,
    CacheTyped DEF UsersInv
<1>3. Inv => TypeOK
  BY PoolTyped DEF TypeOK
<1>. QED BY <1>1, <1>2, <1>3, PTL DEF Spec
=============================================================================
