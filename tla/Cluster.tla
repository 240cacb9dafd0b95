-------------------------------- MODULE Cluster -------------------------------
(***************************************************************************)
(* ClusterManager in the primary process: workers are forked, serve, die   *)
(* and are forked again after a second; a restart forks a replacement and  *)
(* lets the old worker go once the new one listens.  Node numbers workers  *)
(* in the order of their forks and never reuses a number.  The statistics  *)
(* of a worker and the messages to it are left out.                        *)
(***************************************************************************)
EXTENDS Integers, Sequences, FiniteSets

CONSTANTS
    WorkerCount,  \* config.workers
    RespawnDead,  \* config.respawn
    MaxRestarts,  \* config.maxRestarts
    MaxForks,     \* bound on workers ever forked
    MaxCrashes,   \* bound on workers that die of themselves
    MaxCommands   \* bound on restarts and kills asked for

ASSUME ClusterAssumption ==
    /\ WorkerCount \in Nat /\ MaxForks \in Nat /\ MaxCrashes \in Nat
    /\ MaxCommands \in Nat /\ MaxRestarts \in Nat /\ RespawnDead \in BOOLEAN

Workers == 1 .. MaxForks

VARIABLES
    state,         \* of each worker
    voluntary,     \* workers with exitedAfterDisconnect
    served,        \* workers that have listened
    replaces,      \* the worker whose restart forked this one, 0 if none
    restartCounts, \* respawns on account of each worker
    respawning,    \* respawn timers set
    rolling,       \* workers restartAllWorkers has still to restart
    rollingNew,    \* the replacement it waits for, 0 if none
    clusterDown,   \* shutdown has been called
    crashes,       \* workers that have died of themselves
    kills,         \* and by killWorker
    commands       \* restarts and kills so far

clusterVars == <<state, voluntary, served, replaces, restartCounts, respawning,
                 rolling, rollingNew, clusterDown, crashes, kills, commands>>
rollVars == <<rolling, rollingNew>>

\* "none": not forked yet; "leaving": disconnect or kill has been called
WorkerStates == {"none", "starting", "listening", "leaving", "dead"}

-----------------------------------------------------------------------------
(* Mutations: plausible bugs in the definitions below; ClusterNext uses    *)
(* none.                                                                   *)

\* a restart lets the old worker go before the new one listens
BugReplace(old, new) ==
    /\ state' = [state EXCEPT ![new] = "starting", ![old] = "leaving"]
    /\ voluntary' = voluntary \cup {old}
    /\ replaces' = [replaces EXCEPT ![new] = old]

-----------------------------------------------------------------------------
Alive == {w \in Workers : state[w] \in {"starting", "listening", "leaving"}}
Unforked == {w \in Workers : state[w] = "none"}

\* cluster.fork gives w the next number
IsNext(w) == w \in Unforked /\ \A v \in Unforked : w <= v

\* initialize has just forked the workers
ClusterInit ==
    /\ state = [w \in Workers |-> IF w <= WorkerCount THEN "starting" ELSE "none"]
    /\ voluntary = {} /\ served = {}
    /\ replaces = [w \in Workers |-> 0]
    /\ restartCounts = [w \in Workers |-> 0]
    /\ respawning = 0
    /\ rolling = <<>> /\ rollingNew = 0
    /\ clusterDown = FALSE /\ crashes = 0 /\ kills = 0 /\ commands = 0

Command == commands < MaxCommands /\ commands' = commands + 1

\* checkRespawnLimit counts per worker number, and a number dies but once
CheckRespawnLimit(w) == restartCounts[w] = 0 \/ restartCounts[w] < MaxRestarts

Respawns(w) == RespawnDead /\ w \notin voluntary

\* the exit handler
Exit(w) ==
    /\ state' = [state EXCEPT ![w] = "dead"]
    /\ IF Respawns(w) /\ CheckRespawnLimit(w)
       THEN /\ respawning' = respawning + 1
            /\ restartCounts' = [restartCounts EXCEPT ![w] = @ + 1]
       ELSE UNCHANGED <<respawning, restartCounts>>

WorkerDies(w) ==
    /\ state[w] \in {"starting", "listening"} /\ crashes < MaxCrashes
    /\ Exit(w)
    /\ crashes' = crashes + 1
    /\ UNCHANGED <<voluntary, served, replaces, rollVars, clusterDown, kills, commands>>

\* a worker told to go ends, of itself or by the kill that follows
WorkerLeaves(w) ==
    /\ state[w] = "leaving"
    /\ Exit(w)
    /\ UNCHANGED <<voluntary, served, replaces, rollVars, clusterDown, crashes, kills, commands>>

\* the respawn timer, after a shutdown too
Respawn(w) ==
    /\ respawning > 0 /\ IsNext(w)
    /\ respawning' = respawning - 1
    /\ state' = [state EXCEPT ![w] = "starting"]
    /\ UNCHANGED <<voluntary, served, replaces, restartCounts, rollVars,
                   clusterDown, crashes, kills, commands>>

\* the listening event: a replacement sends the worker it replaces away
WorkerListens(w) ==
    /\ state[w] = "starting"
    /\ served' = served \cup {w}
    /\ LET old == replaces[w]
           goes == old \in Alive
       IN  /\ state' = [v \in Workers |->
                            IF v = w THEN "listening"
                            ELSE IF v = old /\ goes THEN "leaving" ELSE state[v]]
           /\ voluntary' = IF goes THEN voluntary \cup {old} ELSE voluntary
    /\ UNCHANGED <<replaces, restartCounts, respawning, rollVars, clusterDown,
                   crashes, kills, commands>>

\* restartWorker up to the wait for its replacement
Replace(old, new) ==
    /\ state' = [state EXCEPT ![new] = "starting"]
    /\ replaces' = [replaces EXCEPT ![new] = old]
    /\ UNCHANGED voluntary

RestartWorker(old, new) ==
    /\ Command
    /\ old \in Alive /\ IsNext(new)
    /\ Replace(old, new)
    /\ UNCHANGED <<served, restartCounts, respawning, rollVars, clusterDown,
                   crashes, kills>>

\* Object.keys of the workers: their numbers, the lowest first
AliveInOrder ==
    {order \in [1 .. Cardinality(Alive) -> Alive] :
        \A i, j \in DOMAIN order : i < j => order[i] < order[j]}

\* restartAllWorkers: the numbers of now, one after the other
RestartAllWorkers ==
    /\ Command
    /\ rolling = <<>> /\ rollingNew = 0 /\ Alive # {}
    /\ rolling' \in AliveInOrder
    /\ UNCHANGED <<state, voluntary, served, replaces, restartCounts, respawning,
                   rollingNew, clusterDown, crashes, kills>>

RollOne(new) ==
    /\ rolling # <<>> /\ rollingNew = 0
    /\ Head(rolling) \in Alive /\ IsNext(new)
    /\ Replace(Head(rolling), new)
    /\ rolling' = Tail(rolling) /\ rollingNew' = new
    /\ UNCHANGED <<served, restartCounts, respawning, clusterDown, crashes, kills, commands>>

RollOn ==
    /\ rollingNew \in served /\ rollingNew' = 0
    /\ UNCHANGED <<state, voluntary, served, replaces, restartCounts, respawning,
                   rolling, clusterDown, crashes, kills, commands>>

\* the worker is gone, or its replacement does not listen in time: the rest
\* is not restarted; the replacement still takes over when it does listen
RollFails ==
    /\ \/ rolling # <<>> /\ rollingNew = 0 /\ Head(rolling) \notin Alive
       \/ rollingNew # 0 /\ rollingNew \notin served
    /\ rolling' = <<>> /\ rollingNew' = 0
    /\ UNCHANGED <<state, voluntary, served, replaces, restartCounts, respawning,
                   clusterDown, crashes, kills, commands>>

\* killWorker; whether Node counts it as voluntary depends on its version
KillWorker(w) ==
    /\ Command
    /\ state[w] \in {"starting", "listening"}
    /\ state' = [state EXCEPT ![w] = "leaving"]
    /\ \/ voluntary' = voluntary \cup {w}
       \/ UNCHANGED voluntary
    /\ kills' = kills + 1
    /\ UNCHANGED <<served, replaces, restartCounts, respawning, rollVars,
                   clusterDown, crashes>>

\* shutdown disconnects whoever is there
ShutdownCluster ==
    /\ ~clusterDown /\ clusterDown' = TRUE
    /\ state' = [w \in Workers |-> IF w \in Alive THEN "leaving" ELSE state[w]]
    /\ voluntary' = voluntary \cup Alive
    /\ UNCHANGED <<served, replaces, restartCounts, respawning, rollVars, crashes,
                   kills, commands>>

ClusterNext ==
    \/ \E w \in Workers :
           \/ WorkerDies(w) \/ WorkerLeaves(w) \/ WorkerListens(w)
           \/ Respawn(w) \/ RollOne(w) \/ KillWorker(w)
    \/ \E old, new \in Workers : RestartWorker(old, new)
    \/ RestartAllWorkers \/ RollOn \/ RollFails \/ ShutdownCluster

ClusterSpec == ClusterInit /\ [][ClusterNext]_clusterVars

-----------------------------------------------------------------------------
ClusterTypeOK ==
    /\ state \in [Workers -> WorkerStates]
    /\ voluntary \subseteq Workers /\ served \subseteq Workers
    /\ replaces \in [Workers -> 0 .. MaxForks]
    /\ restartCounts \in [Workers -> Nat]
    /\ respawning \in Nat
    /\ rolling \in Seq(Workers) /\ rollingNew \in 0 .. MaxForks
    /\ clusterDown \in BOOLEAN
    /\ crashes \in 0 .. MaxCrashes
    /\ commands \in 0 .. MaxCommands /\ kills \in 0 .. commands

Listening == {w \in Workers : state[w] = "listening"}

\* Restarts are graceful, also when workers and replacements die in the
\* middle, restarts overlap or run out of their time: until a shutdown, of the
\* workers that have come to serve as many still do, but for those that died
\* or were killed.  ClusterManager.restartWorker, restartAllWorkers.
RestartsGraceful ==
    clusterDown \/ Cardinality(Listening) + crashes + kills
                     >= Cardinality({w \in served : replaces[w] = 0})
=============================================================================
