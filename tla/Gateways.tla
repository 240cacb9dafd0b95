------------------------------- MODULE Gateways -------------------------------
(***************************************************************************)
(* GatewayHealthService: every few minutes, and when a route asks for it,  *)
(* each payment gateway is asked for a payment that does not exist, and    *)
(* the time it takes is its health.  PaymentManager knows an adapter for   *)
(* few providers and answers for the others at once; the Midtrans adapter  *)
(* turns every error into an answer, so that a gateway that refuses        *)
(* connections is a fast one, and only a slow one is down.  The HTTP       *)
(* client gives up on a gateway that sends nothing; a body that never ends *)
(* is left out.                                                            *)
(***************************************************************************)
EXTENDS Integers, Sequences, SequencesExt

CONSTANTS
    ProviderOrder,  \* the providers, in the order they are checked
    Adapted,        \* those with an adapter
    Others,         \* rounds there can be at a time besides the timer's
    MaxRecords,     \* maxRecords of GatewayHealthService
    MaxLatencies,   \* maxRecords of LatencyService
    MaxIntervals    \* bound on timers set

Providers == ToSet(ProviderOrder)

ASSUME GatewaysAssumption ==
    /\ ProviderOrder \in Seq(Providers) /\ ProviderOrder # <<>>
    /\ Adapted \subseteq Providers /\ "timer" \notin Others /\ "none" \notin Others
    /\ MaxRecords \in Nat \ {0} /\ MaxLatencies \in Nat \ {0} /\ MaxIntervals \in Nat

VARIABLES
    site,        \* how each provider's server behaves
    healthRecords, \* of each provider, the latencies, oldest first
    latencies,   \* what LatencyService holds of each provider
    todo,        \* providers a round has to check, the first one asked now
    took,        \* how long the one asked now takes
    starting,    \* the round initialize waits for
    intervals,   \* timers set
    held         \* stop knows one of them

gatewayVars == <<site, healthRecords, latencies, todo, took, starting, intervals, held>>
roundVars == <<todo, took>>
timerVars == <<starting, intervals, held>>

\* that of the timer, over long before its next, and those of routes and of
\* timers that nobody holds any more
Rounds == {"timer"} \cup Others

Sites == {"quick", "slow", "stuck", "refusing"}

\* below 1 s, below 3 s, longer
Times == {"fast", "slow", "long"}

-----------------------------------------------------------------------------
(* Mutations: plausible bugs in the definitions below; GatewaysNext uses   *)
(* none.                                                                   *)

\* a full history takes nothing more
BugRecordHealth(p, time) ==
    healthRecords' = IF Len(healthRecords[p]) < MaxRecords
                     THEN [healthRecords EXCEPT ![p] = Append(@, time)]
                     ELSE healthRecords

\* the oldest record is not shifted out
BugKeep(records, new, most) == Append(records, new)

-----------------------------------------------------------------------------
\* push, and shift when there are too many
Keep(records, new, most) ==
    LET all == Append(records, new)
    IN  IF Len(all) > most THEN Tail(all) ELSE all

RecordHealth(p, time) ==
    healthRecords' = [healthRecords EXCEPT ![p] = Keep(@, time, MaxRecords)]

RecordLatency(p, time) ==
    latencies' = [latencies EXCEPT ![p] = Keep(@, time, MaxLatencies)]

\* checkGateway's thresholds; its catch branch has nothing to catch
Status(time) ==
    CASE time = "fast" -> "up" [] time = "slow" -> "degraded" [] time = "long" -> "down"

\* HTTPClient.get and MidtransAdapter.getPaymentStatus: an answer, or an error
\* that is an answer as well, or an abort after thirty seconds
AdapterTakes(s) ==
    CASE s \in {"quick", "refusing"} -> "fast" [] s = "slow" -> "slow" [] s = "stuck" -> "long"

\* PaymentManager.getPaymentStatus
Takes(p) == IF p \in Adapted THEN AdapterTakes(site[p]) ELSE "fast"

\* getGatewayHealth: the latest record
GatewayStatus(p) ==
    IF healthRecords[p] = <<>> THEN "none" ELSE Status(Last(healthRecords[p]))

GatewaysInit ==
    /\ site = [p \in Providers |-> "quick"]
    /\ healthRecords = [p \in Providers |-> <<>>]
    /\ latencies = [p \in Providers |-> <<>>]
    /\ todo = [r \in Rounds |-> <<>>] /\ took = [r \in Rounds |-> "fast"]
    /\ starting = "none" /\ intervals = 0 /\ held = FALSE

\* the world
SiteChanges(p, s) ==
    /\ p \in Adapted /\ site[p] # s
    /\ site' = [site EXCEPT ![p] = s]
    /\ UNCHANGED <<healthRecords, latencies, roundVars, timerVars>>

Begin(r, list) ==
    /\ todo[r] = <<>>
    /\ todo' = [todo EXCEPT ![r] = list]
    /\ took' = [took EXCEPT ![r] = Takes(Head(list))]
    /\ UNCHANGED <<site, healthRecords, latencies>>

\* initialize: nothing keeps it from being called again
StartGatewayChecks(r) ==
    /\ starting = "none" /\ intervals < MaxIntervals
    /\ starting' = r
    /\ Begin(r, ProviderOrder)
    /\ UNCHANGED <<intervals, held>>

TimerFires == intervals > 0 /\ Begin("timer", ProviderOrder) /\ UNCHANGED timerVars

\* POST /check-all and POST /:provider/check
CheckAllGateways(r) == Begin(r, ProviderOrder) /\ UNCHANGED timerVars
CheckGateway(r, p) == Begin(r, <<p>>) /\ UNCHANGED timerVars

\* the answer of the provider asked: recorded, and the next one is asked; the
\* round of initialize ends with the timer set
Answered(r) ==
    /\ todo[r] # <<>>
    /\ LET p == Head(todo[r])
           rest == Tail(todo[r])
       IN  /\ RecordHealth(p, took[r]) /\ RecordLatency(p, took[r])
           /\ todo' = [todo EXCEPT ![r] = rest]
           /\ took' = [took EXCEPT ![r] = IF rest = <<>> THEN "fast" ELSE Takes(Head(rest))]
           /\ IF rest = <<>> /\ starting = r
              THEN starting' = "none" /\ intervals' = intervals + 1 /\ held' = TRUE
              ELSE UNCHANGED timerVars
    /\ UNCHANGED site

\* stop clears the timer set last
StopGatewayChecks ==
    /\ held /\ held' = FALSE
    /\ intervals' = intervals - 1
    /\ UNCHANGED <<site, healthRecords, latencies, roundVars, starting>>

\* clearOldRecords: the oldest of each provider go, as many as are old
ClearOldLatencies(old) ==
    /\ \E p \in Providers : old[p] # 0
    /\ \A p \in Providers : old[p] <= Len(latencies[p])
    /\ latencies' = [p \in Providers |->
                         SubSeq(latencies[p], old[p] + 1, Len(latencies[p]))]
    /\ UNCHANGED <<site, healthRecords, roundVars, timerVars>>

GatewaysNext ==
    \/ \E p \in Providers, s \in Sites : SiteChanges(p, s)
    \/ \E r \in Others : CheckAllGateways(r) \/ \E p \in Providers : CheckGateway(r, p)
    \/ TimerFires \/ StopGatewayChecks
    \/ \E old \in [Providers -> 0 .. MaxLatencies] : ClearOldLatencies(old)
    \/ \E r \in Rounds : StartGatewayChecks(r) \/ Answered(r)

-----------------------------------------------------------------------------
GatewaysTypeOK ==
    /\ site \in [Providers -> Sites]
    /\ healthRecords \in [Providers -> Seq(Times)] /\ latencies \in [Providers -> Seq(Times)]
    /\ \A p \in Providers :
           Len(healthRecords[p]) <= MaxRecords /\ Len(latencies[p]) <= MaxLatencies
    /\ todo \in [Rounds -> Seq(Providers)] /\ took \in [Rounds -> Times]
    /\ starting \in Rounds \cup {"none"}
    /\ intervals \in 0 .. MaxIntervals /\ held \in BOOLEAN

\* While the timer runs, a gateway that stays stuck comes to be shown as down
\* and stays so: no answer to an earlier question, by a round of the timer or
\* by an admin's check, arrives so late that it hides the outage for good, and
\* no full history does.  GatewayHealthService.recordHealth, getGatewayHealth.
OutageShown ==
    \A p \in Adapted :
        <>[](site[p] = "stuck" /\ intervals > 0) => <>[](GatewayStatus(p) = "down")
=============================================================================
