----------------------------- MODULE LoadBalancer -----------------------------
(***************************************************************************)
(* LoadBalancer: backends in order of registration, a strategy that picks  *)
(* among the healthy ones, connection counts kept by the callers, and      *)
(* probes that are not guarded against each other.  A probe holds the      *)
(* object it was started for: after a new registration of the id it has    *)
(* nothing left to change.  Events (no code listens to them) and the two   *)
(* request totals are left out.                                            *)
(***************************************************************************)
EXTENDS Integers, Sequences, SequencesExt

CONSTANTS
    Backends,       \* ids
    Clients,        \* addresses
    HashOf,         \* simpleHash of each address
    Strategy,       \* config.strategy; an unknown one is round-robin
    MaxSelections,  \* bound on round-robin selections
    MaxRequests,    \* bound on requests per backend in flight
    MaxProbes       \* bound on probes per backend under way

ASSUME BalancerAssumption ==
    /\ HashOf \in [Clients -> Nat]
    /\ MaxSelections \in Nat /\ MaxRequests \in Nat /\ MaxProbes \in Nat

VARIABLES
    backends,     \* the ids registered, in the order of the map
    fit,          \* healthy, of each id that is registered
    active,       \* activeConnections, of each id
    inFlight,     \* requests really under way to each id
    alive,        \* ids that would answer a probe with 200
    currentIndex, \* of the round-robin
    probing,      \* the probes run at intervals
    probes        \* per id: probes sent, answered well or ill

balancerVars == <<backends, fit, active, inFlight, alive, currentIndex, probing, probes>>

NoProbes == [sent |-> 0, well |-> 0, ill |-> 0]

\* one probe is answered, one answer is heeded
AnsweredWell(p) == [p EXCEPT !.sent = @ - 1, !.well = @ + 1]
AnsweredIll(p) == [p EXCEPT !.sent = @ - 1, !.ill = @ + 1]
WellRead(p) == [p EXCEPT !.well = @ - 1]
IllRead(p) == [p EXCEPT !.ill = @ - 1]

-----------------------------------------------------------------------------
(* Mutations: plausible bugs in the definition each Bug... stands for; Next *)
(* uses none of them.                                                      *)

\* the count is left to the requests that succeed, and this one did not
BugCompleteRequest(b) ==
    /\ inFlight[b] > 0
    /\ inFlight' = [inFlight EXCEPT ![b] = @ - 1]
    /\ UNCHANGED <<backends, fit, active, alive, currentIndex, probing, probes>>

-----------------------------------------------------------------------------
BalancerInit ==
    /\ backends = <<>>
    /\ fit = [b \in Backends |-> FALSE]
    /\ active = [b \in Backends |-> 0]
    /\ inFlight = [b \in Backends |-> 0]
    /\ alive = Backends
    /\ currentIndex = 0
    /\ probing = FALSE
    /\ probes = [b \in Backends |-> NoProbes]

Registered(b) == b \in ToSet(backends)

\* a new object, under an old id too
RegisterBackend(b) ==
    /\ backends' = IF Registered(b) THEN backends ELSE Append(backends, b)
    /\ fit' = [fit EXCEPT ![b] = TRUE]
    /\ active' = [active EXCEPT ![b] = 0]
    /\ probes' = [probes EXCEPT ![b] = NoProbes]
    /\ UNCHANGED <<inFlight, alive, currentIndex, probing>>

\* with open connections too
UnregisterBackend(b) ==
    /\ \E i \in DOMAIN backends :
           backends[i] = b /\ backends' = RemoveAt(backends, i)
    /\ fit' = [fit EXCEPT ![b] = FALSE]
    /\ active' = [active EXCEPT ![b] = 0]
    /\ probes' = [probes EXCEPT ![b] = NoProbes]
    /\ UNCHANGED <<inFlight, alive, currentIndex, probing>>

HealthyBackends == SelectSeq(backends, LAMBDA b : fit[b])

RoundRobin(healthy) == {healthy[(currentIndex % Len(healthy)) + 1]}

\* the first of those with the fewest connections
LeastConnections(healthy) ==
    {healthy[i] : i \in {i \in DOMAIN healthy :
        \A j \in DOMAIN healthy :
            \/ active[healthy[i]] < active[healthy[j]]
            \/ /\ active[healthy[i]] = active[healthy[j]]
               /\ i <= j}}

\* a draw: it may fall on any
Weighted(healthy) == ToSet(healthy)

IpHash(healthy, client) == {healthy[(HashOf[client] % Len(healthy)) + 1]}

\* getNextBackend, which answers null if no backend is healthy
Selectable(healthy, client) ==
    IF healthy = <<>> THEN {}
    ELSE CASE Strategy = "least-connections" -> LeastConnections(healthy)
           [] Strategy = "weighted" -> Weighted(healthy)
           [] Strategy = "ip-hash" -> IpHash(healthy, client)
           [] OTHER -> RoundRobin(healthy)

Rotates == Strategy \notin {"least-connections", "weighted", "ip-hash"}

\* getNextBackend and recordRequestStart
StartRequest(client) ==
    \E b \in Selectable(HealthyBackends, client) :
        /\ inFlight[b] < MaxRequests
        /\ Rotates => currentIndex < MaxSelections
        /\ active' = [active EXCEPT ![b] = @ + 1]
        /\ inFlight' = [inFlight EXCEPT ![b] = @ + 1]
        /\ currentIndex' = IF Rotates THEN currentIndex + 1 ELSE currentIndex
        /\ UNCHANGED <<backends, fit, alive, probing, probes>>

\* recordRequestComplete, of an id that may be gone or new
CompleteRequest(b) ==
    /\ inFlight[b] > 0
    /\ inFlight' = [inFlight EXCEPT ![b] = @ - 1]
    /\ active' = IF active[b] > 0 THEN [active EXCEPT ![b] = @ - 1] ELSE active
    /\ UNCHANGED <<backends, fit, alive, currentIndex, probing, probes>>

SetProbing(on) ==
    /\ probing # on /\ probing' = on
    /\ UNCHANGED <<backends, fit, active, inFlight, alive, currentIndex, probes>>

\* performHealthChecks probes every backend
ProbeAll ==
    /\ probing /\ backends # <<>>
    /\ \A b \in ToSet(backends) :
           probes[b].sent + probes[b].well + probes[b].ill < MaxProbes
    /\ probes' = [b \in Backends |->
                     IF Registered(b) THEN [probes[b] EXCEPT !.sent = @ + 1]
                     ELSE probes[b]]
    /\ UNCHANGED <<backends, fit, active, inFlight, alive, currentIndex, probing>>

\* the backend answers, or refuses the connection
ProbeAnswered(b) ==
    /\ probes[b].sent > 0
    /\ probes' = IF b \in alive
                 THEN [probes EXCEPT ![b] = AnsweredWell(@)]
                 ELSE [probes EXCEPT ![b] = AnsweredIll(@)]
    /\ UNCHANGED <<backends, fit, active, inFlight, alive, currentIndex, probing>>

\* the timeout handler, whose destroy makes an error follow
ProbeTimesOut(b) ==
    /\ probes[b].sent > 0
    /\ fit' = [fit EXCEPT ![b] = FALSE]
    /\ probes' = [probes EXCEPT ![b] = AnsweredIll(@)]
    /\ UNCHANGED <<backends, active, inFlight, alive, currentIndex, probing>>

ProbeWell(b) ==
    /\ probes[b].well > 0
    /\ fit' = [fit EXCEPT ![b] = TRUE]
    /\ probes' = [probes EXCEPT ![b] = WellRead(@)]
    /\ UNCHANGED <<backends, active, inFlight, alive, currentIndex, probing>>

\* another status than 200, or the error handler
ProbeIll(b) ==
    /\ probes[b].ill > 0
    /\ fit' = [fit EXCEPT ![b] = FALSE]
    /\ probes' = [probes EXCEPT ![b] = IllRead(@)]
    /\ UNCHANGED <<backends, active, inFlight, alive, currentIndex, probing>>

ShutdownBalancer ==
    /\ probing \/ backends # <<>>
    /\ probing' = FALSE /\ backends' = <<>>
    /\ fit' = [b \in Backends |-> FALSE]
    /\ active' = [b \in Backends |-> 0]
    /\ probes' = [b \in Backends |-> NoProbes]
    /\ UNCHANGED <<inFlight, alive, currentIndex>>

BackendFails(b) ==
    /\ alive' = alive \ {b} /\ b \in alive
    /\ UNCHANGED <<backends, fit, active, inFlight, currentIndex, probing, probes>>

BalancerNext ==
    \/ \E b \in Backends :
           RegisterBackend(b) \/ UnregisterBackend(b) \/ CompleteRequest(b)
           \/ ProbeAnswered(b) \/ ProbeTimesOut(b) \/ ProbeWell(b) \/ ProbeIll(b)
           \/ BackendFails(b)
    \/ \E client \in Clients : StartRequest(client)
    \/ \E on \in BOOLEAN : SetProbing(on)
    \/ ProbeAll \/ ShutdownBalancer

BalancerSpec == BalancerInit /\ [][BalancerNext]_balancerVars

-----------------------------------------------------------------------------
BalancerTypeOK ==
    /\ backends \in Seq(Backends) /\ IsInjective(backends)
    /\ fit \in [Backends -> BOOLEAN]
    /\ active \in [Backends -> Nat] /\ inFlight \in [Backends -> 0 .. MaxRequests]
    /\ alive \subseteq Backends
    /\ currentIndex \in 0 .. MaxSelections
    /\ probing \in BOOLEAN
    /\ probes \in [Backends -> [sent : Nat, well : Nat, ill : Nat]]

\* A backend is never charged with a connection that is over, which would keep
\* the least-connections strategy off it for ever: not by requests that end
\* after their backend has gone, or under a new registration of its id.  (The
\* other way round it happens: such an end takes one off the new count.)
\* LoadBalancer.recordRequestComplete, registerBackend, unregisterBackend.
NoPhantomConnections == \A b \in Backends : active[b] <= inFlight[b]
=============================================================================
