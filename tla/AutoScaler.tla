------------------------------ MODULE AutoScaler ------------------------------
(***************************************************************************)
(* AutoScaler: every interval an evaluation checks the global cooldown,    *)
(* awaits the metrics, lets the rules vote and scales.  Nothing keeps an   *)
(* evaluation from starting while others await their metrics.  A rule is   *)
(* known by its metric: no two rules share one.  Times are ages, counted   *)
(* in ticks up to the longest one that is compared with.                   *)
(***************************************************************************)
EXTENDS Integers, Sequences, FiniteSets, FiniteSetsExt

CONSTANTS
    Rules,             \* config.rules, by metric
    UpBy, DownBy,      \* scaleUpIncrement, scaleDownIncrement of each rule
    MinInstances, MaxInstances, FirstInstances,
    RuleCooldown,      \* cooldownPeriod of every rule, in ticks
    ScalingCooldown,   \* global cooldown, in ticks
    MaxEvaluations     \* bound on evaluations that await metrics together

ASSUME ScalerAssumption ==
    /\ IsFiniteSet(Rules) /\ Rules # {}
    /\ UpBy \in [Rules -> Nat] /\ DownBy \in [Rules -> Nat]
    /\ MinInstances \in Nat /\ MaxInstances \in Nat
    /\ FirstInstances \in MinInstances .. MaxInstances
    /\ RuleCooldown \in Nat /\ ScalingCooldown \in Nat
    /\ MaxEvaluations \in Nat

VARIABLES
    instances,    \* currentInstances
    ticking,      \* checkInterval is set
    scalerOn,     \* config.enabled
    scaledAge,    \* ticks since lastScalingAction
    ruleAge,      \* ticks since each rule's entry in ruleCooldowns
    collecting,   \* evaluations that await their metrics
    history       \* ages of the scalings among the recorded decisions that
                  \* are younger than a rule's cooldown

scalerVars == <<instances, ticking, scalerOn, scaledAge, ruleAge, collecting, history>>

Least(a, b) == IF a < b THEN a ELSE b
Greatest(a, b) == IF a > b THEN a ELSE b

\* where a metric stands in its rule; a failed collection reads 0: "low"
Levels == {"high", "between", "low"}

-----------------------------------------------------------------------------
(* Mutations: plausible bugs in the definitions below; ScalerNext uses     *)
(* none.                                                                   *)

\* only a vote to scale up starts the rule's cooldown
BugVoters(level) == {r \in Rules : ruleAge[r] >= RuleCooldown /\ level[r] = "high"}

\* the upper bound is forgotten
BugTarget(level) ==
    IF \E r \in Rules : ruleAge[r] >= RuleCooldown /\ level[r] = "high"
    THEN instances + 1 ELSE instances

-----------------------------------------------------------------------------
ScalerInit ==
    /\ instances = FirstInstances
    /\ ticking = FALSE /\ scalerOn = TRUE
    /\ scaledAge = ScalingCooldown
    /\ ruleAge = [r \in Rules |-> RuleCooldown]
    /\ collecting = 0
    /\ history = <<>>

\* calculateScaleUpIncrement, calculateScaleDownIncrement: over all rules,
\* whichever voted
ScaleUpIncrement == Max({UpBy[r] : r \in Rules})
ScaleDownIncrement == Min({DownBy[r] : r \in Rules})

IsInCooldown == scaledAge < ScalingCooldown

\* rules out of their cooldown
Fresh == {r \in Rules : ruleAge[r] >= RuleCooldown}

\* the rules that vote, and whose cooldown starts with that
Voters(level) == {r \in Fresh : level[r] # "between"}
UpVotes(level) == Cardinality({r \in Fresh : level[r] = "high"})
DownVotes(level) == Cardinality({r \in Fresh : level[r] = "low"})

Target(level) ==
    IF UpVotes(level) > DownVotes(level)
    THEN Least(instances + ScaleUpIncrement, MaxInstances)
    ELSE IF DownVotes(level) > UpVotes(level)
    THEN Greatest(instances - ScaleDownIncrement, MinInstances)
    ELSE instances

\* start is refused while disabled; nothing else looks at the switch
StartScaler ==
    /\ ~ticking /\ scalerOn
    /\ ticking' = TRUE
    /\ UNCHANGED <<instances, scalerOn, scaledAge, ruleAge, collecting, history>>

\* evaluations under way go on
StopScaler ==
    /\ ticking /\ ticking' = FALSE
    /\ UNCHANGED <<instances, scalerOn, scaledAge, ruleAge, collecting, history>>

\* enable, disable
SetScaler(on) ==
    /\ scalerOn # on /\ scalerOn' = on
    /\ UNCHANGED <<instances, ticking, scaledAge, ruleAge, collecting, history>>

\* evaluateScaling up to collectMetrics
StartEvaluation ==
    /\ ticking /\ ~IsInCooldown
    /\ collecting < MaxEvaluations
    /\ collecting' = collecting + 1
    /\ UNCHANGED <<instances, ticking, scalerOn, scaledAge, ruleAge, history>>

\* the metrics are there: votes, scaleUp or scaleDown, the record
Scales(target) ==
    /\ instances' = target
    /\ scaledAge' = 0
    /\ history' = Append(history, 0)

NoAction == UNCHANGED <<instances, scaledAge, history>>

EndEvaluation(level) ==
    /\ collecting > 0 /\ collecting' = collecting - 1
    /\ ruleAge' = [r \in Rules |-> IF r \in Voters(level) THEN 0 ELSE ruleAge[r]]
    /\ IF Target(level) = instances THEN NoAction ELSE Scales(Target(level))
    /\ UNCHANGED <<ticking, scalerOn>>

\* setInstanceCount: within the bounds, and no cooldown starts
SetInstanceCount(n) ==
    /\ n \in MinInstances .. MaxInstances
    /\ n # instances /\ instances' = n
    /\ UNCHANGED <<ticking, scalerOn, scaledAge, ruleAge, collecting, history>>

\* time passes; scalings as old as a rule's cooldown, the first ones recorded,
\* are not kept
Forgets(n) ==
    /\ \A i \in DOMAIN history : history[i] + 1 >= RuleCooldown <=> i <= n
    /\ history' = [i \in 1 .. Len(history) - n |-> history[n + i] + 1]

TimePasses ==
    /\ scaledAge < ScalingCooldown \/ \E r \in Rules : ruleAge[r] < RuleCooldown
    /\ scaledAge' = Least(scaledAge + 1, ScalingCooldown)
    /\ ruleAge' = [r \in Rules |-> Least(ruleAge[r] + 1, RuleCooldown)]
    /\ \E n \in 0 .. Len(history) : Forgets(n)
    /\ UNCHANGED <<instances, ticking, scalerOn, collecting>>

ScalerNext ==
    \/ StartScaler \/ StopScaler
    \/ \E on \in BOOLEAN : SetScaler(on)
    \/ StartEvaluation
    \/ \E level \in [Rules -> Levels] : EndEvaluation(level)
    \/ \E n \in MinInstances .. MaxInstances : SetInstanceCount(n)
    \/ TimePasses

ScalerSpec == ScalerInit /\ [][ScalerNext]_scalerVars

-----------------------------------------------------------------------------
ScalerTypeOK ==
    /\ instances \in MinInstances .. MaxInstances
    /\ ticking \in BOOLEAN /\ scalerOn \in BOOLEAN
    /\ scaledAge \in 0 .. ScalingCooldown
    /\ ruleAge \in [Rules -> 0 .. RuleCooldown]
    /\ collecting \in 0 .. MaxEvaluations
    /\ history \in Seq(0 .. RuleCooldown)
    /\ \A i, j \in DOMAIN history : i < j => history[i] >= history[j]

\* However many evaluations pile up behind slow metrics, no more scalings
\* fall within one cooldown of the rules than there are rules: each has
\* spent the cooldown of a rule.  (The global cooldown promises no such
\* thing: it is checked before the metrics are awaited.)
\* AutoScaler.evaluateScaling.
BurstBounded == RuleCooldown > 0 => Len(history) <= Cardinality(Rules)
=============================================================================
