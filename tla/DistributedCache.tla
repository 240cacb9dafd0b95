--------------------------- MODULE DistributedCache ---------------------------
(***************************************************************************)
(* DistributedCache, for one key: calls of its methods from any instance,  *)
(* command by command, and the source the factory of getOrSet computes     *)
(* from.  Redis executes a command in one step; the code after a reply     *)
(* touches nothing shared, so that it belongs to the step.  Values are the *)
(* version of the source they were computed from.  Statistics of hits and  *)
(* misses and reads that change nothing are left out.                      *)
(***************************************************************************)
EXTENDS Integers

CONSTANTS
    MaxCacheCalls,   \* bound on calls
    MaxVersion,      \* bound on changes of the source
    NoValue,         \* null
    MaxCacheFaults   \* bound on calls cut short by a broken connection

ASSUME CacheAssumption ==
    /\ MaxCacheCalls \in Nat /\ MaxVersion \in Nat /\ MaxCacheFaults \in Nat
    /\ NoValue \notin Int

CacheCalls == 1 .. MaxCacheCalls

VARIABLES
    source,      \* version of what the factory computes from
    cached,      \* the value under the key
    expires,     \* the key has a time to live
    method,      \* what each call is
    at,          \* where it stands
    computed,    \* what its factory has computed
    cacheFaults

cacheVars == <<source, cached, expires, method, at, computed, cacheFaults>>

\* increment and decrement; clear deletes in a second command
Methods == {"get", "set", "delete", "mset", "getOrSet", "increment", "setTTL", "clear"}

-----------------------------------------------------------------------------
(* Mutations: plausible bugs in the definitions below; CacheNext uses none.*)

\* getOrSet forgets to hand its options on
BugStore(c) ==
    /\ at[c] = "computed"
    /\ cached' = computed[c] /\ expires' = FALSE
    /\ at' = [at EXCEPT ![c] = "over"]
    /\ UNCHANGED <<source, method, computed, cacheFaults>>

-----------------------------------------------------------------------------
CacheInit ==
    /\ source = 0 /\ cached = NoValue /\ expires = FALSE
    /\ method = [c \in CacheCalls |-> "none"]
    /\ at = [c \in CacheCalls |-> "idle"]
    /\ computed = [c \in CacheCalls |-> NoValue]
    /\ cacheFaults = 0

Over(c) == at' = [at EXCEPT ![c] = "over"]

\* a call with a ttl, where the method takes one
CallCache(c, m) ==
    /\ at[c] = "idle" /\ \A b \in 1 .. c - 1 : at[b] # "idle"
    /\ method' = [method EXCEPT ![c] = m]
    /\ at' = [at EXCEPT ![c] = "called"]
    /\ UNCHANGED <<source, cached, expires, computed, cacheFaults>>

Runs(c, m) == method[c] = m /\ at[c] = "called"

\* SETEX, in set and in the pipeline of mset
SetValue(c) ==
    /\ Runs(c, "set") \/ Runs(c, "mset")
    /\ cached' = source /\ expires' = TRUE
    /\ Over(c)
    /\ UNCHANGED <<source, method, computed, cacheFaults>>

\* GET, EXISTS, TTL and the like
GetValue(c) ==
    /\ Runs(c, "get") /\ Over(c)
    /\ UNCHANGED <<source, cached, expires, method, computed, cacheFaults>>

DeleteValue(c) ==
    /\ Runs(c, "delete")
    /\ cached' = NoValue /\ expires' = FALSE
    /\ Over(c)
    /\ UNCHANGED <<source, method, computed, cacheFaults>>

\* getOrSet: a hit returns, a miss calls the factory
Look(c) ==
    /\ Runs(c, "getOrSet")
    /\ at' = [at EXCEPT ![c] = IF cached = NoValue THEN "computing" ELSE "over"]
    /\ UNCHANGED <<source, cached, expires, method, computed, cacheFaults>>

Compute(c) ==
    /\ at[c] = "computing"
    /\ computed' = [computed EXCEPT ![c] = source]
    /\ at' = [at EXCEPT ![c] = "computed"]
    /\ UNCHANGED <<source, cached, expires, method, cacheFaults>>

\* whatever has been set or deleted since
Store(c) ==
    /\ at[c] = "computed"
    /\ cached' = computed[c] /\ expires' = TRUE
    /\ Over(c)
    /\ UNCHANGED <<source, method, computed, cacheFaults>>

\* INCRBY makes a key without a time to live, EXPIRE gives it one
Increment(c) ==
    /\ Runs(c, "increment")
    /\ cached' = IF cached = NoValue THEN 0 ELSE cached
    /\ at' = [at EXCEPT ![c] = "expiring"]
    /\ UNCHANGED <<source, expires, method, computed, cacheFaults>>

SetTtl(c) ==
    /\ at[c] = "expiring" \/ Runs(c, "setTTL")
    /\ expires' = (cached # NoValue)
    /\ Over(c)
    /\ UNCHANGED <<source, cached, method, computed, cacheFaults>>

\* clear: KEYS, and DEL of what it found
FindKeys(c) ==
    /\ Runs(c, "clear")
    /\ at' = [at EXCEPT ![c] = IF cached = NoValue THEN "over" ELSE "clearing"]
    /\ UNCHANGED <<source, cached, expires, method, computed, cacheFaults>>

DeleteKeys(c) ==
    /\ at[c] = "clearing"
    /\ cached' = NoValue /\ expires' = FALSE
    /\ Over(c)
    /\ UNCHANGED <<source, method, computed, cacheFaults>>

\* the connection breaks, or the factory throws: the call goes no further
CallThrows(c) ==
    /\ at[c] \in {"called", "computing", "computed", "expiring", "clearing"}
    /\ cacheFaults < MaxCacheFaults /\ cacheFaults' = cacheFaults + 1
    /\ Over(c)
    /\ UNCHANGED <<source, cached, expires, method, computed>>

\* Redis: the time to live runs out
Lapse ==
    /\ expires /\ cached' = NoValue /\ expires' = FALSE
    /\ UNCHANGED <<source, method, at, computed, cacheFaults>>

SourceChanges ==
    /\ source < MaxVersion /\ source' = source + 1
    /\ UNCHANGED <<cached, expires, method, at, computed, cacheFaults>>

\* the next command of c
CacheStep(c) ==
    \/ SetValue(c) \/ GetValue(c) \/ DeleteValue(c)
    \/ Look(c) \/ Compute(c) \/ Store(c)
    \/ Increment(c) \/ SetTtl(c)
    \/ FindKeys(c) \/ DeleteKeys(c)

CacheNext ==
    \/ \E c \in CacheCalls :
           \/ \E m \in Methods : CallCache(c, m)
           \/ CacheStep(c) \/ CallThrows(c)
    \/ Lapse \/ SourceChanges

-----------------------------------------------------------------------------
CacheTypeOK ==
    /\ source \in 0 .. MaxVersion
    /\ cached \in (0 .. MaxVersion) \cup {NoValue}
    /\ expires \in BOOLEAN
    /\ method \in [CacheCalls -> Methods \cup {"none"}]
    /\ at \in [CacheCalls -> {"idle", "called", "computing", "computed",
                              "expiring", "clearing", "over"}]
    /\ computed \in [CacheCalls -> (0 .. MaxVersion) \cup {NoValue}]
    /\ cacheFaults \in 0 .. MaxCacheFaults

\* A getOrSet that has computed before a change stores its value after the
\* delete that announced it, so that the cache may show the past; but as
\* every call gives a ttl, and unless one was cut short, whatever the calls
\* put there and in whatever order lapses.  DistributedCache.getOrSet,
\* increment.
EverythingLapses == []<>(cached = NoValue \/ cacheFaults > 0)
=============================================================================
