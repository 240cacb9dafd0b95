---------------------------- MODULE StateManager ----------------------------
(***************************************************************************)
(* StateManager: values in Redis shared by several instances, each with a  *)
(* cache of the keys it watches, a poll every second and change events.    *)
(* Keys do not touch one another: the module has one.                      *)
(*                                                                         *)
(* A call runs up to its Redis command; Redis executes the command in one  *)
(* step; the replies to an instance come back in order, and the rest of    *)
(* the call runs then.  watch and the poll await get, so that their own    *)
(* code runs one microtask after get's: the code after another reply may   *)
(* run in between.  When a connection breaks, the client library sends the *)
(* commands it has no reply to once more, or rejects them.                 *)
(*                                                                         *)
(* has, mget and getAllKeys change nothing.  oldValue is left out of the   *)
(* events.  A poll is not started while the last one is under way.         *)
(***************************************************************************)
EXTENDS Integers, Sequences

CONSTANTS
    Instances,       \* StateManager instances; also the thread of their polls
    MaxOperations,   \* bound on the calls of the public methods
    Asks,            \* what a call may be
    None,            \* null: no such key
    Undefined,       \* no such cache entry
    Nowhere,         \* "on no instance yet"
    Existing,        \* what may be stored at the start
    Early,           \* instances that have completed a watch at the start
    MaxStateFaults   \* bound on lost connections

Kinds == {"get", "set", "delete", "mset", "increment", "compareAndSet",
          "clear", "watch", "unwatch", "close"}

\* A method and its arguments; decrement is an increment by a negative value
Question == [kind : Kinds, expected : Int, value : Int, ttl : BOOLEAN]

Operations == 1 .. MaxOperations

\* Whoever may wait for a reply: a call, or the poll of an instance
Threads == Operations \cup Instances

ASSUME StateAssumption ==
    /\ MaxOperations \in Nat
    /\ Instances \cap Nat = {}
    /\ None \notin Int
    /\ Undefined \notin Int \cup {None}
    /\ Nowhere \notin Instances
    /\ Existing \subseteq Int \cup {None}
    /\ Early \subseteq Instances
    /\ Asks \subseteq Question
    /\ MaxStateFaults \in Nat

VARIABLES
    store,       \* the value under the key
    volatile,    \* the key has a time to live
    watched,     \* instances that watch the key and poll it
    open,        \* instances that have not been closed
    cache,       \* the stateCache entry of each instance
    heard,       \* the value the listeners of each instance were last told
    ask,         \* what each thread is doing
    on,          \* the instance of each thread
    stage,       \* where each thread stands
    got,         \* what Redis answered it
    arriving,    \* the threads whose replies are on their way, per instance
    stateFaults  \* lost connections so far

stateVars == <<store, volatile, watched, open, cache, heard, ask, on, stage,
               got, arriving, stateFaults>>

client == <<watched, open, cache, heard>>

\* sent: Redis is to execute the command; answered: the reply is on its way;
\* resumed: the inner get has run, watch or the poll is to go on
Stages == {"idle", "sent", "answered", "resumed", "done"}

\* what a thread does before and after its call; a poll needs no arguments
Nothing == [kind |-> "none", expected |-> 0, value |-> 0, ttl |-> FALSE]

-----------------------------------------------------------------------------
(* Mutations: plausible bugs in the definitions below; StateNext uses none. *)

\* get caches null too, before it returns it
BugCached(t) == TRUE

\* the poll announces a change and forgets to cache it
BugCompare(i) ==
    /\ stage[i] = "resumed"
    /\ heard' = IF got[i] # cache[i] THEN [heard EXCEPT ![i] = got[i]] ELSE heard
    /\ stage' = [stage EXCEPT ![i] = "idle"]
    /\ got' = [got EXCEPT ![i] = None]
    /\ UNCHANGED <<store, volatile, watched, open, cache, ask, on, arriving,
                   stateFaults>>

-----------------------------------------------------------------------------
Kind(t) == IF t \in Instances THEN "poll" ELSE ask[t].kind

\* where a thread goes when it ends
Over(t) == IF t \in Instances THEN "idle" ELSE "done"

\* the instance of a thread that does nothing
Home(t) == IF t \in Instances THEN t ELSE Nowhere

Watching(t) == on[t] \in watched

\* Redis executes the command of t and answers v
Execute(t, v) ==
    /\ stage[t] = "sent"
    /\ got' = [got EXCEPT ![t] = v]
    /\ stage' = [stage EXCEPT ![t] = "answered"]
    /\ arriving' = [arriving EXCEPT ![on[t]] = Append(@, t)]
    /\ UNCHANGED <<client, ask, on, stateFaults>>

\* t's reply is the next one its instance reads
NextReply(t) ==
    /\ stage[t] = "answered"
    /\ arriving[on[t]] # <<>>
    /\ Head(arriving[on[t]]) = t
    /\ arriving' = [arriving EXCEPT ![on[t]] = Tail(@)]
    /\ UNCHANGED <<store, volatile, watched, open, stateFaults>>

\* t is over: a call returns, a poll may be started again
Leaves(t) ==
    /\ stage' = [stage EXCEPT ![t] = Over(t)]
    /\ on' = [on EXCEPT ![t] = Home(t)]
    /\ ask' = [ask EXCEPT ![t] = Nothing]
    /\ got' = [got EXCEPT ![t] = None]

SetCache(t, v) == cache' = [cache EXCEPT ![on[t]] = v]

\* emit('change'): the listeners of t's instance are told v
Announce(t, v) == heard' = [heard EXCEPT ![on[t]] = v]

StateInit ==
    /\ store \in Existing
    /\ volatile = FALSE
    /\ watched = Early
    /\ open = Instances
    /\ cache = [i \in Instances |-> IF i \in Early THEN store ELSE Undefined]
    /\ heard = cache
    /\ ask = [t \in Threads |-> Nothing]
    /\ on = [t \in Threads |-> Home(t)]
    /\ stage = [t \in Threads |-> "idle"]
    /\ got = [t \in Threads |-> None]
    /\ arriving = [i \in Instances |-> <<>>]
    /\ stateFaults = 0

-----------------------------------------------------------------------------
(* Calls.                                                                  *)

\* call o is made on i; calls are numbered in the order they are made
MayAsk(o, i) ==
    /\ stage[o] = "idle"
    /\ \A before \in 1 .. o - 1 : stage[before] # "idle"
    /\ i \in open

\* every method up to its command
Ask(o, i, q) ==
    /\ MayAsk(o, i)
    /\ q.kind \notin {"unwatch", "close"}
    /\ q.kind = "watch" => i \notin watched
    /\ ask' = [ask EXCEPT ![o] = q]
    /\ on' = [on EXCEPT ![o] = i]
    /\ stage' = [stage EXCEPT ![o] = "sent"]
    /\ UNCHANGED <<store, volatile, client, got, arriving, stateFaults>>

\* watch of a watched key returns at once
WatchAgain(o, i, q) ==
    /\ MayAsk(o, i)
    /\ q.kind = "watch"
    /\ i \in watched
    /\ stage' = [stage EXCEPT ![o] = "done"]
    /\ UNCHANGED <<store, volatile, client, ask, on, got, arriving, stateFaults>>

\* unwatch: the entry goes, and the poll with the last watched key
Unwatch(o, i, q) ==
    /\ MayAsk(o, i)
    /\ q.kind = "unwatch"
    /\ watched' = watched \ {i}
    /\ cache' = [cache EXCEPT ![i] = Undefined]
    /\ stage' = [stage EXCEPT ![o] = "done"]
    /\ UNCHANGED <<store, volatile, open, heard, ask, on, got, arriving,
                   stateFaults>>

\* close: the poll stops, replies under way still come, later calls reject
Close(o, i, q) ==
    /\ MayAsk(o, i)
    /\ q.kind = "close"
    /\ open' = open \ {i}
    /\ stage' = [stage EXCEPT ![o] = "done"]
    /\ UNCHANGED <<store, volatile, watched, cache, heard, ask, on, got,
                   arriving, stateFaults>>

\* the interval of startPolling
StartPoll(i) ==
    /\ i \in watched \cap open
    /\ stage[i] = "idle"
    /\ stage' = [stage EXCEPT ![i] = "sent"]
    /\ UNCHANGED <<store, volatile, client, ask, on, got, arriving, stateFaults>>

-----------------------------------------------------------------------------
(* Redis.                                                                  *)

\* GET, or the KEYS of clear
Read(t) ==
    /\ Kind(t) \in {"get", "watch", "poll", "clear"}
    /\ Execute(t, store)
    /\ UNCHANGED <<store, volatile>>

\* SET and SETEX, in set and in the pipeline of mset
Write(t) ==
    /\ Kind(t) \in {"set", "mset"}
    /\ Execute(t, store)
    /\ store' = ask[t].value
    /\ volatile' = ask[t].ttl

\* DEL, in delete and in clear
Remove(t) ==
    /\ Kind(t) \in {"delete", "clearing"}
    /\ Execute(t, store)
    /\ store' = None
    /\ volatile' = FALSE

\* INCRBY: a missing key counts as 0, a time to live stays
Add(t) ==
    /\ Kind(t) = "increment"
    /\ store' = (IF store = None THEN 0 ELSE store) + ask[t].value
    /\ Execute(t, store')
    /\ UNCHANGED volatile

\* the script of compareAndSet: its SET drops a time to live; it answers 1
\* or 0
Swap(t) ==
    /\ Kind(t) = "compareAndSet"
    /\ IF store = ask[t].expected
       THEN store' = ask[t].value /\ volatile' = FALSE /\ Execute(t, 1)
       ELSE UNCHANGED <<store, volatile>> /\ Execute(t, 0)

Expire ==
    /\ volatile
    /\ store' = None
    /\ volatile' = FALSE
    /\ UNCHANGED <<client, ask, on, stage, got, arriving, stateFaults>>

-----------------------------------------------------------------------------
(* After the reply.                                                        *)

\* get returns null before it reaches the cache
Cached(t) == got[t] # None

\* get caches what it read of a watched key, also inside watch and the poll
CacheRead(t) ==
    IF Watching(t) /\ Cached(t) THEN SetCache(t, got[t]) ELSE UNCHANGED cache

AfterGet(t) ==
    /\ Kind(t) = "get"
    /\ NextReply(t)
    /\ CacheRead(t)
    /\ Leaves(t)
    /\ UNCHANGED heard

AfterInnerGet(t) ==
    /\ Kind(t) \in {"watch", "poll"}
    /\ NextReply(t)
    /\ CacheRead(t)
    /\ stage' = [stage EXCEPT ![t] = "resumed"]
    /\ UNCHANGED <<heard, ask, on, got>>

\* watch: caches what was read, whatever happened since, and only then adds
\* the key; the listeners start from this value
Watch(t) ==
    /\ Kind(t) = "watch"
    /\ stage[t] = "resumed"
    /\ SetCache(t, got[t])
    /\ Announce(t, got[t])
    /\ watched' = watched \cup {on[t]}
    /\ Leaves(t)
    /\ UNCHANGED <<store, volatile, open, arriving, stateFaults>>

\* checkForChanges compares what get read with the cache get has just updated
Compare(i) ==
    /\ stage[i] = "resumed"
    /\ IF got[i] # cache[i]
       THEN SetCache(i, got[i]) /\ Announce(i, got[i])
       ELSE UNCHANGED <<cache, heard>>
    /\ Leaves(i)
    /\ UNCHANGED <<store, volatile, watched, open, arriving, stateFaults>>

AfterSet(t) ==
    /\ Kind(t) = "set"
    /\ NextReply(t)
    /\ Leaves(t)
    /\ IF Watching(t)
       THEN SetCache(t, ask[t].value) /\ Announce(t, ask[t].value)
       ELSE UNCHANGED <<cache, heard>>

AfterDelete(t) ==
    /\ Kind(t) = "delete"
    /\ NextReply(t)
    /\ Leaves(t)
    /\ IF Watching(t)
       THEN SetCache(t, Undefined) /\ Announce(t, None)
       ELSE UNCHANGED <<cache, heard>>

\* mset looks at neither the cache nor the listeners
AfterMset(t) ==
    /\ Kind(t) = "mset"
    /\ NextReply(t)
    /\ Leaves(t)
    /\ UNCHANGED <<cache, heard>>

\* increment, decrement and compareAndSet cache the new value in silence
AfterAdd(t) ==
    /\ Kind(t) = "increment"
    /\ NextReply(t)
    /\ Leaves(t)
    /\ IF Watching(t) THEN SetCache(t, got[t]) ELSE UNCHANGED cache
    /\ UNCHANGED heard

AfterSwap(t) ==
    /\ Kind(t) = "compareAndSet"
    /\ NextReply(t)
    /\ Leaves(t)
    /\ IF Watching(t) /\ got[t] = 1
       THEN SetCache(t, ask[t].value) ELSE UNCHANGED cache
    /\ UNCHANGED heard

\* clear returns at once if KEYS found nothing, and deletes otherwise
AfterKeys(t) ==
    /\ Kind(t) = "clear"
    /\ NextReply(t)
    /\ \/ got[t] = None /\ Leaves(t)
       \/ /\ got[t] # None
          /\ ask' = [ask EXCEPT ![t] = [@ EXCEPT !.kind = "clearing"]]
          /\ stage' = [stage EXCEPT ![t] = "sent"]
          /\ UNCHANGED <<on, got>>
    /\ UNCHANGED <<cache, heard>>

\* stateCache.clear()
AfterClear(t) ==
    /\ Kind(t) = "clearing"
    /\ NextReply(t)
    /\ Leaves(t)
    /\ SetCache(t, Undefined)
    /\ UNCHANGED heard

-----------------------------------------------------------------------------
StateFault == stateFaults < MaxStateFaults /\ stateFaults' = stateFaults + 1

\* replies of i are lost and their commands sent, and executed, again
StateReconnect(i) ==
    /\ StateFault
    /\ arriving[i] # <<>>
    /\ arriving' = [arriving EXCEPT ![i] = <<>>]
    /\ stage' = [t \in Threads |-> IF on[t] = i /\ stage[t] = "answered"
                                   THEN "sent" ELSE stage[t]]
    /\ UNCHANGED <<store, volatile, client, ask, on, got>>

Pending(t, i) == on[t] = i /\ stage[t] \in {"sent", "answered"}

\* i's commands are rejected, executed or not: calls throw, the poll is over
StateReject(i) ==
    /\ StateFault
    /\ \E t \in Threads : Pending(t, i)
    /\ arriving' = [arriving EXCEPT ![i] = <<>>]
    /\ stage' = [t \in Threads |-> IF Pending(t, i) THEN Over(t) ELSE stage[t]]
    /\ ask' = [t \in Threads |-> IF Pending(t, i) THEN Nothing ELSE ask[t]]
    /\ on' = [t \in Threads |-> IF Pending(t, i) THEN Home(t) ELSE on[t]]
    /\ got' = [t \in Threads |-> IF Pending(t, i) THEN None ELSE got[t]]
    /\ UNCHANGED <<store, volatile, client>>

-----------------------------------------------------------------------------
Redis(t) == Read(t) \/ Write(t) \/ Remove(t) \/ Add(t) \/ Swap(t)

Resume(t) ==
    \/ AfterGet(t) \/ AfterInnerGet(t) \/ Watch(t)
    \/ AfterSet(t) \/ AfterDelete(t) \/ AfterMset(t)
    \/ AfterAdd(t) \/ AfterSwap(t)
    \/ AfterKeys(t) \/ AfterClear(t)

Poll(i) == StartPoll(i) \/ Compare(i)

\* a thread does one thing at a time
ThreadStep(t) == Redis(t) \/ Resume(t) \/ (t \in Instances /\ Poll(t))

StateNext ==
    \/ \E o \in Operations, i \in Instances, q \in Asks :
          \/ Ask(o, i, q) \/ WatchAgain(o, i, q)
          \/ Unwatch(o, i, q) \/ Close(o, i, q)
    \/ \E t \in Threads : Redis(t) \/ Resume(t)
    \/ \E i \in Instances : Poll(i)
    \/ Expire
    \/ \E i \in Instances : StateReconnect(i) \/ StateReject(i)

\* Redis executes and answers, promises go on, the interval fires; nobody
\* need call anything and no key need expire.
StateFairness == \A t \in Threads : WF_stateVars(ThreadStep(t))

StateSpec == StateInit /\ [][StateNext]_stateVars

StateFairSpec == StateSpec /\ StateFairness

-----------------------------------------------------------------------------
(* Properties.                                                             *)

\* Type invariant: the key, the caches and the threads stay in range.
StateTypeOK ==
    /\ store \in Int \cup {None}
    /\ volatile \in BOOLEAN
    /\ watched \subseteq Instances
    /\ open \subseteq Instances
    /\ cache \in [Instances -> Int \cup {None, Undefined}]
    /\ heard \in [Instances -> Int \cup {None, Undefined}]
    /\ ask \in [Threads -> [kind : Kinds \cup {"none", "clearing"},
                            expected : Int, value : Int, ttl : BOOLEAN]]
    /\ on \in [Threads -> Instances \cup {Nowhere}]
    /\ stage \in [Threads -> Stages]
    /\ got \in [Threads -> Int \cup {None}]
    /\ arriving \in [Instances -> Seq(Threads)]
    /\ stateFaults \in 0 .. MaxStateFaults

Following(i) == i \in watched \cap open

\* The cache of a watched key comes to hold what is stored, whatever other
\* instances wrote, deleted, cleared or let expire meanwhile, and in whatever
\* order the replies of local calls and polls were worked off.
CacheFollows ==
    <>[](\A i \in Instances : Following(i) => cache[i] = store)

\* The listeners of a watched key that is gone for good hear of it.
DeletionHeard ==
    <>[](\A i \in Instances :
            Following(i) /\ store = None => heard[i] = None)

\* "Manages shared state across distributed instances with change
\* notifications": the listeners of a watched key come to know its value.
\* Refuted: get caches the new value before checkForChanges compares.
ListenersFollow ==
    <>[](\A i \in Instances : Following(i) => heard[i] = store)
=============================================================================
