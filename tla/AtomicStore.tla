---------------------------- MODULE AtomicStore ----------------------------
(***************************************************************************)
(* What "file-based storage with atomic writes" promises its callers: a     *)
(* write is applied at one instant or not at all, a refused write left no   *)
(* trace, an acknowledged one was applied.  A record is the set of writes   *)
(* that shaped it, {} while it does not exist.                             *)
(*                                                                         *)
(* `broken` says that something outside the promise has happened to the     *)
(* files; from then on anything may.                                       *)
(***************************************************************************)
EXTENDS FiniteSets

CONSTANTS Ops,   \* the writes callers may ask for, one each
          Keys   \* the records they are about

VARIABLES store,  \* the records
          asked,  \* what each write was asked to do
          state,  \* how far each write is
          broken

vars == <<store, asked, state, broken>>

Kinds == {"insert", "update", "upsert"}

States == {"idle", "pending", "applied", "acked", "refused", "dead"}

\* What write w makes of a record: an update spreads over the old fields, an
\* insert and an upsert replace the record.
Shaped(kind, old, w) == IF kind = "update" THEN old \cup {w} ELSE {w}

\* A created record has an id of its own (uuidv4).
FreshInserts(a) ==
    \A v, w \in Ops : v # w /\ a[v][1] = "insert" /\ a[w][1] # "update" =>
                     a[v][2] # a[w][2]

Init == /\ store = [k \in Keys |-> {}]
        /\ asked \in [Ops -> Kinds \X Keys]
        /\ FreshInserts(asked)
        /\ state = [w \in Ops |-> "idle"]
        /\ broken = FALSE

Ask(w) == /\ state[w] = "idle"
          /\ state' = [state EXCEPT ![w] = "pending"]
          /\ UNCHANGED <<store, asked, broken>>

Apply(w) ==
    LET kind == asked[w][1]
        k    == asked[w][2]
    IN  /\ state[w] = "pending"
        /\ kind = "update" => store[k] # {}
        /\ store' = [store EXCEPT ![k] = Shaped(kind, @, w)]
        /\ state' = [state EXCEPT ![w] = "applied"]
        /\ UNCHANGED <<asked, broken>>

Acknowledge(w) == /\ state[w] = "applied"
                  /\ state' = [state EXCEPT ![w] = "acked"]
                  /\ UNCHANGED <<store, asked, broken>>

Refuse(w) == /\ state[w] = "pending"
             /\ state' = [state EXCEPT ![w] = "refused"]
             /\ UNCHANGED <<store, asked, broken>>

\* the callers in W stop before they hear the outcome
Die(W) == /\ \A w \in W : state[w] \in {"pending", "applied"}
          /\ state' = [w \in Ops |-> IF w \in W THEN "dead" ELSE state[w]]
          /\ UNCHANGED <<store, asked, broken>>

Next == \/ \E w \in Ops : Ask(w) \/ Apply(w) \/ Acknowledge(w) \/ Refuse(w)
        \/ \E W \in SUBSET Ops : Die(W)
        \/ broken'

Spec == Init /\ [][Next]_vars
=============================================================================
