-------------------------- MODULE JsonStoreProofs --------------------------
(***************************************************************************)
(* Proofs about JsonStore, for every set of processes, writes, reads and    *)
(* records and every number of lock attempts: the lock file excludes, no    *)
(* acknowledged write is lost, and the driver implements AtomicStore - all  *)
(* of it until the lock is removed under its holder, a write is cut short   *)
(* or a starting process wipes a file in use, which is what `tampered`      *)
(* records.                                                                *)
(*                                                                         *)
(* The invariant that carries the rest: a write in its critical section has *)
(* the lock file and is alone there, so what it read is still what the last *)
(* complete write left, and the file is cut short only by the write that is *)
(* filling it.                                                             *)
(***************************************************************************)
EXTENDS JsonStore, TLAPS

\* A write still trying for the lock has tries left.
TryInv == \A w \in Ops : pc[w] \in {"idle", "trying"} => attempts[w] < MaxAttempts

TypeInv == TypeOK /\ TryInv

HolderInv == \A w \in Ops : pc[w] \in Critical => lockFile

SnapInv ==
    \A w \in Ops : pc[w] \in {"loaded", "writing"} =>
        /\ snap[w] = file
        /\ asked[w][1] = "update" => file[asked[w][2]] # {}

TornInv == torn => \E w \in Ops : pc[w] = "writing"

\* A record exists because a create or an upsert made it.
MadeInv ==
    \A k \in Keys : file[k] # {} =>
        \E w \in file[k] : asked[w][1] # "update" /\ asked[w][2] = k

\* A write that reached the file is in its record, or was replaced there.
Marked(w) == \/ w \in file[asked[w][2]]
             \/ \E v \in Ops \ {w} : v \in file[asked[w][2]]
                                     /\ asked[v][1] = "upsert"

MarkInv == \A w \in Ops : pc[w] \in {"written", "done"} => Marked(w)

\* A write that is still on its way has left no mark.
UnmarkedInv ==
    \A w \in Ops : pc[w] \in {"idle", "trying", "locked", "loaded", "writing"} =>
        \A k \in Keys : w \notin file[k]

Untampered == /\ HolderInv /\ MutualExclusion
              /\ SnapInv /\ TornInv /\ MadeInv /\ UnmarkedInv /\ MarkInv

IInv == /\ TypeInv
        /\ FreshInserts(asked)
        /\ ~tampered => Untampered

-----------------------------------------------------------------------------
\* Every step of the driver keeps its variables in their types.
LEMMA TypeStep == TypeInv /\ [Next]_vars => TypeInv'
<1> SUFFICES ASSUME TypeInv, [Next]_vars PROVE TypeInv'
    OBVIOUS
<1> USE JsonAssumption DEF TypeInv, TryInv, TypeOK, Collection, NoRecords, PCs,
                           Kinds, Openings, opened, Goto, Fault
<1>1. ASSUME NEW w \in Ops, Ask(w) PROVE TypeInv'
    BY <1>1 DEF Ask
<1>2. ASSUME NEW w \in Ops, Step(w) PROVE TypeInv'
    <2>1. CASE Lock(w)
        BY <2>1 DEF Lock
    <2>2. CASE LockTaken(w)
        BY <2>2 DEF LockTaken
    <2>3. CASE Load(w)
        BY <2>3 DEF Load, Parsed
    <2>4. CASE Truncate(w)
        BY <2>4 DEF Truncate
    <2>5. CASE Fill(w)
        <3>1. Changed(snap[w], w) \in Collection
            BY DEF Changed
        <3> QED BY <2>5, <3>1 DEF Fill
    <2>6. CASE FillFails(w)
        BY <2>6 DEF FillFails
    <2>7. CASE Unlock(w)
        BY <2>7 DEF Unlock
    <2> QED BY <1>2, <2>1, <2>2, <2>3, <2>4, <2>5, <2>6, <2>7 DEF Step
<1>3. ASSUME NEW r \in Readers, NEW k \in Keys, Read(r, k) PROVE TypeInv'
    BY <1>3 DEF Read
<1>4. ASSUME NEW p \in Procs, Disconnect(p) PROVE TypeInv'
    <2>1. tampered' \in BOOLEAN
        BY <1>4, Zenon DEF Disconnect
    <2>2. /\ lockFile' = FALSE /\ faults' \in 0 .. MaxFaults
          /\ UNCHANGED <<file, torn, asked, pc, attempts, snap, seen, exists,
                         opening>>
        BY <1>4 DEF Disconnect
    <2> QED BY <2>1, <2>2
<1>5. ASSUME NEW p \in Procs, Crash(p) PROVE TypeInv'
    BY <1>5 DEF Crash, Critical
<1>6. CASE UNCHANGED vars
    BY <1>6 DEF vars
<1>7. ASSUME NEW p \in Procs, Look(p) PROVE TypeInv'
    BY <1>7 DEF Look
<1>8. ASSUME NEW p \in Procs, Create(p) PROVE TypeInv'
    <2>1. tampered' \in BOOLEAN /\ exists' \in BOOLEAN /\ torn' \in BOOLEAN
        BY <1>8, Zenon DEF Create
    <2>2. /\ file' \in Collection /\ opening' \in [Procs -> Openings]
          /\ UNCHANGED <<lockFile, asked, pc, attempts, snap, seen, faults>>
        BY <1>8 DEF Create
    <2> QED BY <2>1, <2>2
<1> QED BY <1>1, <1>2, <1>3, <1>4, <1>5, <1>6, <1>7, <1>8 DEF Next

\* Tampering is never forgotten.
LEMMA TamperedStep ==
    TypeOK /\ [Next]_vars /\ ~tampered' => ~tampered
BY DEF Next, Ask, Step, Lock, LockTaken, Load, Truncate, Fill, FillFails,
       Unlock, Read, Disconnect, Crash, Look, Create, vars, TypeOK

\* Steps that leave the collection and the asked writes alone, and move no
\* write into the part of its life that an invariant speaks of.
LEMMA QuietStep ==
    ASSUME Untampered, TypeOK, ~tampered,
           UNCHANGED <<file, torn, asked, snap>>,
           lockFile => lockFile',
           \A w \in Ops : \/ pc'[w] = pc[w]
                          \/ pc'[w] \in {"trying", "failed"}
                             /\ pc[w] \in {"idle", "trying"}
    PROVE  Untampered'
<1> USE DEF Untampered, TypeOK
<1>1. HolderInv' /\ MutualExclusion'
    BY DEF HolderInv, MutualExclusion, Critical
<1>2. SnapInv' /\ TornInv'
    BY DEF SnapInv, TornInv
<1>3. MadeInv' /\ UnmarkedInv'
    BY DEF MadeInv, UnmarkedInv
<1>4. MarkInv'
    BY DEF MarkInv, Marked
<1> QED BY <1>1, <1>2, <1>3, <1>4

\* A write alone in its critical section: what its own step does to the rest.
LEMMA CriticalStep ==
    ASSUME Untampered, TypeInv, FreshInserts(asked), ~tampered, ~tampered',
           NEW w \in Ops, Step(w)
    PROVE  Untampered'
<1> USE DEF Untampered, TypeInv, TypeOK, Goto
<1>0. ASSUME pc[w] \in Critical, NEW v \in Ops, v # w
      PROVE  pc[v] \notin Critical
    BY <1>0 DEF MutualExclusion
<1>1. CASE Lock(w)
    <2> USE <1>1 DEF Lock
    <2>1. \A v \in Ops : pc[v] \notin Critical
        BY DEF HolderInv
    <2>2. HolderInv' /\ MutualExclusion'
        BY <2>1 DEF HolderInv, MutualExclusion, Critical
    <2>3. SnapInv' /\ TornInv'
        BY DEF SnapInv, TornInv
    <2>4. MadeInv' /\ UnmarkedInv' /\ MarkInv'
        BY DEF MadeInv, UnmarkedInv, MarkInv, Marked
    <2> QED BY <2>2, <2>3, <2>4
<1>2. CASE LockTaken(w)
    BY <1>2, QuietStep DEF LockTaken
<1>3. CASE Load(w)
    <2> USE <1>3 DEF Load
    <2>1. ~torn
        BY <1>0 DEF TornInv, Critical
    <2>2. HolderInv' /\ MutualExclusion'
        BY <1>0 DEF HolderInv, MutualExclusion, Critical
    <2>3. SnapInv'
        BY <2>1 DEF SnapInv, Parsed
    <2>4. TornInv'
        BY <2>1 DEF TornInv
    <2>5. MadeInv' /\ UnmarkedInv' /\ MarkInv'
        BY DEF MadeInv, UnmarkedInv, MarkInv, Marked
    <2> QED BY <2>2, <2>3, <2>4, <2>5
<1>4. CASE Truncate(w)
    <2> USE <1>4 DEF Truncate
    <2>1. HolderInv' /\ MutualExclusion'
        BY <1>0 DEF HolderInv, MutualExclusion, Critical
    <2>2. SnapInv' /\ TornInv'
        BY DEF SnapInv, TornInv
    <2>3. MadeInv' /\ UnmarkedInv' /\ MarkInv'
        BY DEF MadeInv, UnmarkedInv, MarkInv, Marked
    <2> QED BY <2>1, <2>2, <2>3
<1>5. CASE Fill(w)
    <2> DEFINE k == asked[w][2]
    <2> USE <1>5 DEF Fill
    <2>1. k \in Keys /\ asked[w][1] \in Kinds /\ file \in [Keys -> SUBSET Ops]
        BY DEF Kinds, Collection
    <2>2. file' = [file EXCEPT ![k] = IF asked[w][1] = "update"
                                      THEN @ \cup {w} ELSE {w}]
        BY DEF SnapInv, Changed
    <2>3. HolderInv' /\ MutualExclusion'
        BY <1>0 DEF HolderInv, MutualExclusion, Critical
    <2>4. SnapInv' /\ TornInv'
        BY <1>0 DEF SnapInv, TornInv, Critical
    <2>5. MadeInv'
        <3> SUFFICES ASSUME NEW j \in Keys, file'[j] # {}
                     PROVE  \E v \in file'[j] : asked[v][1] # "update"
                                                /\ asked[v][2] = j
            BY DEF MadeInv
        <3>1. CASE j # k
            BY <2>1, <2>2, <3>1 DEF MadeInv
        <3>2. CASE j = k /\ asked[w][1] = "update"
            <4>1. file[k] # {}
                BY <3>2 DEF SnapInv
            <4> QED BY <2>1, <2>2, <3>2, <4>1 DEF MadeInv
        <3>3. CASE j = k /\ asked[w][1] # "update"
            BY <2>1, <2>2, <3>3
        <3> QED BY <3>1, <3>2, <3>3
    <2>6. UnmarkedInv'
        <3> SUFFICES ASSUME NEW v \in Ops, NEW j \in Keys,
                            pc'[v] \in {"idle", "trying", "locked", "loaded",
                                        "writing"}
                     PROVE  v \notin file'[j]
            BY DEF UnmarkedInv
        <3>1. v # w /\ pc'[v] = pc[v]
            OBVIOUS
        <3> QED BY <2>1, <2>2, <3>1 DEF UnmarkedInv
    <2>7. MarkInv'
        <3> SUFFICES ASSUME NEW v \in Ops, pc'[v] \in {"written", "done"}
                     PROVE  Marked(v)'
            BY DEF MarkInv
        <3>1. CASE v = w
            BY <2>1, <2>2, <3>1 DEF Marked
        <3>2. CASE v # w
            <4>1. Marked(v) /\ asked[v][2] \in Keys
                BY <3>2 DEF MarkInv
            <4>2. CASE asked[v][2] # k
                BY <2>1, <2>2, <4>1, <4>2 DEF Marked
            <4>3. CASE asked[v][2] = k /\ asked[w][1] = "update"
                BY <2>1, <2>2, <4>1, <4>3 DEF Marked
            <4>4. CASE asked[v][2] = k /\ asked[w][1] = "upsert"
                BY <2>1, <2>2, <3>2, <4>1, <4>4 DEF Marked
            <4>5. CASE asked[v][2] = k /\ asked[w][1] = "insert"
                <5>1. file[k] # {}
                    BY <4>1, <4>5 DEF Marked
                <5>2. PICK u \in file[k] : asked[u][1] # "update"
                                           /\ asked[u][2] = k
                    BY <2>1, <5>1 DEF MadeInv
                <5>3. u \in Ops
                    BY <2>1
                <5>4. u # w
                    BY <2>1 DEF UnmarkedInv
                <5> QED BY <4>5, <5>2, <5>3, <5>4 DEF FreshInserts
            <4> QED BY <2>1, <4>2, <4>3, <4>4, <4>5 DEF Kinds
        <3> QED BY <3>1, <3>2
    <2> QED BY <2>3, <2>4, <2>5, <2>6, <2>7
<1>6. CASE FillFails(w)
    BY <1>6 DEF FillFails
<1>7. CASE Unlock(w)
    <2> USE <1>7 DEF Unlock
    <2>1. HolderInv' /\ MutualExclusion'
        BY <1>0 DEF HolderInv, MutualExclusion, Critical
    <2>2. SnapInv' /\ TornInv'
        BY DEF SnapInv, TornInv
    <2>3. MadeInv' /\ UnmarkedInv'
        BY DEF MadeInv, UnmarkedInv
    <2>4. MarkInv'
        BY DEF MarkInv, Marked
    <2> QED BY <2>1, <2>2, <2>3, <2>4
<1> QED BY <1>1, <1>2, <1>3, <1>4, <1>5, <1>6, <1>7 DEF Step

\* The invariant of the untampered store, step by step.
LEMMA InvStep == IInv /\ [Next]_vars => IInv'
<1> SUFFICES ASSUME IInv, [Next]_vars PROVE IInv'
    OBVIOUS
<1> USE DEF IInv
<1>1. TypeInv'
    BY TypeStep
<1>2. asked' = asked
    BY DEF Next, Ask, Step, Lock, LockTaken, Load, Truncate, Fill, FillFails,
           Unlock, Read, Disconnect, Crash, Look, Create, vars
<1>3. ASSUME ~tampered' PROVE Untampered'
    <2>1. ~tampered /\ Untampered /\ TypeOK
        BY <1>3, TamperedStep DEF TypeInv
    <2>2. ASSUME NEW w \in Ops, Ask(w) PROVE Untampered'
        BY <2>1, <2>2, QuietStep DEF Ask, Goto, TypeOK
    <2>3. ASSUME NEW w \in Ops, Step(w) PROVE Untampered'
        BY <1>3, <2>1, <2>3, CriticalStep
    <2>4. ASSUME NEW r \in Readers, NEW k \in Keys, Read(r, k)
          PROVE  Untampered'
        BY <2>1, <2>4, QuietStep DEF Read
    <2>5. ASSUME NEW p \in Procs, Disconnect(p) PROVE Untampered'
        <3> USE <2>5 DEF Disconnect
        <3>1. \A w \in Ops : pc[w] \notin Critical
            BY <1>3
        <3>2. HolderInv' /\ MutualExclusion'
            BY <3>1 DEF HolderInv, MutualExclusion
        <3>3. SnapInv' /\ TornInv' /\ MadeInv' /\ UnmarkedInv' /\ MarkInv'
            BY <2>1 DEF Untampered, SnapInv, TornInv, MadeInv, UnmarkedInv,
                        MarkInv, Marked
        <3> QED BY <3>2, <3>3 DEF Untampered
    <2>6. ASSUME NEW p \in Procs, Crash(p) PROVE Untampered'
        <3> USE <2>1, <2>6 DEF Crash, Untampered, TypeOK
        <3>1. \A w \in Ops : pc'[w] = pc[w] \/ pc'[w] = "dead"
            OBVIOUS
        <3>2. \A w \in Ops : pc[w] = "writing" => pc'[w] = "writing"
            BY <1>3
        <3>3. HolderInv' /\ MutualExclusion'
            BY <3>1 DEF HolderInv, MutualExclusion, Critical
        <3>4. SnapInv' /\ TornInv'
            BY <3>1, <3>2 DEF SnapInv, TornInv
        <3>5. MadeInv' /\ UnmarkedInv' /\ MarkInv'
            BY <3>1 DEF MadeInv, UnmarkedInv, MarkInv, Marked
        <3> QED BY <3>3, <3>4, <3>5
    <2>7. CASE UNCHANGED vars
        BY <2>1, <2>7, QuietStep DEF vars
    <2>8. ASSUME NEW p \in Procs, Look(p) PROVE Untampered'
        BY <2>1, <2>8, QuietStep DEF Look
    <2>9. ASSUME NEW p \in Procs, Create(p) PROVE Untampered'
        <3>1. file' = file /\ ~torn
            BY <1>3, <2>1, <2>9 DEF Create, Untampered, TornInv, Critical
        <3>2. UNCHANGED <<torn, asked, snap, lockFile, pc>>
            BY <2>1, <2>9, <3>1 DEF Create, TypeOK
        <3> QED BY <2>1, <3>1, <3>2, QuietStep
    <2> QED BY <2>2, <2>3, <2>4, <2>5, <2>6, <2>7, <2>8, <2>9 DEF Next
<1> QED BY <1>1, <1>2, <1>3 DEF FreshInserts

\* IInv is an invariant of the driver.
THEOREM Invariance == Spec => []IInv
<1>1. Init => IInv
    <2> SUFFICES ASSUME Init PROVE IInv
        OBVIOUS
    <2> USE JsonAssumption DEF Init
    <2>0. NoRecords \in Collection
        BY DEF NoRecords, Collection
    <2>1. TypeInv
        <3>1. file \in Collection /\ snap \in [Ops -> Collection]
            BY <2>0
        <3>2. pc \in [Ops -> PCs] /\ asked \in [Ops -> Kinds \X Keys]
            BY DEF PCs
        <3>3. attempts \in [Ops -> 0 .. MaxAttempts] /\ faults \in 0 .. MaxFaults
            OBVIOUS
        <3>4. seen \in [Readers -> {"unread", "hit", "miss"}]
            OBVIOUS
        <3>5. /\ torn \in BOOLEAN /\ lockFile \in BOOLEAN /\ tampered \in BOOLEAN
              /\ exists \in BOOLEAN
            BY Zenon
        <3>7. opening \in [Procs -> Openings]
            BY DEF Openings
        <3>6. TryInv
            BY DEF TryInv
        <3> QED BY <3>1, <3>2, <3>3, <3>4, <3>5, <3>6, <3>7 DEF TypeInv, TypeOK
    <2>2. HolderInv /\ MutualExclusion /\ SnapInv /\ TornInv
        BY DEF HolderInv, MutualExclusion, SnapInv, TornInv, Critical
    <2>3. MadeInv /\ UnmarkedInv /\ MarkInv
        BY DEF MadeInv, UnmarkedInv, MarkInv, NoRecords
    <2> QED BY <2>1, <2>2, <2>3 DEF IInv, Untampered
<1> QED BY <1>1, InvStep, PTL DEF Spec

\* The driver's variables keep their types; the number of tries for the lock
\* never passes maxAttempts.
THEOREM TypeCorrect == Spec => []TypeOK
<1>1. IInv => TypeOK
    BY DEF IInv, TypeInv
<1> QED BY <1>1, Invariance, PTL

\* The lock file excludes: two writes, of any processes, are never both
\* between acquireLock and releaseLock, until a disconnect removes a held lock.
THEOREM LockExcludes == Spec => []MutualExclusion
<1>1. IInv => MutualExclusion
    BY DEF IInv, Untampered, MutualExclusion
<1> QED BY <1>1, Invariance, PTL

\* No acknowledged write is lost while the store is untampered with.
THEOREM NothingLost == Spec => []NoLostUpdate
<1>1. IInv => NoLostUpdate
    BY DEF IInv, Untampered, MarkInv, Marked, NoLostUpdate
<1> QED BY <1>1, Invariance, PTL

-----------------------------------------------------------------------------
(* The driver implements AtomicStore.                                      *)

\* The asked writes are the same on both sides.
LEMMA InitRefines == Init => Atomic!Init
<1> SUFFICES ASSUME Init PROVE Atomic!Init
    OBVIOUS
<1>1. [w \in Ops |-> AsState(pc[w])] = [w \in Ops |-> "idle"]
    BY DEF Init, AsState
<1> QED BY <1>1 DEF Init, NoRecords, Atomic!Init, FreshInserts,
           Atomic!FreshInserts, Kinds, Atomic!Kinds

\* Every step of the driver is a step of the atomic store or invisible to it,
\* until the store is tampered with.
LEMMA StepRefines ==
    IInv /\ [Next]_vars => [Atomic!Next]_Atomic!vars
<1> DEFINE st == [w \in Ops |-> AsState(pc[w])]
<1> SUFFICES ASSUME IInv, [Next]_vars, ~tampered'
             PROVE  Atomic!Next \/ UNCHANGED <<file, asked, st, tampered>>
    BY DEF Atomic!Next, Atomic!vars
<1>1. ~tampered /\ Untampered /\ TypeOK
    BY TamperedStep DEF IInv, TypeInv
<1> USE <1>1 DEF TypeOK, Goto, PCs
<1>2. ASSUME NEW w \in Ops, Ask(w) PROVE Atomic!Ask(w)
    BY <1>2 DEF Ask, Atomic!Ask, AsState
<1>3. ASSUME NEW w \in Ops, Step(w)
      PROVE  Atomic!Next \/ UNCHANGED <<file, asked, st, tampered>>
    <2>1. CASE Lock(w) \/ Load(w) \/ Truncate(w)
        BY <2>1 DEF Lock, Load, Truncate, AsState
    <2>2. CASE LockTaken(w)
        <3>1. CASE attempts[w] + 1 < MaxAttempts
            BY <2>2, <3>1 DEF LockTaken, AsState
        <3>2. CASE ~(attempts[w] + 1 < MaxAttempts)
            <4>1. Atomic!Refuse(w)
                BY <2>2, <3>2 DEF LockTaken, Atomic!Refuse, AsState
            <4> QED BY <4>1 DEF Atomic!Next
        <3> QED BY <3>1, <3>2
    <2>3. CASE Fill(w)
        <3>1. file' = [file EXCEPT ![asked[w][2]] =
                         Atomic!Shaped(asked[w][1], @, w)]
            BY <2>3 DEF Fill, Untampered, SnapInv, Changed, Atomic!Shaped
        <3>2. asked[w][1] = "update" => file[asked[w][2]] # {}
            BY <2>3 DEF Fill, Untampered, SnapInv
        <3>3. /\ st[w] = "pending"
              /\ st' = [st EXCEPT ![w] = "applied"]
              /\ UNCHANGED <<asked, tampered>>
            BY <2>3 DEF Fill, AsState
        <3>4. Atomic!Apply(w)
            BY <3>1, <3>2, <3>3 DEF Atomic!Apply
        <3> QED BY <3>4 DEF Atomic!Next
    <2>4. CASE FillFails(w)
        BY <2>4 DEF FillFails
    <2>5. CASE Unlock(w)
        <3>1. CASE pc[w] = "written"
            <4>1. Atomic!Acknowledge(w)
                BY <2>5, <3>1 DEF Unlock, Atomic!Acknowledge, AsState
            <4> QED BY <4>1 DEF Atomic!Next
        <3>2. CASE pc[w] = "missing"
            <4>1. Atomic!Refuse(w)
                BY <2>5, <3>2 DEF Unlock, Atomic!Refuse, AsState
            <4> QED BY <4>1 DEF Atomic!Next
        <3> QED BY <2>5, <3>1, <3>2 DEF Unlock
    <2> QED BY <1>3, <2>1, <2>2, <2>3, <2>4, <2>5 DEF Step
<1>4. ASSUME NEW r \in Readers, NEW k \in Keys, Read(r, k)
      PROVE  UNCHANGED <<file, asked, st, tampered>>
    BY <1>4 DEF Read
<1>5. ASSUME NEW p \in Procs, Disconnect(p)
      PROVE  UNCHANGED <<file, asked, st, tampered>>
    BY <1>5 DEF Disconnect
<1>6. ASSUME NEW p \in Procs, Crash(p) PROVE Atomic!Next
    <2> DEFINE W == {w \in Ops : Home[w] = p /\ pc[w] \in Critical \cup {"trying"}}
    <2>1. \A w \in W : st[w] \in {"pending", "applied"}
        BY DEF AsState, Critical
    <2>2. st' = [w \in Ops |-> IF w \in W THEN "dead" ELSE st[w]]
        BY <1>6 DEF Crash, AsState
    <2>3. UNCHANGED <<file, asked, tampered>>
        BY <1>6 DEF Crash
    <2>4. Atomic!Die(W)
        <3>1. W \subseteq Ops
            OBVIOUS
        <3>2. \A w \in W : [v \in Ops |-> AsState(pc[v])][w] \in {"pending", "applied"}
            BY <2>1
        <3>3. [v \in Ops |-> AsState(pc[v])]' =
                [w \in Ops |-> IF w \in W THEN "dead"
                              ELSE [v \in Ops |-> AsState(pc[v])][w]]
            BY <2>2
        <3> HIDE DEF W, st
        <3> QED BY <2>3, <3>2, <3>3, Zenon DEF Atomic!Die
    <2>5. W \in SUBSET Ops
        OBVIOUS
    <2> HIDE DEF W
    <2> QED BY <2>4, <2>5, Zenon DEF Atomic!Next
<1>7. CASE UNCHANGED vars
    BY <1>7 DEF vars
<1>8. ASSUME NEW p \in Procs, Look(p) \/ Create(p)
      PROVE  UNCHANGED <<file, asked, st, tampered>>
    <2>1. UNCHANGED <<asked, pc>>
        BY <1>8 DEF Look, Create
    <2>2. ~tampered'
        OBVIOUS
    <2>3. CASE Look(p)
        BY <2>1, <2>3 DEF Look
    <2>4. CASE Create(p)
        <3>1. /\ file' = NoRecords
              /\ tampered' = (tampered \/ file # NoRecords
                                       \/ \E w \in Ops : pc[w] \in Critical)
            BY <2>4 DEF Create
        <3>2. file' = file
            BY <2>2, <3>1, Zenon
        <3>3. tampered' = tampered
            <4>1. tampered' = FALSE
                BY <2>2, <3>1, Zenon
            <4>2. tampered \in BOOLEAN /\ ~tampered
                BY <1>1 DEF TypeOK
            <4> QED BY <4>1, <4>2, Zenon
        <3> QED BY <2>1, <3>2, <3>3
    <2> QED BY <1>8, <2>3, <2>4
<1> QED BY <1>2, <1>3, <1>4, <1>5, <1>6, <1>7, <1>8 DEF Next, Atomic!Next

\* The JSON driver implements atomic writes, for any number of processes and
\* writes, until the lock is removed under its holder or a write is cut short.
THEOREM DriverImplementsAtomicStore == Spec => ImplementsAtomic
<1> QED BY Invariance, InitRefines, StepRefines, PTL
        DEF Spec, ImplementsAtomic, Atomic!Spec
=============================================================================
