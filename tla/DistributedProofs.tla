-------------------------- MODULE DistributedProofs --------------------------
(***************************************************************************)
(* The lock excludes, leaves no key behind and keeps its map right, for any *)
(* number of calls, instances, retries and faults.                         *)
(*                                                                         *)
(* A granted call that is not told yet already has the key (Held).  That   *)
(* the instance still lists the holder when it comes to run rests on the   *)
(* order of replies: the SET that succeeded was executed after the DEL of  *)
(* the call before it, so that on one connection its reply comes later     *)
(* (Order); Queue says whose replies are under way.                        *)
(*                                                                         *)
(* Then the types of the state manager, whose threads stay on their        *)
(* instances (OnInv), and of the two side by side.                         *)
(***************************************************************************)
EXTENDS MCDistributed, SequenceTheorems, TLAPS

Answered == {"granted", "refused", "released", "mismatch"}

\* the key exists as long as it has time left
Lease == left > 0 => owner # Nobody

\* u was granted the lock, and its lease has not run out
Holds(u) == at[u] \in {"granted", "working"} /\ u \notin lapsed

Held == \A u \in Users : Holds(u) => owner = u

\* before the first fault, the key's owner is on its way to releasing it
Unbroken ==
    \A u \in Users : owner = u =>
        lockFaults > 0 \/ at[u] \in {"granted", "working", "releasing"}

\* the i-th reply on its way to u's instance is u's
Place(u, i) == i \in 1 .. Len(inbox[NodeOf[u]]) /\ inbox[NodeOf[u]][i] = u

Queue ==
    /\ \A u \in Users : at[u] \in Answered <=> \E i \in Nat : Place(u, i)
    /\ \A u \in Users : \A i, j \in Nat : Place(u, i) /\ Place(u, j) => i = j

\* a reply that writes the map is on its way to w
Writes(w) == at[w] \in {"granted", "released"}

Together(u, w) == u # w /\ NodeOf[u] = NodeOf[w]

\* w's reply is to be read before the grant of u
Before(w, u) ==
    at[u] = "granted" /\ \A i, j \in Nat : Place(u, i) /\ Place(w, j) => j < i

Order ==
    \A u, w \in Users :
        Together(u, w) /\ Holds(u) /\ Writes(w) => Before(w, u)

IInv == LockTypeOK /\ Lease /\ Held /\ Unbroken /\ Queue /\ Order /\ HolderIsListed

\* At the start nobody has the key or waits for an answer.
LEMMA InitIInv == LockInit => IInv
<1>. SUFFICES ASSUME LockInit PROVE IInv OBVIOUS
<1>1. LockTypeOK
  BY LockAssumption DEF LockInit, LockTypeOK, UserStates
<1>2. Lease /\ Held /\ Unbroken /\ HolderIsListed
  BY LockAssumption DEF LockInit, Lease, Held, Holds, Unbroken, HolderIsListed
<1>3. \A u \in Users, i \in Nat : ~Place(u, i)
  BY LockAssumption DEF LockInit, Place
<1>4. Queue /\ Order
  BY <1>3, LockAssumption DEF LockInit, Queue, Order, Holds, Answered
<1>. QED BY <1>1, <1>2, <1>4 DEF IInv

-----------------------------------------------------------------------------
(* The shape of the state.                                                 *)

\* Every step keeps the types, and the retries within their limit.
LEMMA TypeStep ==
    ASSUME LockTypeOK, Lease, [LockNext]_lockVars
    PROVE  LockTypeOK' /\ Lease'
<1>. USE LockAssumption
<1>1. CASE UNCHANGED lockVars
  BY <1>1 DEF lockVars, LockTypeOK, Lease
<1>2. ASSUME NEW u \in Users, Acquire(u) PROVE LockTypeOK' /\ Lease'
  BY <1>2 DEF Acquire, Goto, LockTypeOK, Lease, UserStates, InSet
<1>3. ASSUME NEW u \in Users, SetOk(u) PROVE LockTypeOK' /\ Lease'
  BY <1>3 DEF SetOk, Grant, Answer, Goto, LockTypeOK, Lease, UserStates, InSet
<1>4. ASSUME NEW u \in Users, SetNil(u) PROVE LockTypeOK' /\ Lease'
  BY <1>4 DEF SetNil, Answer, Goto, LockTypeOK, Lease, UserStates, InSet
<1>5. ASSUME NEW u \in Users, Acquired(u) PROVE LockTypeOK' /\ Lease'
  BY <1>5 DEF Acquired, Reads, Goto, LockTypeOK, Lease, UserStates
<1>6. ASSUME NEW u \in Users, Retry(u) PROVE LockTypeOK' /\ Lease'
  BY <1>6 DEF Retry, Reads, Goto, LockTypeOK, Lease, UserStates, InSet
<1>7. ASSUME NEW u \in Users, GiveUp(u) PROVE LockTypeOK' /\ Lease'
  BY <1>7 DEF GiveUp, Reads, Goto, LockTypeOK, Lease, UserStates, Ended
<1>8. ASSUME NEW u \in Users, NEW ttl \in Extensions, Extend(u, ttl)
      PROVE  LockTypeOK' /\ Lease'
  BY <1>8 DEF Extend, LockTypeOK, Lease
<1>9. ASSUME NEW u \in Users, Finish(u) PROVE LockTypeOK' /\ Lease'
  BY <1>9 DEF Finish, Goto, LockTypeOK, Lease, UserStates, InEval
<1>10. ASSUME NEW u \in Users, DelKey(u) PROVE LockTypeOK' /\ Lease'
  BY <1>10 DEF DelKey, Answer, Goto, LockTypeOK, Lease, UserStates, InEval
<1>11. ASSUME NEW u \in Users, KeepKey(u) PROVE LockTypeOK' /\ Lease'
  BY <1>11 DEF KeepKey, Answer, Goto, LockTypeOK, Lease, UserStates, InEval
<1>12. ASSUME NEW u \in Users, Released(u) PROVE LockTypeOK' /\ Lease'
  BY <1>12 DEF Released, Reads, Goto, LockTypeOK, Lease, UserStates, Ended
<1>13. ASSUME NEW u \in Users, NotReleased(u) PROVE LockTypeOK' /\ Lease'
  BY <1>13 DEF NotReleased, Reads, Goto, LockTypeOK, Lease, UserStates, Ended
<1>14. CASE Tick
  BY <1>14 DEF Tick, LockTypeOK, Lease
<1>15. ASSUME NEW n \in Nodes, LockReconnect(n) PROVE LockTypeOK' /\ Lease'
  BY <1>15 DEF LockReconnect, LockFault, LockTypeOK, Lease, UserStates, InSet, InEval
<1>16. ASSUME NEW n \in Nodes, LockReject(n) PROVE LockTypeOK' /\ Lease'
  BY <1>16 DEF LockReject, LockFault, LockTypeOK, Lease, UserStates, InSet, InEval,
    Ended
<1>17. ASSUME NEW n \in Nodes, LockCrash(n) PROVE LockTypeOK' /\ Lease'
  BY <1>17 DEF LockCrash, LockFault, LockTypeOK, Lease, UserStates, Ended
<1>. QED
  BY <1>1, <1>2, <1>3, <1>4, <1>5, <1>6, <1>7, <1>8, <1>9, <1>10, <1>11, <1>12,
    <1>13, <1>14, <1>15, <1>16, <1>17 DEF LockNext, UserStep

-----------------------------------------------------------------------------
(* The key and its holder.                                                 *)

\* only Grant gives the key to a call, and only to one whose grant it is
LEMMA HeldStep ==
    ASSUME LockTypeOK, Held, [LockNext]_lockVars
    PROVE  Held'
<1>. USE LockAssumption DEF LockTypeOK, Held, Holds
<1>1. CASE UNCHANGED lockVars
  BY <1>1 DEF lockVars
<1>2. ASSUME NEW u \in Users, Acquire(u) \/ SetNil(u) \/ Finish(u) PROVE Held'
  BY <1>2 DEF Acquire, SetNil, Finish, Answer, Goto
<1>3. ASSUME NEW u \in Users, SetOk(u) PROVE Held'
  BY <1>3 DEF SetOk, Grant, Answer, Goto
<1>4. ASSUME NEW u \in Users, Acquired(u) PROVE Held'
  BY <1>4 DEF Acquired, Goto
<1>5. ASSUME NEW u \in Users, Retry(u) \/ GiveUp(u) PROVE Held'
  BY <1>5 DEF Retry, GiveUp, Goto
<1>6. ASSUME NEW u \in Users, NEW ttl \in Extensions, Extend(u, ttl) PROVE Held'
  BY <1>6 DEF Extend
<1>7. ASSUME NEW u \in Users, DelKey(u) PROVE Held'
  BY <1>7 DEF DelKey, MayDelete, Answer, Goto
<1>8. ASSUME NEW u \in Users, KeepKey(u) PROVE Held'
  BY <1>8 DEF KeepKey, Answer, Goto
<1>9. ASSUME NEW u \in Users, Released(u) \/ NotReleased(u) PROVE Held'
  BY <1>9 DEF Released, NotReleased, Goto
<1>10. CASE Tick
  BY <1>10 DEF Tick
<1>11. ASSUME NEW n \in Nodes, LockReconnect(n) PROVE Held'
  BY <1>11 DEF LockReconnect, InSet, InEval
<1>12. ASSUME NEW n \in Nodes, LockReject(n) PROVE Held'
  BY <1>12 DEF LockReject, InSet, InEval
<1>13. ASSUME NEW n \in Nodes, LockCrash(n) PROVE Held'
  BY <1>13 DEF LockCrash, Ended
<1>. QED
  BY <1>1, <1>2, <1>3, <1>4, <1>5, <1>6, <1>7, <1>8, <1>9, <1>10, <1>11, <1>12,
    <1>13 DEF LockNext, UserStep

\* Every step keeps what only a fault may end.
LEMMA UnbrokenStep ==
    ASSUME LockTypeOK, Unbroken, [LockNext]_lockVars
    PROVE  Unbroken'
<1>. USE LockAssumption DEF LockTypeOK, Unbroken
<1>1. CASE UNCHANGED lockVars
  BY <1>1 DEF lockVars
<1>2. ASSUME NEW u \in Users, Acquire(u) \/ SetNil(u) \/ Finish(u) PROVE Unbroken'
  BY <1>2 DEF Acquire, SetNil, Finish, Answer, Goto
<1>3. ASSUME NEW u \in Users, SetOk(u) PROVE Unbroken'
  BY <1>3 DEF SetOk, Grant, Answer, Goto
<1>4. ASSUME NEW u \in Users, Acquired(u) PROVE Unbroken'
  BY <1>4 DEF Acquired, Goto
<1>5. ASSUME NEW u \in Users, Retry(u) \/ GiveUp(u) PROVE Unbroken'
  BY <1>5 DEF Retry, GiveUp, Goto
<1>6. ASSUME NEW u \in Users, NEW ttl \in Extensions, Extend(u, ttl)
      PROVE  Unbroken'
  BY <1>6 DEF Extend
<1>7. ASSUME NEW u \in Users, DelKey(u) PROVE Unbroken'
  BY <1>7 DEF DelKey, Answer, Goto
<1>8. ASSUME NEW u \in Users, KeepKey(u) PROVE Unbroken'
  BY <1>8 DEF KeepKey, MayDelete, Answer, Goto
<1>9. ASSUME NEW u \in Users, Released(u) \/ NotReleased(u) PROVE Unbroken'
  BY <1>9 DEF Released, NotReleased, Goto
<1>10. CASE Tick
  BY <1>10 DEF Tick
<1>11. ASSUME NEW n \in Nodes, LockReconnect(n) \/ LockReject(n) \/ LockCrash(n)
       PROVE  Unbroken'
  BY <1>11 DEF LockReconnect, LockReject, LockCrash, LockFault
<1>. QED
  BY <1>1, <1>2, <1>3, <1>4, <1>5, <1>6, <1>7, <1>8, <1>9, <1>10, <1>11
    DEF LockNext, UserStep

-----------------------------------------------------------------------------
(* The replies under way.                                                  *)

\* Reading a reply moves every later one of its instance up by one place.
LEMMA PlaceRead ==
    ASSUME LockTypeOK, NEW x \in Users, Reads(x)
    PROVE  /\ Place(x, 1)
           /\ \A u \in Users : \A i \in Nat :
                Place(u, i)' <=> IF NodeOf[u] = NodeOf[x]
                                 THEN i > 0 /\ Place(u, i + 1) ELSE Place(u, i)
<1>. DEFINE q == inbox[NodeOf[x]]
<1>1. q \in Seq(Users) /\ q # <<>> /\ NodeOf[x] \in Nodes
  BY LockAssumption DEF LockTypeOK, Reads
<1>2. /\ Tail(q) \in Seq(Users)
      /\ Len(Tail(q)) = Len(q) - 1
      /\ \A i \in 1 .. Len(Tail(q)) : Tail(q)[i] = q[i + 1]
  BY <1>1, HeadTailProperties
<1>3. inbox' = [inbox EXCEPT ![NodeOf[x]] = Tail(q)] /\ q[1] = x
  BY <1>1 DEF Reads
<1>4. Len(q) \in Nat /\ Len(q) > 0
  BY <1>1
<1>5. ASSUME NEW u \in Users, NEW i \in Nat, NodeOf[u] = NodeOf[x]
      PROVE  Place(u, i)' <=> i > 0 /\ Place(u, i + 1)
  BY <1>1, <1>2, <1>3, <1>4, <1>5 DEF Place, LockTypeOK
<1>6. ASSUME NEW u \in Users, NEW i \in Nat, NodeOf[u] # NodeOf[x]
      PROVE  Place(u, i)' <=> Place(u, i)
  BY <1>3, <1>6 DEF Place, LockTypeOK
<1>. QED BY <1>3, <1>4, <1>5, <1>6 DEF Place

\* A command executed puts its reply behind those that wait already.
LEMMA PlaceAnswer ==
    ASSUME LockTypeOK, NEW x \in Users, NEW r, Answer(x, r)
    PROVE  \A u \in Users : \A i \in Nat :
             Place(u, i)' <=> \/ Place(u, i)
                              \/ u = x /\ i = Len(inbox[NodeOf[x]]) + 1
<1>. DEFINE q == inbox[NodeOf[x]]
<1>1. q \in Seq(Users) /\ NodeOf[x] \in Nodes
  BY LockAssumption DEF LockTypeOK
<1>2. /\ Len(Append(q, x)) = Len(q) + 1
      /\ \A i \in 1 .. Len(q) : Append(q, x)[i] = q[i]
      /\ Append(q, x)[Len(q) + 1] = x
  BY <1>1, AppendProperties
<1>3. inbox' = [inbox EXCEPT ![NodeOf[x]] = Append(q, x)]
  BY DEF Answer
<1>4. Len(q) \in Nat
  BY <1>1
<1>5. ASSUME NEW u \in Users, NEW i \in Nat, NodeOf[u] = NodeOf[x]
      PROVE  Place(u, i)' <=> Place(u, i) \/ (u = x /\ i = Len(q) + 1)
  <2>1. inbox'[NodeOf[u]] = Append(q, x) /\ inbox[NodeOf[u]] = q
    BY <1>1, <1>3, <1>5 DEF LockTypeOK
  <2>2. Place(u, i)' <=> i \in 1 .. Len(q) + 1 /\ Append(q, x)[i] = u
    BY <2>1, <1>2 DEF Place
  <2>3. Place(u, i) <=> i \in 1 .. Len(q) /\ q[i] = u
    BY <2>1 DEF Place
  <2>4. CASE i \in 1 .. Len(q)
    BY <1>2, <1>4, <2>2, <2>3, <2>4
  <2>5. CASE i = Len(q) + 1
    BY <1>2, <1>4, <2>2, <2>3, <2>5
  <2>6. CASE i \notin 1 .. Len(q) + 1
    BY <1>4, <2>2, <2>3, <2>6
  <2>. QED BY <1>4, <2>4, <2>5, <2>6
<1>6. ASSUME NEW u \in Users, NEW i \in Nat, NodeOf[u] # NodeOf[x]
      PROVE  Place(u, i)' <=> Place(u, i)
  BY <1>3, <1>6 DEF Place, LockTypeOK
<1>7. ASSUME NEW u \in Users, NEW i \in Nat
      PROVE  Place(u, i)' <=> Place(u, i) \/ (u = x /\ i = Len(q) + 1)
  BY <1>5, <1>6
<1>. QED BY <1>7

\* A connection lost takes the replies of its instance and no other.
LEMMA PlaceDrop ==
    ASSUME LockTypeOK, NEW n \in Nodes, inbox' = [inbox EXCEPT ![n] = <<>>]
    PROVE  \A u \in Users : \A i \in Nat :
             Place(u, i)' <=> NodeOf[u] # n /\ Place(u, i)
BY LockAssumption DEF LockTypeOK, Place

\* a call's reply is read once: it is off the list and the call goes on
LEMMA QueueRead ==
    ASSUME LockTypeOK, Queue, NEW x \in Users, Reads(x),
           NEW there \in UserStates \ Answered, Goto(x, there)
    PROVE  Queue'
<1>1. Place(x, 1)
  BY PlaceRead
<1>2. ASSUME NEW u \in Users PROVE at'[u] \in Answered <=> \E i \in Nat : Place(u, i)'
  <2>1. CASE u = x
    <3>1. \A i \in Nat : ~Place(x, i)'
      BY <1>1, PlaceRead DEF Queue
    <3>. QED BY <2>1, <3>1 DEF Goto, LockTypeOK
  <2>2. CASE u # x /\ NodeOf[u] = NodeOf[x]
    <3>1. ~Place(u, 1)
      BY <1>1, <2>2 DEF Place
    <3>2. \A i \in Nat : Place(u, i) => i > 0
      BY DEF Place
    <3>3. (\E i \in Nat : Place(u, i)) <=> \E i \in Nat : i > 0 /\ Place(u, i + 1)
      <4>1. ASSUME NEW i \in Nat, Place(u, i) PROVE i - 1 \in Nat /\ i - 1 > 0
        BY <3>1, <3>2, <4>1
      <4>. QED BY <4>1
    <3>. QED BY <2>2, <3>3, PlaceRead DEF Goto, LockTypeOK, Queue
  <2>3. CASE NodeOf[u] # NodeOf[x]
    BY <2>3, PlaceRead DEF Goto, LockTypeOK, Queue
  <2>. QED BY <2>1, <2>2, <2>3
<1>3. ASSUME NEW u \in Users, NEW i \in Nat, NEW j \in Nat, Place(u, i)', Place(u, j)'
      PROVE  i = j
  BY <1>3, PlaceRead DEF Queue
<1>. QED BY <1>2, <1>3 DEF Queue

\* A command executed makes its call one that waits for a reply.
LEMMA QueueAnswer ==
    ASSUME LockTypeOK, Queue, NEW x \in Users, at[x] \notin Answered,
           NEW r \in Answered, Answer(x, r)
    PROVE  Queue'
<1>1. Len(inbox[NodeOf[x]]) \in Nat
  BY LockAssumption DEF LockTypeOK
<1>2. \A i \in Nat : ~Place(x, i)
  BY DEF Queue
<1>3. ASSUME NEW u \in Users PROVE at'[u] \in Answered <=> \E i \in Nat : Place(u, i)'
  <2>1. CASE u = x
    <3>1. \E i \in Nat : Place(x, i)'
      BY <1>1, PlaceAnswer
    <3>. QED BY <1>1, <2>1, <3>1 DEF Answer, Goto, LockTypeOK
  <2>2. CASE u # x
    <3>1. \A i \in Nat : Place(u, i)' <=> Place(u, i)
      BY <2>2, PlaceAnswer
    <3>. QED BY <2>2, <3>1 DEF Answer, Goto, LockTypeOK, Queue
  <2>. QED BY <2>1, <2>2
<1>4. ASSUME NEW u \in Users, NEW i \in Nat, NEW j \in Nat, Place(u, i)', Place(u, j)'
      PROVE  i = j
  BY <1>2, <1>4, PlaceAnswer DEF Queue
<1>. QED BY <1>3, <1>4 DEF Queue

\* Every step keeps a reply under way for each call that waits, and for no other.
LEMMA QueueStep ==
    ASSUME LockTypeOK, Queue, [LockNext]_lockVars
    PROVE  Queue'
<1>1. CASE UNCHANGED <<at, inbox>>
  BY <1>1 DEF Queue, Place
<1>2. ASSUME NEW u \in Users, Acquire(u) \/ Finish(u) PROVE Queue'
  <2>1. \A w \in Users, i \in Nat : Place(w, i)' <=> Place(w, i)
    BY <1>2 DEF Acquire, Finish, Place
  <2>2. \A w \in Users : at'[w] \in Answered <=> at[w] \in Answered
    BY <1>2 DEF Acquire, Finish, Goto, Answered, LockTypeOK
  <2>. QED BY <2>1, <2>2 DEF Queue
<1>3. ASSUME NEW u \in Users, SetOk(u) \/ SetNil(u) \/ DelKey(u) \/ KeepKey(u)
      PROVE  Queue'
  <2>1. at[u] \notin Answered /\ \E r \in Answered : Answer(u, r)
    BY <1>3 DEF SetOk, SetNil, DelKey, KeepKey, Answered
  <2>. QED BY <2>1, QueueAnswer
<1>4. ASSUME NEW u \in Users,
             Acquired(u) \/ Retry(u) \/ GiveUp(u) \/ Released(u) \/ NotReleased(u)
      PROVE  Queue'
  <2>1. Reads(u) /\ \E s \in UserStates \ Answered : Goto(u, s)
    BY <1>4 DEF Acquired, Retry, GiveUp, Released, NotReleased, Answered, UserStates,
      InSet, InEval, Ended
  <2>. QED BY <2>1, QueueRead
<1>5. ASSUME NEW n \in Nodes, LockReconnect(n) \/ LockReject(n) \/ LockCrash(n)
      PROVE  Queue'
  <2>1. inbox' = [inbox EXCEPT ![n] = <<>>]
    BY <1>5 DEF LockReconnect, LockReject, LockCrash
  <2>2. ASSUME NEW u \in Users
        PROVE  at'[u] \in Answered <=> NodeOf[u] # n /\ at[u] \in Answered
    BY <1>5 DEF LockReconnect, LockReject, LockCrash, LockTypeOK, UserStates, Answered,
      InSet, InEval, Ended
  <2>. QED BY <2>1, <2>2, PlaceDrop DEF Queue
<1>. QED
  BY <1>1, <1>2, <1>3, <1>4, <1>5 DEF LockNext, UserStep, lockVars, Tick, Extend

-----------------------------------------------------------------------------
(* The order of the replies, and the map.                                  *)

\* reading a reply takes nobody before anybody else
LEMMA BeforeRead ==
    ASSUME LockTypeOK, NEW x \in Users, Reads(x), NEW u \in Users, NEW w \in Users,
           NodeOf[u] = NodeOf[w], at'[u] = at[u], Before(w, u)
    PROVE  Before(w, u)'
<1>1. ASSUME NEW i \in Nat, NEW j \in Nat, Place(u, i)', Place(w, j)'
      PROVE  j < i
  <2>1. CASE NodeOf[u] = NodeOf[x]
    <3>1. Place(u, i + 1) /\ Place(w, j + 1)
      BY <1>1, <2>1, PlaceRead
    <3>2. j + 1 < i + 1
      BY <3>1 DEF Before
    <3>. QED BY <3>2
  <2>2. CASE NodeOf[u] # NodeOf[x]
    BY <1>1, <2>2, PlaceRead DEF Before
  <2>. QED BY <2>1, <2>2
<1>. QED BY <1>1 DEF Before

\* x reads its reply and goes on; if it comes to hold the lock, no reply that
\* writes the map was behind it
LEMMA OrderRead ==
    ASSUME LockTypeOK, Queue, Order, NEW x \in Users, Reads(x),
           NEW there \in UserStates \ Answered, Goto(x, there), lapsed' = lapsed,
           there = "working" => at[x] = "granted"
    PROVE  Order'
<1>. SUFFICES ASSUME NEW u \in Users, NEW w \in Users,
                     Together(u, w), Holds(u)', Writes(w)'
              PROVE  Before(w, u)'
  BY DEF Order, Together
<1>1. w # x /\ at'[w] = at[w] /\ Writes(w)
  BY DEF Goto, Writes, LockTypeOK, Answered
<1>2. Holds(u) /\ (u = x => at[x] = "granted")
  BY DEF Goto, Holds, LockTypeOK, Answered
<1>3. Before(w, u)
  BY <1>1, <1>2 DEF Order
<1>4. u # x
  <2>. SUFFICES ASSUME u = x PROVE FALSE OBVIOUS
  <2>1. PICK j \in Nat : Place(w, j)
    BY <1>1 DEF Queue, Writes, Answered
  <2>2. j < 1
    BY <1>3, <2>1, PlaceRead DEF Before
  <2>. QED BY <2>1, <2>2 DEF Place
<1>5. at'[u] = at[u]
  BY <1>4 DEF Goto, LockTypeOK
<1>. QED BY <1>3, <1>5, BeforeRead DEF Together

\* Redis has executed x's command; a grant goes behind all replies under way
LEMMA OrderAnswer ==
    ASSUME LockTypeOK, Held, Queue, Order, NEW x \in Users, at[x] \notin Answered,
           NEW r \in Answered, Answer(x, r), r = "released" => owner = x,
           IF r = "granted" THEN owner = Nobody /\ lapsed' = lapsed \ {x}
                            ELSE lapsed' = lapsed
    PROVE  Order'
<1>. SUFFICES ASSUME NEW u \in Users, NEW w \in Users,
                     Together(u, w), Holds(u)', Writes(w)'
              PROVE  Before(w, u)'
  BY DEF Order, Together
<1>1. \A v \in Users \ {x} : at'[v] = at[v] /\ (v \in lapsed' <=> v \in lapsed)
  BY DEF Answer, Goto, LockTypeOK
<1>2. at'[x] = r
  BY DEF Answer, Goto, LockTypeOK
<1>3. Len(inbox[NodeOf[x]]) \in Nat /\ \A i \in Nat : ~Place(x, i)
  BY LockAssumption DEF Queue, LockTypeOK
<1>4. CASE u = x
  <2>1. r = "granted" /\ w # x /\ NodeOf[w] = NodeOf[x]
    BY <1>2, <1>4 DEF Holds, Together, Answered
  <2>2. ASSUME NEW i \in Nat, NEW j \in Nat, Place(u, i)', Place(w, j)' PROVE j < i
    <3>1. i = Len(inbox[NodeOf[x]]) + 1
      BY <1>3, <1>4, <2>2, PlaceAnswer
    <3>2. Place(w, j)
      BY <2>1, <2>2, PlaceAnswer
    <3>3. j <= Len(inbox[NodeOf[x]])
      BY <1>3, <2>1, <3>2 DEF Place
    <3>. QED BY <1>3, <3>1, <3>3
  <2>. QED BY <1>2, <1>4, <2>1, <2>2 DEF Before
<1>5. CASE u # x
  <2>1. Holds(u) /\ owner = u
    BY <1>1, <1>5 DEF Holds, Held
  <2>2. w # x
    BY <1>2, <1>5, <2>1, LockAssumption DEF Writes
  <2>3. Before(w, u)
    BY <1>1, <2>1, <2>2 DEF Writes, Order
  <2>4. \A i \in Nat : (Place(u, i)' <=> Place(u, i)) /\ (Place(w, i)' <=> Place(w, i))
    BY <1>5, <2>2, PlaceAnswer
  <2>. QED BY <1>1, <1>5, <2>3, <2>4 DEF Before
<1>. QED BY <1>4, <1>5

\* Every step keeps the replies in the order of the commands.
LEMMA OrderStep ==
    ASSUME LockTypeOK, Held, Queue, Order, [LockNext]_lockVars
    PROVE  Order'
<1>1. CASE UNCHANGED <<at, inbox>> /\ lapsed \subseteq lapsed'
  BY <1>1 DEF Order, Holds, Writes, Together, Before, Place
<1>2. ASSUME NEW x \in Users, Acquire(x) \/ Finish(x) PROVE Order'
  <2>1. \A u \in Users, i \in Nat : Place(u, i)' <=> Place(u, i)
    BY <1>2 DEF Acquire, Finish, Place
  <2>2. \A u \in Users : /\ Holds(u)' => Holds(u) /\ u # x /\ at'[u] = at[u]
                         /\ Writes(u)' => Writes(u)
    BY <1>2 DEF Acquire, Finish, Goto, Holds, Writes, LockTypeOK
  <2>. QED BY <2>1, <2>2 DEF Order, Together, Before
<1>3. ASSUME NEW x \in Users, SetOk(x) \/ SetNil(x) \/ DelKey(x) \/ KeepKey(x)
      PROVE  Order'
  <2>1. /\ at[x] \notin Answered
        /\ \E r \in Answered :
             /\ Answer(x, r)
             /\ r = "released" => owner = x
             /\ IF r = "granted" THEN owner = Nobody /\ lapsed' = lapsed \ {x}
                                 ELSE lapsed' = lapsed
    BY <1>3 DEF SetOk, SetNil, DelKey, KeepKey, Grant, MayDelete, Answered
  <2>. QED BY <2>1, OrderAnswer
<1>4. ASSUME NEW x \in Users,
             Acquired(x) \/ Retry(x) \/ GiveUp(x) \/ Released(x) \/ NotReleased(x)
      PROVE  Order'
  <2>1. /\ Reads(x)
        /\ lapsed' = lapsed
        /\ \E s \in UserStates \ Answered :
             Goto(x, s) /\ (s = "working" => at[x] = "granted")
    BY <1>4 DEF Acquired, Retry, GiveUp, Released, NotReleased, Answered, UserStates,
      InSet, InEval, Ended
  <2>. QED BY <2>1, OrderRead
<1>5. ASSUME NEW n \in Nodes, LockReconnect(n) \/ LockReject(n) \/ LockCrash(n)
      PROVE  Order'
  <2>1. inbox' = [inbox EXCEPT ![n] = <<>>] /\ lapsed' = lapsed
    BY <1>5 DEF LockReconnect, LockReject, LockCrash
  <2>2. ASSUME NEW u \in Users
        PROVE  /\ Writes(u)' => NodeOf[u] # n
               /\ NodeOf[u] # n => at'[u] = at[u]
    BY <1>5 DEF LockReconnect, LockReject, LockCrash, LockTypeOK, UserStates, Writes,
      InSet, InEval, Ended
  <2>3. \A u \in Users, i \in Nat :
          NodeOf[u] # n => (Place(u, i)' <=> Place(u, i))
    BY <2>1, PlaceDrop
  <2>. QED BY <2>1, <2>2, <2>3 DEF Order, Together, Holds, Writes, Before
<1>. QED
  BY <1>1, <1>2, <1>3, <1>4, <1>5 DEF LockNext, UserStep, lockVars, Tick, Extend

\* an entry is overwritten or deleted only when no call of the instance holds
LEMMA ListedStep ==
    ASSUME LockTypeOK, Queue, Order, HolderIsListed, [LockNext]_lockVars
    PROVE  HolderIsListed'
<1>. USE LockAssumption DEF LockTypeOK, HolderIsListed
<1>1. CASE UNCHANGED <<at, locks>> /\ lapsed \subseteq lapsed'
  BY <1>1
<1>2. ASSUME NEW x \in Users,
             \/ Acquire(x) \/ Finish(x) \/ SetNil(x) \/ KeepKey(x) \/ DelKey(x)
             \/ Retry(x) \/ GiveUp(x) \/ NotReleased(x)
      PROVE  HolderIsListed'
  BY <1>2 DEF Acquire, Finish, SetNil, KeepKey, DelKey, Retry, GiveUp, NotReleased,
    Answer, Goto
<1>3. ASSUME NEW x \in Users, SetOk(x) PROVE HolderIsListed'
  BY <1>3 DEF SetOk, Grant, Answer, Goto
<1>4. ASSUME NEW x \in Users, Acquired(x) PROVE HolderIsListed'
  BY <1>4 DEF Acquired, Goto, Order, Holds, Writes, Together, Before
<1>5. ASSUME NEW x \in Users, Released(x) PROVE HolderIsListed'
  BY <1>5 DEF Released, Goto, Order, Holds, Writes, Together, Before
<1>6. ASSUME NEW n \in Nodes, LockReconnect(n) \/ LockReject(n)
      PROVE  HolderIsListed'
  <2>1. CASE LockReconnect(n)
    BY <2>1 DEF LockReconnect, InSet, InEval
  <2>2. CASE LockReject(n)
    BY <2>2 DEF LockReject, InSet, InEval
  <2>. QED BY <1>6, <2>1, <2>2
<1>7. ASSUME NEW n \in Nodes, LockCrash(n) PROVE HolderIsListed'
  BY <1>7 DEF LockCrash, Ended
<1>. QED
  BY <1>1, <1>2, <1>3, <1>4, <1>5, <1>6, <1>7
    DEF LockNext, UserStep, lockVars, Tick, Extend

-----------------------------------------------------------------------------
(* The theorems.                                                           *)

\* Everything the theorems below need is inductive.
THEOREM LockInvariance == LockSpec => []IInv
<1>1. LockInit => IInv
  BY InitIInv
<1>2. IInv /\ [LockNext]_lockVars => IInv'
  BY TypeStep, HeldStep, UnbrokenStep, QueueStep, OrderStep, ListedStep DEF IInv
<1>. QED BY <1>1, <1>2, PTL DEF LockSpec

\* The key, the calls and the maps stay in range; attempts never exceed the
\* number of retries.
THEOREM LockTypeCorrect == LockSpec => []LockTypeOK
<1>. IInv => LockTypeOK
  BY DEF IInv
<1>. QED BY LockInvariance, PTL

\* withLock excludes while leases last: the key names the call that works.
THEOREM LockExcludes == LockSpec => []Exclusive
<1>. IInv => Exclusive
  BY DEF IInv, Held, Holds, Exclusive
<1>. QED BY LockInvariance, PTL

\* Without faults, no withLock that has ended leaves its key (finally).
THEOREM LockGivenUp == LockSpec => []KeyGivenUp
<1>. IInv => KeyGivenUp
  BY DEF IInv, Unbroken, KeyGivenUp, Ended
<1>. QED BY LockInvariance, PTL

\* getActiveLocks lists the holder: replies on one connection keep the order
\* of the commands.
THEOREM LockListed == LockSpec => []HolderIsListed
<1>. IInv => HolderIsListed
  BY DEF IInv
<1>. QED BY LockInvariance, PTL

-----------------------------------------------------------------------------
(* The state manager beside it.                                            *)

\* A thread that has something under way does it on an instance, a poll on its own.
Busy == {"sent", "answered", "resumed"}
OnInv ==
    /\ \A t \in Threads : stage[t] \in Busy => on[t] \in Instances
    /\ \A i \in Instances : on[i] = i

AskType ==
    [kind : Kinds \cup {"none", "clearing"}, expected : Int, value : Int, ttl : BOOLEAN]

\* A call that ends, and one whose command Redis executes, stay in range.
LEMMA ThreadTyped ==
    ASSUME StateTypeOK, NEW t \in Threads
    PROVE  /\ ask[t] \in AskType /\ Nothing \in AskType
           /\ Over(t) \in Stages /\ Home(t) \in Instances \cup {Nowhere}
           /\ got[t] \in Int \cup {None} /\ on[t] \in Instances \cup {Nowhere}
           /\ ask[t].value \in Int
<1>1. ask[t] \in AskType
  BY DEF StateTypeOK, AskType
<1>2. Nothing \in AskType
  BY DEF Nothing, AskType, Kinds
<1>. QED BY <1>1, <1>2 DEF StateTypeOK, AskType, Over, Home, Stages


\* A reply is put on its way, or is read; a thread on no instance changes no queue.
LEMMA RepliesTyped ==
    ASSUME StateTypeOK, NEW t \in Threads
    PROVE  /\ [arriving EXCEPT ![on[t]] = Append(@, t)] \in [Instances -> Seq(Threads)]
           /\ arriving[on[t]] # <<>> =>
                  [arriving EXCEPT ![on[t]] = Tail(@)] \in [Instances -> Seq(Threads)]
<1>1. arriving \in [Instances -> Seq(Threads)]
  BY DEF StateTypeOK
<1>2. CASE on[t] \in Instances
  <2>1. arriving[on[t]] \in Seq(Threads)
    BY <1>1, <1>2
  <2>2. Append(arriving[on[t]], t) \in Seq(Threads)
    BY <2>1
  <2>3. arriving[on[t]] # <<>> => Tail(arriving[on[t]]) \in Seq(Threads)
    BY <2>1
  <2>. QED BY <1>1, <2>2, <2>3
<1>3. CASE on[t] \notin Instances
  BY <1>1, <1>3
<1>. QED BY <1>2, <1>3

\* What a thread does to itself, to the cache and to the listeners of its
\* instance keeps them in range.
LEMMA LeavesTyped ==
    ASSUME StateTypeOK, NEW t \in Threads, Leaves(t)
    PROVE  /\ stage' \in [Threads -> Stages] /\ got' \in [Threads -> Int \cup {None}]
           /\ on' \in [Threads -> Instances \cup {Nowhere}]
           /\ ask' \in [Threads -> AskType]
  BY ThreadTyped DEF StateTypeOK, Leaves, AskType

\* Every step keeps the key, the caches and the threads in range.
LEMMA StateTypeStep == StateTypeOK /\ OnInv /\ [StateNext]_stateVars => StateTypeOK'
<1>. SUFFICES ASSUME StateTypeOK, OnInv, [StateNext]_stateVars PROVE StateTypeOK'
  OBVIOUS
<1>. USE StateAssumption
<1>1. CASE UNCHANGED stateVars
  BY <1>1 DEF StateTypeOK, stateVars
<1>2. ASSUME NEW o \in Operations, NEW i \in Instances, NEW q \in Asks,
             Ask(o, i, q) \/ WatchAgain(o, i, q) \/ Unwatch(o, i, q) \/ Close(o, i, q)
      PROVE  StateTypeOK'
  <2>1. o \in Threads /\ q \in Question
    BY <1>2 DEF Threads
  <2>2. q \in AskType
    BY <2>1 DEF Question, AskType
  <2>3. CASE Ask(o, i, q)
    BY <2>1, <2>2, <2>3 DEF Ask, client, StateTypeOK, AskType, Stages
  <2>4. CASE WatchAgain(o, i, q)
    BY <2>1, <2>4 DEF WatchAgain, client, StateTypeOK, Stages
  <2>5. CASE Unwatch(o, i, q)
    BY <2>1, <2>5 DEF Unwatch, StateTypeOK, Stages
  <2>6. CASE Close(o, i, q)
    BY <2>1, <2>6 DEF Close, StateTypeOK, Stages
  <2>. QED BY <1>2, <2>3, <2>4, <2>5, <2>6
<1>3. ASSUME NEW t \in Threads, Redis(t)
      PROVE  StateTypeOK'
  <2>1. ask[t].value \in Int /\ ask[t].ttl \in BOOLEAN /\ store \in Int \cup {None}
    BY ThreadTyped DEF StateTypeOK, AskType
  <2>2. store' \in Int \cup {None} /\ volatile' \in BOOLEAN
    <3>1. CASE Read(t)
      BY <3>1 DEF Read, StateTypeOK
    <3>2. CASE Write(t) \/ Remove(t)
      BY <2>1, <3>2 DEF Write, Remove
    <3>3. CASE Add(t)
      BY <2>1, <3>3 DEF Add, StateTypeOK
    <3>4. CASE Swap(t)
      BY <2>1, <3>4 DEF Swap, StateTypeOK
    <3>. QED BY <1>3, <3>1, <3>2, <3>3, <3>4 DEF Redis
  <2>3. \E v \in Int \cup {None} : Execute(t, v)
    <3>1. CASE Read(t)
      BY <2>1, <3>1 DEF Read
    <3>2. CASE Write(t) \/ Remove(t)
      BY <2>1, <3>2 DEF Write, Remove
    <3>3. CASE Add(t)
      BY <2>2, <3>3 DEF Add
    <3>4. CASE Swap(t)
      <4>1. Execute(t, 0) \/ Execute(t, 1)
        BY <3>4 DEF Swap
      <4>. QED BY <4>1
    <3>. QED BY <1>3, <3>1, <3>2, <3>3, <3>4 DEF Redis
  <2>. QED BY <2>2, <2>3, RepliesTyped DEF Execute, client, StateTypeOK, Stages
<1>4. ASSUME NEW t \in Threads, Resume(t)
      PROVE  StateTypeOK'
  <2>1. got[t] \in Int \cup {None} /\ ask[t].value \in Int
    BY ThreadTyped
  <2>2. /\ SetCache(t, got[t]) \/ SetCache(t, ask[t].value) \/ SetCache(t, Undefined) =>
             cache' \in [Instances -> Int \cup {None, Undefined}]
        /\ Announce(t, got[t]) \/ Announce(t, ask[t].value) \/ Announce(t, None) =>
             heard' \in [Instances -> Int \cup {None, Undefined}]
    <3>1. ASSUME NEW v \in Int \cup {None, Undefined}, SetCache(t, v)
          PROVE  cache' \in [Instances -> Int \cup {None, Undefined}]
      BY <3>1 DEF SetCache, StateTypeOK
    <3>2. ASSUME NEW v \in Int \cup {None, Undefined}, Announce(t, v)
          PROVE  heard' \in [Instances -> Int \cup {None, Undefined}]
      BY <3>2 DEF Announce, StateTypeOK
    <3>. QED BY <2>1, <3>1, <3>2
  <2>3. NextReply(t) => /\ arriving' \in [Instances -> Seq(Threads)]
                        /\ UNCHANGED <<store, volatile, watched, open, stateFaults>>
    BY RepliesTyped DEF NextReply
  <2>. USE DEF StateTypeOK
  <2>4. CASE AfterGet(t)
    BY <2>2, <2>3, <2>4, LeavesTyped DEF AfterGet, CacheRead, AskType
  <2>5. CASE AfterInnerGet(t)
    BY <2>2, <2>3, <2>5 DEF AfterInnerGet, CacheRead, Stages
  <2>6. CASE Watch(t)
    BY <2>2, <2>6, LeavesTyped, ThreadTyped DEF Watch, AskType, OnInv, Busy
  <2>7. CASE AfterSet(t) \/ AfterDelete(t) \/ AfterMset(t)
    BY <2>2, <2>3, <2>7, LeavesTyped DEF AfterSet, AfterDelete, AfterMset, AskType
  <2>8. CASE AfterAdd(t) \/ AfterSwap(t) \/ AfterClear(t)
    BY <2>2, <2>3, <2>8, LeavesTyped DEF AfterAdd, AfterSwap, AfterClear, AskType
  <2>9. CASE AfterKeys(t)
    <3>1. CASE Leaves(t)
      BY <2>3, <2>9, <3>1, LeavesTyped DEF AfterKeys, AskType
    <3>2. CASE /\ ask' = [ask EXCEPT ![t] = [@ EXCEPT !.kind = "clearing"]]
               /\ stage' = [stage EXCEPT ![t] = "sent"]
               /\ UNCHANGED <<on, got>>
      <4>1. ask[t] \in AskType /\ ask \in [Threads -> AskType]
        BY ThreadTyped DEF AskType
      <4>2. [ask[t] EXCEPT !.kind = "clearing"] \in AskType
        BY <4>1 DEF AskType
      <4>3. ask' \in [Threads -> AskType]
        BY <3>2, <4>1, <4>2
      <4>. QED BY <2>3, <2>9, <3>2, <4>3 DEF AfterKeys, Stages, AskType
    <3>. QED BY <2>9, <3>1, <3>2 DEF AfterKeys
  <2>. QED BY <1>4, <2>4, <2>5, <2>6, <2>7, <2>8, <2>9 DEF Resume
<1>5. ASSUME NEW i \in Instances, Poll(i)
      PROVE  StateTypeOK'
  <2>1. i \in Threads
    BY DEF Threads
  <2>2. CASE StartPoll(i)
    BY <2>1, <2>2 DEF StartPoll, client, StateTypeOK, Stages
  <2>3. CASE Compare(i)
    BY <2>1, <2>3, ThreadTyped, LeavesTyped
      DEF Compare, SetCache, Announce, StateTypeOK, AskType
  <2>. QED BY <1>5, <2>2, <2>3 DEF Poll
<1>6. CASE Expire
  BY <1>6 DEF Expire, client, StateTypeOK
<1>7. ASSUME NEW i \in Instances, StateReconnect(i) \/ StateReject(i)
      PROVE  StateTypeOK'
  <2>1. /\ stateFaults' \in 0 .. MaxStateFaults
        /\ [arriving EXCEPT ![i] = <<>>] \in [Instances -> Seq(Threads)]
    <3>1. stateFaults \in 0 .. MaxStateFaults /\ arriving \in [Instances -> Seq(Threads)]
      BY DEF StateTypeOK
    <3>2. stateFaults < MaxStateFaults /\ stateFaults' = stateFaults + 1
      BY <1>7 DEF StateReconnect, StateReject, StateFault
    <3>. QED BY <3>1, <3>2
  <2>2. CASE StateReconnect(i)
    BY <2>1, <2>2 DEF StateReconnect, client, StateTypeOK, Stages
  <2>3. CASE StateReject(i)
    <3>1. /\ stage' \in [Threads -> Stages] /\ got' \in [Threads -> Int \cup {None}]
          /\ on' \in [Threads -> Instances \cup {Nowhere}]
      BY <2>3, ThreadTyped DEF StateReject, StateTypeOK
    <3>2. ask' \in [Threads -> AskType]
      BY <2>3, ThreadTyped DEF StateReject
    <3>. QED BY <2>1, <2>3, <3>1, <3>2 DEF StateReject, client, StateTypeOK, AskType
  <2>. QED BY <1>7, <2>2, <2>3
<1>. QED BY <1>1, <1>2, <1>3, <1>4, <1>5, <1>6, <1>7 DEF StateNext

\* Where a thread is, it stays as long as its call lasts.
LEMMA OnStep == StateTypeOK /\ OnInv /\ [StateNext]_stateVars => OnInv'
<1>. SUFFICES ASSUME StateTypeOK, OnInv, [StateNext]_stateVars PROVE OnInv'
  OBVIOUS
<1>. USE StateAssumption DEF OnInv, Busy
<1>0. /\ Instances \subseteq Threads /\ Operations \subseteq Threads
      /\ Operations \cap Instances = {}
      /\ \A t \in Threads : Over(t) \notin Busy
  BY DEF Threads, Over, Operations
<1>1. CASE UNCHANGED <<stage, on>>
  BY <1>1
<1>2. ASSUME NEW o \in Operations, NEW i \in Instances, NEW q \in Asks,
             Ask(o, i, q) \/ WatchAgain(o, i, q) \/ Unwatch(o, i, q) \/ Close(o, i, q)
      PROVE  OnInv'
  <2>1. CASE Ask(o, i, q)
    BY <1>0, <2>1 DEF Ask, StateTypeOK
  <2>2. CASE ~Ask(o, i, q)
    <3>1. stage' = [stage EXCEPT ![o] = "done"] /\ on' = on
      BY <1>2, <2>2 DEF WatchAgain, Unwatch, Close
    <3>. QED BY <1>0, <3>1 DEF StateTypeOK
  <2>. QED BY <2>1, <2>2
<1>3. ASSUME NEW t \in Threads,
             \/ \E v : Execute(t, v)
             \/ AfterInnerGet(t)
             \/ StartPoll(t) /\ t \in Instances
             \/ AfterKeys(t) /\ stage' = [stage EXCEPT ![t] = "sent"] /\ UNCHANGED on
      PROVE  OnInv'
  <2>1. ASSUME NEW v, Execute(t, v) PROVE OnInv'
    BY <1>0, <2>1 DEF Execute, StateTypeOK
  <2>2. CASE AfterInnerGet(t)
    BY <1>0, <2>2 DEF AfterInnerGet, NextReply, StateTypeOK
  <2>3. CASE StartPoll(t) /\ t \in Instances
    BY <1>0, <2>3 DEF StartPoll, StateTypeOK
  <2>4. CASE AfterKeys(t) /\ stage' = [stage EXCEPT ![t] = "sent"] /\ UNCHANGED on
    BY <1>0, <2>4 DEF AfterKeys, NextReply, StateTypeOK
  <2>. QED BY <1>3, <2>1, <2>2, <2>3, <2>4
<1>4. ASSUME NEW t \in Threads, Leaves(t)
      PROVE  OnInv'
  BY <1>0, <1>4 DEF Leaves, Home, StateTypeOK
<1>5. ASSUME NEW i \in Instances, StateReconnect(i) \/ StateReject(i)
      PROVE  OnInv'
  <2>1. CASE StateReconnect(i)
    BY <1>0, <2>1 DEF StateReconnect, StateTypeOK
  <2>2. CASE StateReject(i)
    BY <1>0, <2>2 DEF StateReject, Home, StateTypeOK
  <2>. QED BY <1>5, <2>1, <2>2
<1>6. ASSUME NEW t \in Threads, Redis(t) PROVE \E v : Execute(t, v)
  BY <1>6 DEF Redis, Read, Write, Remove, Add, Swap
<1>7. ASSUME NEW t \in Threads, Resume(t)
      PROVE  \/ Leaves(t) \/ AfterInnerGet(t)
             \/ AfterKeys(t) /\ stage' = [stage EXCEPT ![t] = "sent"] /\ UNCHANGED on
  BY <1>7 DEF Resume, AfterGet, Watch, AfterSet, AfterDelete, AfterMset, AfterAdd,
    AfterSwap, AfterKeys, AfterClear
<1>8. ASSUME NEW i \in Instances, Poll(i) PROVE StartPoll(i) \/ Leaves(i)
  BY <1>8 DEF Poll, Compare
<1>. QED
  BY <1>0, <1>1, <1>2, <1>3, <1>4, <1>5, <1>6, <1>7, <1>8 DEF StateNext, stateVars, Expire

\* The start is in range.
LEMMA InitState == StateInit => StateTypeOK /\ OnInv
<1>. SUFFICES ASSUME StateInit PROVE StateTypeOK /\ OnInv
  OBVIOUS
<1>0. OnInv
  BY StateAssumption DEF StateInit, OnInv, Busy, Threads, Home
<1>1. /\ ask \in [Threads -> AskType] /\ on \in [Threads -> Instances \cup {Nowhere}]
      /\ stage \in [Threads -> Stages] /\ got \in [Threads -> Int \cup {None}]
  BY DEF StateInit, AskType, Nothing, Kinds, Home, Stages
<1>2. /\ store \in Int \cup {None} /\ cache \in [Instances -> Int \cup {None, Undefined}]
      /\ arriving \in [Instances -> Seq(Threads)]
  BY StateAssumption DEF StateInit
<1>3. /\ volatile \in BOOLEAN /\ watched \subseteq Instances /\ open \subseteq Instances
      /\ heard = cache
  BY StateAssumption DEF StateInit
<1>4. stateFaults \in 0 .. MaxStateFaults
  BY StateAssumption DEF StateInit
<1>. QED BY <1>0, <1>1, <1>2, <1>3, <1>4 DEF StateTypeOK, AskType

\* The composition that the runs check is the lock's specification and the
\* state manager's: what is proved of the lock holds of it.
THEOREM PartsImplemented == Spec => LockSpec /\ StateSpec
<1>1. Init => LockInit /\ StateInit
  BY DEF Init
<1>2. [Next]_vars => [LockNext]_lockVars /\ [StateNext]_stateVars
  BY DEF Next, vars, InLock, InState
<1>. QED BY <1>1, <1>2, PTL DEF Spec, LockSpec, StateSpec

\* The lock and the state manager together: all stays in range.
THEOREM DistributedTypeCorrect == Spec => []TypeOK
<1>. DEFINE Inv == LockTypeOK /\ Lease /\ StateTypeOK /\ OnInv
<1>1. Init => Inv
  BY InitIInv, InitState DEF Init, IInv
<1>2. Inv /\ [Next]_vars => Inv'
  <2>. SUFFICES ASSUME Inv, [Next]_vars PROVE Inv'
    OBVIOUS
  <2>1. CASE UNCHANGED vars
    BY <2>1, TypeStep, StateTypeStep, OnStep DEF vars
  <2>2. CASE InLock(LockNext)
    BY <2>2, TypeStep, StateTypeStep, OnStep DEF InLock
  <2>3. CASE InState(StateNext)
    BY <2>3, TypeStep, StateTypeStep, OnStep DEF InState
  <2>. QED BY <2>1, <2>2, <2>3 DEF Next
<1>3. Inv => TypeOK
  BY DEF TypeOK
<1>. QED BY <1>1, <1>2, <1>3, PTL DEF Spec
=============================================================================
