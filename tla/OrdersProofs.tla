---------------------------- MODULE OrdersProofs ----------------------------
(***************************************************************************)
(* Proofs about Orders, for every set of orders, calls and processes, every *)
(* driver and every bound on faults.                                       *)
(*                                                                         *)
(* The safety properties are not inductive as they stand.  IInv adds what   *)
(* they lean on: an order whose createOrder has not reached the gateway has *)
(* no payment and no row beyond `pending`, a started call knows its order   *)
(* and its process, a completed row is stamped, and what a call is about to *)
(* announce is backed by the row.                                          *)
(***************************************************************************)
EXTENDS Orders, TLAPS

\* A started call knows what it works on, a started order has a home.
StartedInv ==
    /\ \A c \in Calls : at[c] # "idle" =>
         /\ req[c].order \in Orders
         /\ req[c].proc \in ApiProcs
         /\ req[c].kind \in {"webhook", "cancel"}
    /\ \A o \in Orders : create[o] # "idle" => home[o] \in OrderProcs

\* Before createOrder there is no row; before createPayment there is no
\* payment and no timer.
FreshInv ==
    \A o \in Orders :
        /\ create[o] = "idle" => row[o].status = "absent" /\ ~row[o].completedAt
        /\ create[o] \in {"idle", "created"} => pay[o] = "none" /\ o \notin timer

\* updateState stamps every completed row.
StampInv ==
    \A o \in Orders : row[o].status = "completed" => row[o].completedAt

\* A cancel past the gateway: its payment exists in its process and is settled.
CancelInv ==
    \A c \in Calls : Cancelling(c) =>
        /\ home[req[c].order] = req[c].proc
        /\ pay[req[c].order] \notin {"none", "pending"}
        /\ req[c].order \notin timer

\* A call that has written nothing yet has no returned row.
UnansweredInv ==
    \A c \in Calls : at[c] \in {"idle", "check", "gateway", "write"} =>
                     got[c] = "absent"

\* What a call is about to announce as completed is stamped.
EmitInv ==
    \A c \in Calls :
        (at[c] \in {"reread", "emit"} /\ got[c] = "completed") =>
            row[req[c].order].completedAt

TypeInv == TypeOK /\ StartedInv

IInv == /\ TypeInv
        /\ FreshInv /\ StampInv
        /\ UnansweredInv /\ CancelInv
        /\ EmitInv /\ CompletedEventTrue

-----------------------------------------------------------------------------
\* Every step keeps every variable of Orders in its type, and every started
\* call and order knows its process.
LEMMA TypeStep == TypeInv /\ [Next]_vars => TypeInv'
<1> SUFFICES ASSUME TypeInv, [Next]_vars PROVE TypeInv'
    OBVIOUS
<1> USE OrdersAssumption DEF TypeInv, StartedInv, TypeOK, Row, CreateStates,
        PayStates, CallStates, Request, Event, EventTypes, Statuses, Procs,
        calls, Goto
<1>1. ASSUME NEW p \in OrderProcs, NEW o \in Orders, CreateOrder(p, o)
      PROVE  TypeInv'
    BY <1>1 DEF CreateOrder
<1>11. ASSUME NEW p \in OrderProcs, NEW o \in Orders, CreateOrderFails(p, o)
       PROVE  TypeInv'
    <2>1. CASE UNCHANGED row
        BY <1>11, <2>1 DEF CreateOrderFails, Fault
    <2>2. CASE row' = [row EXCEPT ![o] = [status |-> "pending",
                                          completedAt |-> FALSE]]
        BY <1>11, <2>2 DEF CreateOrderFails, Fault
    <2> QED BY <1>11, <2>1, <2>2 DEF CreateOrderFails
<1>2. ASSUME NEW o \in Orders, CreateStep(o) PROVE TypeInv'
    <2>1. CASE StartPayment(o)
        BY <2>1 DEF StartPayment, Emit
    <2>2. CASE MarkProcessing(o)
        BY <2>2 DEF MarkProcessing, WriteRow, Merged
    <2>3. CASE MarkProcessingFails(o)
        BY <2>3 DEF MarkProcessingFails, WriteRow, Merged, Fault
    <2>4. CASE ReadBack(o)
        BY <2>4 DEF ReadBack, Emit
    <2>5. CASE ReadBackFails(o)
        BY <2>5 DEF ReadBackFails, Fault
    <2>6. CASE MarkFailed(o)
        BY <2>6 DEF MarkFailed, WriteRow, Merged
    <2>7. CASE MarkFailedFails(o)
        BY <2>7 DEF MarkFailedFails, WriteRow, Merged, Fault
    <2>8. CASE EmitFailed(o)
        BY <2>8 DEF EmitFailed, Emit
    <2>9. CASE EmitFailedFails(o)
        BY <2>9 DEF EmitFailedFails, Fault
    <2> QED BY <1>2, <2>1, <2>2, <2>3, <2>4, <2>5, <2>6, <2>7, <2>8, <2>9
            DEF CreateStep
<1>3. ASSUME NEW o \in Orders, AutoConfirm(o) PROVE TypeInv'
    BY <1>3 DEF AutoConfirm
<1>4. ASSUME NEW o \in Orders, ManualConfirm(o) PROVE TypeInv'
    BY <1>4 DEF ManualConfirm
<1>5. ASSUME NEW p \in OrderProcs, Cleanup(p) PROVE TypeInv'
    BY <1>5 DEF Cleanup
<1>6. ASSUME NEW c \in Calls, NEW p \in ApiProcs, NEW o \in Orders,
             NEW s \in WebhookStatuses, Webhook(c, p, o, s)
      PROVE  TypeInv'
    BY <1>6 DEF Webhook
<1>7. ASSUME NEW c \in Calls, NEW p \in ApiProcs, NEW o \in Orders,
             Cancel(c, p, o)
      PROVE  TypeInv'
    BY <1>7 DEF Cancel
<1>8. ASSUME NEW c \in Calls, CallStep(c) PROVE TypeInv'
    <2>1. CASE CheckCancel(c)
        BY <2>1 DEF CheckCancel
    <2>2. CASE CancelPayment(c)
        BY <2>2 DEF CancelPayment
    <2>3. CASE RefuseCancel(c)
        BY <2>3 DEF RefuseCancel
    <2>4. CASE UpdateState(c)
        BY <2>4 DEF UpdateState, WriteRow, Merged
    <2>5. CASE UpdateStateNotFound(c)
        BY <2>5 DEF UpdateStateNotFound
    <2>6. CASE Reread(c)
        BY <2>6 DEF Reread
    <2>7. CASE EmitUpdate(c)
        BY <2>7 DEF EmitUpdate, Emit, EventOf
    <2>8. CASE CallFails(c)
        BY <2>8 DEF CallFails, Fault
    <2>9. CASE UpdateUnanswered(c)
        BY <2>9 DEF UpdateUnanswered, WriteRow, Merged, Fault
    <2> QED BY <1>8, <2>1, <2>2, <2>3, <2>4, <2>5, <2>6, <2>7, <2>8, <2>9
            DEF CallStep
<1>9. ASSUME NEW p \in Procs, Crash(p) PROVE TypeInv'
    BY <1>9 DEF Crash, Fault, Creating, Serving
<1>10. CASE UNCHANGED vars
    BY <1>10 DEF vars
<1> QED BY <1>1, <1>2, <1>3, <1>4, <1>5, <1>6, <1>7, <1>8, <1>9, <1>10, <1>11
        DEF Next

-----------------------------------------------------------------------------
\* What a step may do, variable by variable: the facts about Next the other
\* lemmas rest on.  A row changes only by createOrder or by a merge into an
\* existing row, and a merge never clears completedAt.
LEMMA RowStep ==
    ASSUME TypeInv, FreshInv, [Next]_vars, NEW o \in Orders
    PROVE  /\ row[o].completedAt => row'[o].completedAt
           /\ row'[o].status = "completed" =>
                row[o].status = "completed" \/ row'[o].completedAt
           /\ create'[o] = "idle" => create[o] = "idle" /\ row'[o] = row[o]
<1> USE DEF TypeInv, StartedInv, TypeOK, FreshInv, Row
<1>1. CASE \E p \in OrderProcs, x \in Orders :
              CreateOrder(p, x) \/ CreateOrderFails(p, x)
    BY <1>1 DEF CreateOrder, CreateOrderFails
<1>2. CASE \E x \in Orders : CreateStep(x)
    <2> PICK x \in Orders : CreateStep(x) BY <1>2
    <2>1. CASE StartPayment(x) \/ ReadBack(x) \/ ReadBackFails(x)
               \/ EmitFailed(x) \/ EmitFailedFails(x)
        BY <2>1 DEF StartPayment, ReadBack, ReadBackFails, EmitFailed,
                    EmitFailedFails
    <2>2. CASE MarkProcessing(x) \/ MarkProcessingFails(x)
        BY <2>2 DEF MarkProcessing, MarkProcessingFails, WriteRow, Merged
    <2>3. CASE MarkFailed(x) \/ MarkFailedFails(x)
        BY <2>3 DEF MarkFailed, MarkFailedFails, WriteRow, Merged
    <2> QED BY <2>1, <2>2, <2>3 DEF CreateStep
<1>3. CASE \E x \in Orders : AutoConfirm(x) \/ ManualConfirm(x)
    BY <1>3 DEF AutoConfirm, ManualConfirm
<1>4. CASE \E p \in OrderProcs : Cleanup(p)
    BY <1>4 DEF Cleanup
<1>5. CASE \E c \in Calls, p \in ApiProcs, x \in Orders, s \in WebhookStatuses :
              Webhook(c, p, x, s)
    BY <1>5 DEF Webhook
<1>6. CASE \E c \in Calls, p \in ApiProcs, x \in Orders : Cancel(c, p, x)
    BY <1>6 DEF Cancel
<1>7. CASE \E c \in Calls : CallStep(c)
    <2> PICK c \in Calls : CallStep(c) BY <1>7
    <2>1. CASE UpdateState(c)
        BY <2>1 DEF UpdateState, WriteRow, Merged
    <2>3. CASE UpdateUnanswered(c)
        BY <2>3 DEF UpdateUnanswered, WriteRow, Merged
    <2>2. CASE CheckCancel(c) \/ CancelPayment(c) \/ RefuseCancel(c)
               \/ UpdateStateNotFound(c) \/ Reread(c) \/ EmitUpdate(c)
               \/ CallFails(c)
        BY <2>2 DEF CheckCancel, CancelPayment, RefuseCancel,
                    UpdateStateNotFound, Reread, EmitUpdate, CallFails
    <2> QED BY <2>1, <2>2, <2>3 DEF CallStep
<1>8. CASE \E p \in Procs : Crash(p)
    BY <1>8 DEF Crash, Creating
<1>9. CASE UNCHANGED vars
    BY <1>9 DEF vars
<1> QED BY <1>1, <1>2, <1>3, <1>4, <1>5, <1>6, <1>7, <1>8, <1>9 DEF Next

\* A payment comes into being pending, with createOrder past `created`; a
\* paid one only gets lost with its process; a settled one never becomes
\* pending again, and only a new payment gets a timer.
LEMMA PayStep ==
    ASSUME TypeInv, FreshInv, [Next]_vars, NEW o \in Orders
    PROVE  /\ pay[o] = "paid" => pay'[o] \in {"paid", "lost"}
           /\ pay[o] \notin {"none", "pending"} =>
                pay'[o] \notin {"none", "pending"}
           /\ o \in timer' => o \in timer \/ pay[o] = "none"
           /\ create'[o] \in {"idle", "created"} =>
                pay'[o] = "none" /\ o \notin timer'
           /\ create[o] # "idle" => home'[o] = home[o]
<1> USE DEF TypeInv, StartedInv, TypeOK, FreshInv, calls
<1>1. CASE \E p \in OrderProcs, x \in Orders :
              CreateOrder(p, x) \/ CreateOrderFails(p, x)
    BY <1>1 DEF CreateOrder, CreateOrderFails
<1>2. CASE \E x \in Orders : CreateStep(x)
    <2> PICK x \in Orders : CreateStep(x) BY <1>2
    <2>1. CASE StartPayment(x)
        BY <2>1 DEF StartPayment
    <2>2. CASE MarkProcessing(x) \/ MarkProcessingFails(x) \/ MarkFailed(x)
               \/ MarkFailedFails(x)
        BY <2>2 DEF MarkProcessing, MarkProcessingFails, MarkFailed,
                    MarkFailedFails
    <2>3. CASE ReadBack(x) \/ ReadBackFails(x) \/ EmitFailed(x)
               \/ EmitFailedFails(x)
        BY <2>3 DEF ReadBack, ReadBackFails, EmitFailed, EmitFailedFails
    <2> QED BY <2>1, <2>2, <2>3 DEF CreateStep
<1>3. CASE \E x \in Orders : AutoConfirm(x) \/ ManualConfirm(x)
    BY <1>3 DEF AutoConfirm, ManualConfirm
<1>4. CASE \E p \in OrderProcs : Cleanup(p)
    BY <1>4 DEF Cleanup
<1>5. CASE \E c \in Calls, p \in ApiProcs, x \in Orders, s \in WebhookStatuses :
              Webhook(c, p, x, s)
    BY <1>5 DEF Webhook
<1>6. CASE \E c \in Calls, p \in ApiProcs, x \in Orders : Cancel(c, p, x)
    BY <1>6 DEF Cancel
<1>7. CASE \E c \in Calls : CallStep(c)
    <2> PICK c \in Calls : CallStep(c) BY <1>7
    <2>1. CASE CancelPayment(c)
        BY <2>1 DEF CancelPayment, PaymentAt
    <2>2. CASE CheckCancel(c) \/ RefuseCancel(c) \/ UpdateState(c)
               \/ UpdateStateNotFound(c) \/ Reread(c) \/ EmitUpdate(c)
               \/ UpdateUnanswered(c) \/ CallFails(c)
        BY <2>2 DEF CheckCancel, RefuseCancel, UpdateState, UpdateUnanswered,
                    UpdateStateNotFound, Reread, EmitUpdate, CallFails
    <2> QED BY <2>1, <2>2 DEF CallStep
<1>8. CASE \E p \in Procs : Crash(p)
    BY <1>8 DEF Crash, Creating
<1>9. CASE UNCHANGED vars
    BY <1>9 DEF vars
<1> QED BY <1>1, <1>2, <1>3, <1>4, <1>5, <1>6, <1>7, <1>8, <1>9 DEF Next

\* Rows before createOrder and payments before createPayment stay blank, and
\* completed rows stay stamped.
LEMMA RowInvStep ==
    TypeInv /\ FreshInv /\ StampInv /\ [Next]_vars => FreshInv' /\ StampInv'
<1> SUFFICES ASSUME TypeInv, FreshInv, StampInv, [Next]_vars
             PROVE  FreshInv' /\ StampInv'
    OBVIOUS
<1>1. TypeInv'
    BY TypeStep
<1>2. FreshInv'
    BY <1>1, RowStep, PayStep DEF FreshInv
<1>3. StampInv'
    <2> SUFFICES ASSUME NEW o \in Orders, row'[o].status = "completed"
                 PROVE  row'[o].completedAt
        BY DEF StampInv
    <2> QED BY RowStep DEF StampInv
<1> QED BY <1>2, <1>3

\* What a step does to the calls: only CancelPayment takes a cancel past the
\* gateway, only the two database steps give it a returned row.
LEMMA CallsStep ==
    ASSUME TypeInv, [Next]_vars, UnansweredInv, NEW c \in Calls
    PROVE  /\ at[c] # "idle" => req'[c] = req[c]
           /\ at[c] = "idle" /\ at'[c] # "idle" =>
                at'[c] \in {"check", "write"} /\ req'[c].kind \in {"webhook", "cancel"}
                /\ (req'[c].kind = "cancel" => at'[c] = "check")
           /\ at'[c] \in {"idle", "check", "gateway", "write"} =>
                got'[c] = "absent"
           /\ Cancelling(c)' => Cancelling(c) \/ CancelPayment(c)
           /\ at'[c] \in {"reread", "emit"} =>
                \/ at'[c] = at[c] /\ got'[c] = got[c]
                \/ UpdateState(c)
                \/ Reread(c)
<1> USE DEF TypeInv, TypeOK, UnansweredInv, calls, Goto, Cancelling
<1>1. CASE \E p \in OrderProcs, x \in Orders :
              CreateOrder(p, x) \/ CreateOrderFails(p, x)
    BY <1>1 DEF CreateOrder, CreateOrderFails
<1>2. CASE \E x \in Orders : CreateStep(x)
    <2> PICK x \in Orders : CreateStep(x) BY <1>2
    <2>1. UNCHANGED calls
        BY DEF CreateStep, StartPayment, MarkProcessing, MarkProcessingFails,
               ReadBack, ReadBackFails, MarkFailed, MarkFailedFails,
               EmitFailed, EmitFailedFails
    <2> QED BY <2>1
<1>3. CASE \E x \in Orders : AutoConfirm(x) \/ ManualConfirm(x)
    BY <1>3 DEF AutoConfirm, ManualConfirm
<1>4. CASE \E p \in OrderProcs : Cleanup(p)
    BY <1>4 DEF Cleanup
<1>5. CASE \E d \in Calls, p \in ApiProcs, x \in Orders, s \in WebhookStatuses :
              Webhook(d, p, x, s)
    BY <1>5 DEF Webhook
<1>6. CASE \E d \in Calls, p \in ApiProcs, x \in Orders : Cancel(d, p, x)
    BY <1>6 DEF Cancel
<1>7. CASE \E d \in Calls : CallStep(d)
    <2> PICK d \in Calls : CallStep(d) BY <1>7
    <2>1. CASE CheckCancel(d)
        BY <2>1 DEF CheckCancel
    <2>2. CASE CancelPayment(d)
        BY <2>2 DEF CancelPayment
    <2>3. CASE UpdateState(d)
        BY <2>3 DEF UpdateState
    <2>4. CASE Reread(d)
        BY <2>4 DEF Reread
    <2>5. CASE EmitUpdate(d)
        BY <2>5 DEF EmitUpdate
    <2>6. CASE RefuseCancel(d) \/ UpdateStateNotFound(d)
               \/ UpdateUnanswered(d) \/ CallFails(d)
        BY <2>6 DEF RefuseCancel, UpdateStateNotFound, UpdateUnanswered,
                    CallFails
    <2> QED BY <2>1, <2>2, <2>3, <2>4, <2>5, <2>6 DEF CallStep
<1>8. CASE \E p \in Procs : Crash(p)
    BY <1>8 DEF Crash, Serving
<1>9. CASE UNCHANGED vars
    BY <1>9 DEF vars
<1> QED BY <1>1, <1>2, <1>3, <1>4, <1>5, <1>6, <1>7, <1>8, <1>9 DEF Next

\* A cancel past the gateway stays on its own process's settled payment.
LEMMA CancelInvStep ==
    IInv /\ [Next]_vars => CancelInv' /\ UnansweredInv'
<1> SUFFICES ASSUME IInv, [Next]_vars PROVE CancelInv' /\ UnansweredInv'
    OBVIOUS
<1> USE DEF IInv
<1>1. UnansweredInv'
    BY CallsStep DEF UnansweredInv
<1>2. ASSUME NEW c \in Calls, Cancelling(c)'
      PROVE  /\ home'[req'[c].order] = req'[c].proc
             /\ pay'[req'[c].order] \notin {"none", "pending"}
             /\ req'[c].order \notin timer'
    <2>1. CASE Cancelling(c)
        <3>1. at[c] # "idle" /\ req'[c] = req[c] /\ req[c].order \in Orders
            BY <2>1, CallsStep DEF Cancelling, TypeInv, StartedInv
        <3>2. /\ home[req[c].order] = req[c].proc
              /\ pay[req[c].order] \notin {"none", "pending"}
              /\ req[c].order \notin timer
            BY <2>1 DEF CancelInv
        <3>3. create[req[c].order] # "idle"
            BY <3>1, <3>2 DEF FreshInv
        <3> QED BY <3>1, <3>2, <3>3, PayStep
    <2>2. CASE CancelPayment(c)
        <3>1. req[c].order \in Orders
            BY <2>2 DEF CancelPayment, TypeInv, StartedInv
        <3> QED BY <2>2, <3>1 DEF CancelPayment, PaymentAt, TypeInv, TypeOK
    <2> QED BY <1>2, <2>1, <2>2, CallsStep
<1> QED BY <1>1, <1>2 DEF CancelInv

\* What is about to be announced as completed stays stamped.
LEMMA EmitInvStep == IInv /\ [Next]_vars => EmitInv'
<1> SUFFICES ASSUME IInv, [Next]_vars,
                    NEW c \in Calls, at'[c] \in {"reread", "emit"},
                    got'[c] = "completed"
             PROVE  row'[req'[c].order].completedAt
    BY DEF EmitInv
<1> USE DEF IInv
<1>1. CASE at'[c] = at[c] /\ got'[c] = got[c]
    <2>1. req'[c] = req[c] /\ req[c].order \in Orders
        BY <1>1, CallsStep DEF TypeInv, StartedInv
    <2>2. row[req[c].order].completedAt
        BY <1>1 DEF EmitInv
    <2> QED BY <2>1, <2>2, RowStep
<1>2. CASE UpdateState(c)
    <2>1. req'[c] = req[c] /\ req[c].order \in Orders
        BY <1>2, CallsStep DEF UpdateState, TypeInv, StartedInv
    <2>2. req[c].want = "completed"
        BY <1>2 DEF UpdateState, TypeInv, TypeOK
    <2> QED BY <1>2, <2>1, <2>2 DEF UpdateState, WriteRow, Merged, TypeInv,
               TypeOK
<1>3. CASE Reread(c)
    <2>1. req'[c] = req[c] /\ req[c].order \in Orders
        BY <1>3, CallsStep DEF Reread, TypeInv, StartedInv
    <2>2. row[req[c].order].status = "completed" /\ row' = row
        BY <1>3 DEF Reread, TypeInv, TypeOK
    <2> QED BY <2>1, <2>2 DEF StampInv
<1> QED BY <1>1, <1>2, <1>3, CallsStep

\* The events: a new transaction_completed comes from EmitUpdate only.
LEMMA EventStep ==
    ASSUME TypeInv, [Next]_vars, NEW e \in events', e \notin events,
           e.type = "transaction_completed"
    PROVE  \E c \in Calls : /\ at[c] = "emit"
                            /\ got[c] = "completed"
                            /\ e.order = req[c].order
<1> USE DEF TypeInv, TypeOK, calls
<1>1. CASE \E x \in Orders : CreateStep(x)
    <2> PICK x \in Orders : CreateStep(x) BY <1>1
    <2>1. CASE StartPayment(x) \/ ReadBack(x) \/ EmitFailed(x)
        BY <2>1 DEF StartPayment, ReadBack, EmitFailed, Emit
    <2>2. CASE MarkProcessing(x) \/ MarkProcessingFails(x) \/ ReadBackFails(x)
               \/ MarkFailed(x) \/ MarkFailedFails(x) \/ EmitFailedFails(x)
        BY <2>2 DEF MarkProcessing, MarkProcessingFails, ReadBackFails,
                    MarkFailed, MarkFailedFails, EmitFailedFails
    <2> QED BY <2>1, <2>2 DEF CreateStep
<1>2. CASE \E c \in Calls : CallStep(c)
    <2> PICK c \in Calls : CallStep(c) BY <1>2
    <2>1. CASE EmitUpdate(c)
        BY <2>1 DEF EmitUpdate, Emit, EventOf
    <2>2. CASE CheckCancel(c) \/ CancelPayment(c) \/ RefuseCancel(c)
               \/ UpdateState(c) \/ UpdateStateNotFound(c) \/ Reread(c)
               \/ UpdateUnanswered(c) \/ CallFails(c)
        BY <2>2 DEF CheckCancel, CancelPayment, RefuseCancel, UpdateState,
                    UpdateStateNotFound, Reread, UpdateUnanswered, CallFails
    <2> QED BY <2>1, <2>2 DEF CallStep
<1>3. CASE \E p \in OrderProcs, x \in Orders :
              CreateOrder(p, x) \/ CreateOrderFails(p, x)
    BY <1>3 DEF CreateOrder, CreateOrderFails
<1>4. CASE \E x \in Orders : AutoConfirm(x) \/ ManualConfirm(x)
    BY <1>4 DEF AutoConfirm, ManualConfirm
<1>5. CASE \E p \in OrderProcs : Cleanup(p)
    BY <1>5 DEF Cleanup
<1>6. CASE \/ \E c \in Calls, p \in ApiProcs, x \in Orders,
                 s \in WebhookStatuses : Webhook(c, p, x, s)
           \/ \E c \in Calls, p \in ApiProcs, x \in Orders : Cancel(c, p, x)
    BY <1>6 DEF Webhook, Cancel
<1>7. CASE \E p \in Procs : Crash(p)
    BY <1>7 DEF Crash
<1>8. CASE UNCHANGED vars
    BY <1>8 DEF vars
<1> QED BY <1>1, <1>2, <1>3, <1>4, <1>5, <1>6, <1>7, <1>8 DEF Next

\* An announced completion stays stamped, and a new one was.
LEMMA CompletedEventStep == IInv /\ [Next]_vars => CompletedEventTrue'
<1> SUFFICES ASSUME IInv, [Next]_vars, NEW e \in events',
                    e.type = "transaction_completed"
             PROVE  row'[e.order].completedAt
    BY DEF CompletedEventTrue
<1> USE DEF IInv
<1>1. row[e.order].completedAt /\ e.order \in Orders
    <2>1. CASE e \in events
        BY <2>1 DEF CompletedEventTrue, TypeInv, TypeOK, Event
    <2>2. CASE e \notin events
        BY <2>2, EventStep DEF EmitInv, TypeInv, StartedInv
    <2> QED BY <2>1, <2>2
<1> QED BY <1>1, RowStep

-----------------------------------------------------------------------------
\* IInv is an invariant of Orders.
THEOREM Invariance == Spec => []IInv
<1>1. Init => IInv
    BY OrdersAssumption
       DEF Init, IInv, TypeInv, StartedInv, TypeOK, FreshInv, StampInv,
           UnansweredInv, CancelInv, EmitInv, CompletedEventTrue, Cancelling,
           Row, CreateStates, PayStates, CallStates, Request, Statuses, Event
<1>2. IInv /\ [Next]_vars => IInv'
    BY TypeStep, RowInvStep, CancelInvStep, EmitInvStep, CompletedEventStep
       DEF IInv
<1> QED BY <1>1, <1>2, PTL DEF Spec

\* The variables of Orders keep their types: no write of the engine, of the
\* gateway or of a driver leaves their range.
THEOREM TypeCorrect == Spec => []TypeOK
<1>1. IInv => TypeOK
    BY DEF IInv, TypeInv
<1> QED BY <1>1, Invariance, PTL

\* After cancelPayment no timer and no pending payment is left for the order.
THEOREM CancelSettles == Spec => []CancelSettlesPayment
<1>1. IInv => CancelSettlesPayment
    BY DEF IInv, CancelInv, CancelSettlesPayment
<1> QED BY <1>1, Invariance, PTL

\* A cancel gets past the gateway only in the process that made the payment.
THEOREM CancelIsLocal == Spec => []RemoteCancelRefused
<1>1. IInv => RemoteCancelRefused
    BY DEF IInv, CancelInv, RemoteCancelRefused
<1> QED BY <1>1, Invariance, PTL

\* As deployed by scripts/start.ts, where no process that makes orders serves
\* the API, POST /:orderId/cancel never gets as far as writing a row.
THEOREM DeployedCancelNeverWrites ==
    ASSUME OrderProcs \cap ApiProcs = {}
    PROVE  Spec => [](\A c \in Calls : ~Cancelling(c))
<1>1. IInv => \A c \in Calls : ~Cancelling(c)
    <2> SUFFICES ASSUME IInv, NEW c \in Calls, Cancelling(c) PROVE FALSE
        OBVIOUS
    <2> USE DEF IInv
    <2>1. at[c] # "idle"
        BY DEF Cancelling
    <2>2. req[c].order \in Orders /\ req[c].proc \in ApiProcs
        BY <2>1 DEF TypeInv, StartedInv
    <2>3. home[req[c].order] = req[c].proc /\ pay[req[c].order] # "none"
        BY DEF CancelInv
    <2>4. home[req[c].order] \in OrderProcs
        BY <2>2, <2>3 DEF FreshInv, TypeInv, StartedInv
    <2> QED BY <2>2, <2>3, <2>4
<1> QED BY <1>1, Invariance, PTL

\* transaction_completed is only ever announced for a stamped order.
THEOREM CompletedEventsTrue == Spec => []CompletedEventTrue
<1>1. IInv => CompletedEventTrue
    BY DEF IInv
<1> QED BY <1>1, Invariance, PTL

\* completedAt is never cleared.
THEOREM CompletionIsKept == Spec => CompletionKept
<1>1. IInv /\ [Next]_vars =>
        [\A o \in Orders : row[o].completedAt => row'[o].completedAt]_vars
    BY RowStep DEF IInv
<1> QED BY <1>1, Invariance, PTL DEF Spec, CompletionKept

\* A paid payment stays paid until its process is gone.
THEOREM PaidIsKept == Spec => PaidNeverExpired
<1>1. IInv /\ [Next]_vars =>
        [\A o \in Orders : pay[o] = "paid" => pay'[o] \in {"paid", "lost"}]_vars
    BY PayStep DEF IInv
<1> QED BY <1>1, Invariance, PTL DEF Spec, PaidNeverExpired
-----------------------------------------------------------------------------
(* What the calls promise about the orders they answer for.                *)

\* A call not yet made asks for nothing; a cancel asks for `cancelled`; only
\* a cancel passes by the check and the gateway.
AskInv ==
    \A c \in Calls :
        /\ at[c] = "idle" => req[c].kind = "none"
        /\ req[c].kind = "cancel" => req[c].want = "cancelled"
        /\ at[c] \in {"check", "gateway"} => req[c].kind = "cancel"

\* json and mongodb hand back the row they wrote: there is no second read,
\* and a call that is about to announce announces what it was asked for.
AnswerInv ==
    driver # "mysql" =>
        \A c \in Calls : /\ at[c] # "reread"
                         /\ at[c] = "emit" => got[c] = req[c].want

PromiseInv == /\ AskInv /\ AnswerInv
              /\ PendingExplained /\ CompletionAnnounced

\* A call keeps what it was asked once it runs; it starts as a webhook about
\* to write or as a cancel about to check; and it is answered by the cancel
\* check, by the event of an update, or not at all.
LEMMA AskStep ==
    ASSUME TypeInv, [Next]_vars, NEW c \in Calls
    PROVE  /\ at[c] # "idle" => req'[c] = req[c] /\ at'[c] # "idle"
           /\ at[c] = "idle" /\ at'[c] = "idle" => req'[c] = req[c]
           /\ at[c] = "idle" /\ at'[c] # "idle" =>
                \/ at'[c] = "check" /\ req'[c].kind = "cancel"
                                    /\ req'[c].want = "cancelled"
                \/ at'[c] = "write" /\ req'[c].kind = "webhook"
           /\ at'[c] \in {"check", "gateway"} => at[c] \in {"idle", "check", "gateway"}
           /\ at'[c] = "reread" => at[c] = "reread" \/ UpdateState(c)
           /\ at'[c] = "emit" =>
                \/ at[c] = "emit" /\ got'[c] = got[c]
                \/ UpdateState(c)
                \/ at[c] = "reread"
           /\ at'[c] = "returned" =>
                at[c] \in {"returned", "check"} \/ EmitUpdate(c)
<1> USE DEF TypeInv, TypeOK, calls, Goto
<1>1. CASE \E p \in OrderProcs, x \in Orders :
              CreateOrder(p, x) \/ CreateOrderFails(p, x)
    BY <1>1 DEF CreateOrder, CreateOrderFails
<1>2. CASE \E x \in Orders : CreateStep(x)
    <2> PICK x \in Orders : CreateStep(x) BY <1>2
    <2>1. UNCHANGED calls
        BY DEF CreateStep, StartPayment, MarkProcessing, MarkProcessingFails,
               ReadBack, ReadBackFails, MarkFailed, MarkFailedFails,
               EmitFailed, EmitFailedFails
    <2> QED BY <2>1
<1>3. CASE \E x \in Orders : AutoConfirm(x) \/ ManualConfirm(x)
    BY <1>3 DEF AutoConfirm, ManualConfirm
<1>4. CASE \E p \in OrderProcs : Cleanup(p)
    BY <1>4 DEF Cleanup
<1>5. CASE \E d \in Calls, p \in ApiProcs, x \in Orders, s \in WebhookStatuses :
              Webhook(d, p, x, s)
    BY <1>5 DEF Webhook
<1>6. CASE \E d \in Calls, p \in ApiProcs, x \in Orders : Cancel(d, p, x)
    BY <1>6 DEF Cancel
<1>7. CASE \E d \in Calls : CallStep(d)
    <2> PICK d \in Calls : CallStep(d) BY <1>7
    <2>1. CASE CheckCancel(d)
        BY <2>1 DEF CheckCancel
    <2>2. CASE CancelPayment(d)
        BY <2>2 DEF CancelPayment
    <2>3. CASE UpdateState(d)
        BY <2>3 DEF UpdateState
    <2>4. CASE Reread(d)
        BY <2>4 DEF Reread
    <2>5. CASE EmitUpdate(d)
        BY <2>5 DEF EmitUpdate
    <2>6. CASE RefuseCancel(d) \/ UpdateStateNotFound(d)
               \/ UpdateUnanswered(d) \/ CallFails(d)
        BY <2>6 DEF RefuseCancel, UpdateStateNotFound, UpdateUnanswered,
                    CallFails
    <2> QED BY <2>1, <2>2, <2>3, <2>4, <2>5, <2>6 DEF CallStep
<1>8. CASE \E p \in Procs : Crash(p)
    BY <1>8 DEF Crash, Serving
<1>9. CASE UNCHANGED vars
    BY <1>9 DEF vars
<1> QED BY <1>1, <1>2, <1>3, <1>4, <1>5, <1>6, <1>7, <1>8, <1>9 DEF Next

\* A row is pending after a step because createOrder just wrote it, because a
\* webhook said so, or because it was; and createOrder leaves a pending row
\* behind only through a fault that ends it.
LEMMA PendingStep ==
    ASSUME TypeInv, [Next]_vars, NEW o \in Orders, row'[o].status = "pending"
    PROVE  \/ create'[o] = "created"
           \/ create'[o] = "threw" /\ faults' > 0
           \/ \E c \in Calls : /\ UpdateState(c) \/ UpdateUnanswered(c)
                               /\ req[c].order = o
                               /\ req[c].want = "pending"
           \/ /\ row[o].status = "pending"
              /\ create[o] \in {"created", "marking"} =>
                   \/ create'[o] \in {"created", "marking"}
                   \/ create'[o] \in {"failing", "crashed"} /\ faults' > 0
              /\ create[o] \in {"failing", "threw", "crashed"} =>
                   create'[o] \in {"failing", "threw", "crashed"}
<1> USE OrdersAssumption DEF TypeInv, TypeOK, Row, Fault
<1>1. CASE \E p \in OrderProcs, x \in Orders :
              CreateOrder(p, x) \/ CreateOrderFails(p, x)
    BY <1>1 DEF CreateOrder, CreateOrderFails
<1>2. CASE \E x \in Orders : CreateStep(x)
    <2> PICK x \in Orders : CreateStep(x) BY <1>2
    <2>1. CASE StartPayment(x) \/ ReadBack(x) \/ ReadBackFails(x)
               \/ EmitFailed(x) \/ EmitFailedFails(x)
        BY <2>1 DEF StartPayment, ReadBack, ReadBackFails, EmitFailed,
                    EmitFailedFails
    <2>2. CASE MarkProcessing(x) \/ MarkProcessingFails(x)
        BY <2>2 DEF MarkProcessing, MarkProcessingFails, WriteRow, Merged
    <2>3. CASE MarkFailed(x) \/ MarkFailedFails(x)
        BY <2>3 DEF MarkFailed, MarkFailedFails, WriteRow, Merged
    <2> QED BY <2>1, <2>2, <2>3 DEF CreateStep
<1>3. CASE \E x \in Orders : AutoConfirm(x) \/ ManualConfirm(x)
    BY <1>3 DEF AutoConfirm, ManualConfirm
<1>4. CASE \E p \in OrderProcs : Cleanup(p)
    BY <1>4 DEF Cleanup
<1>5. CASE \E c \in Calls, p \in ApiProcs, x \in Orders, s \in WebhookStatuses :
              Webhook(c, p, x, s)
    BY <1>5 DEF Webhook
<1>6. CASE \E c \in Calls, p \in ApiProcs, x \in Orders : Cancel(c, p, x)
    BY <1>6 DEF Cancel
<1>7. CASE \E c \in Calls : CallStep(c)
    <2> PICK c \in Calls : CallStep(c) BY <1>7
    <2>1. CASE UpdateState(c) \/ UpdateUnanswered(c)
        <3>1. CASE req[c].order = o
            <4>1. row'[o].status = req[c].want
                BY <2>1, <3>1 DEF UpdateState, UpdateUnanswered, WriteRow,
                                  Merged
            <4> QED BY <2>1, <3>1, <4>1
        <3>2. CASE req[c].order # o
            BY <2>1, <3>2 DEF UpdateState, UpdateUnanswered, WriteRow, Merged
        <3> QED BY <3>1, <3>2
    <2>2. CASE CheckCancel(c) \/ CancelPayment(c) \/ RefuseCancel(c)
               \/ UpdateStateNotFound(c) \/ Reread(c) \/ EmitUpdate(c)
               \/ CallFails(c)
        BY <2>2 DEF CheckCancel, CancelPayment, RefuseCancel,
                    UpdateStateNotFound, Reread, EmitUpdate, CallFails
    <2> QED BY <2>1, <2>2 DEF CallStep
<1>8. CASE \E p \in Procs : Crash(p)
    BY <1>8 DEF Crash, Creating
<1>9. CASE UNCHANGED vars
    BY <1>9 DEF vars
<1> QED BY <1>1, <1>2, <1>3, <1>4, <1>5, <1>6, <1>7, <1>8, <1>9 DEF Next

\* Nothing takes back a fault, an event or the choice of the driver.
LEMMA HistoryStep ==
    ASSUME TypeInv, [Next]_vars
    PROVE  /\ faults > 0 => faults' > 0
           /\ events \subseteq events'
           /\ driver' = driver
<1> USE OrdersAssumption DEF TypeInv, TypeOK, Fault, Emit
<1>1. CASE \E x \in Orders : CreateStep(x)
    BY <1>1 DEF CreateStep, StartPayment, MarkProcessing, MarkProcessingFails,
           ReadBack, ReadBackFails, MarkFailed, MarkFailedFails, EmitFailed,
           EmitFailedFails
<1>2. CASE \E c \in Calls : CallStep(c)
    BY <1>2 DEF CallStep, CheckCancel, CancelPayment, RefuseCancel,
           UpdateState, UpdateStateNotFound, Reread, EmitUpdate,
           UpdateUnanswered, CallFails
<1>3. CASE \E p \in OrderProcs, x \in Orders :
              CreateOrder(p, x) \/ CreateOrderFails(p, x)
    BY <1>3 DEF CreateOrder, CreateOrderFails
<1>4. CASE \/ \E x \in Orders : AutoConfirm(x) \/ ManualConfirm(x)
           \/ \E p \in OrderProcs : Cleanup(p)
    BY <1>4 DEF AutoConfirm, ManualConfirm, Cleanup
<1>5. CASE \/ \E c \in Calls, p \in ApiProcs, x \in Orders,
                 s \in WebhookStatuses : Webhook(c, p, x, s)
           \/ \E c \in Calls, p \in ApiProcs, x \in Orders : Cancel(c, p, x)
    BY <1>5 DEF Webhook, Cancel
<1>6. CASE \E p \in Procs : Crash(p)
    BY <1>6 DEF Crash
<1>7. CASE UNCHANGED vars
    BY <1>7 DEF vars
<1> QED BY <1>1, <1>2, <1>3, <1>4, <1>5, <1>6, <1>7 DEF Next

\* The promises are kept by every step.
LEMMA PromiseStep ==
    TypeInv /\ PromiseInv /\ [Next]_vars => PromiseInv'
<1> SUFFICES ASSUME TypeInv, PromiseInv, [Next]_vars PROVE PromiseInv'
    OBVIOUS
<1> USE DEF PromiseInv
<1>1. AskInv'
    <2> SUFFICES ASSUME NEW c \in Calls
                 PROVE  /\ at'[c] = "idle" => req'[c].kind = "none"
                        /\ req'[c].kind = "cancel" => req'[c].want = "cancelled"
                        /\ at'[c] \in {"check", "gateway"} =>
                             req'[c].kind = "cancel"
        BY DEF AskInv
    <2> QED BY AskStep DEF AskInv
<1>2. AnswerInv'
    <2> SUFFICES ASSUME driver' # "mysql", NEW c \in Calls
                 PROVE  /\ at'[c] # "reread"
                        /\ at'[c] = "emit" => got'[c] = req'[c].want
        BY DEF AnswerInv
    <2>1. driver # "mysql" /\ driver' = driver
        BY HistoryStep
    <2>2. at[c] # "reread" /\ (at[c] = "emit" => got[c] = req[c].want)
        BY <2>1 DEF AnswerInv
    <2>3. UpdateState(c) => /\ at[c] = "write" /\ at'[c] = "emit"
                            /\ got'[c] = req[c].want
        BY <2>1 DEF UpdateState, Goto, TypeInv, TypeOK
    <2> QED BY <2>1, <2>2, <2>3, AskStep
<1>3. PendingExplained'
    <2> SUFFICES ASSUME NEW o \in Orders, row'[o].status = "pending"
                 PROVE  \/ create'[o] \in {"created", "marking"}
                        \/ create'[o] \in {"failing", "threw", "crashed"}
                           /\ faults' > 0
                        \/ \E c \in Calls : /\ req'[c].order = o
                                            /\ req'[c].kind = "webhook"
                                            /\ req'[c].want = "pending"
        BY DEF PendingExplained
    <2>1. ASSUME NEW c \in Calls, UpdateState(c) \/ UpdateUnanswered(c),
                 req[c].want = "pending"
          PROVE  req[c].kind = "webhook" /\ at[c] # "idle"
        BY <2>1 DEF UpdateState, UpdateUnanswered, AskInv, TypeInv, StartedInv
    <2>2. ASSUME NEW c \in Calls, req[c].kind = "webhook" PROVE at[c] # "idle"
        BY <2>2 DEF AskInv
    <2>3. \A c \in Calls : at[c] # "idle" => req'[c] = req[c]
        BY AskStep
    <2>4. CASE \E c \in Calls : /\ UpdateState(c) \/ UpdateUnanswered(c)
                                /\ req[c].order = o
                                /\ req[c].want = "pending"
        BY <2>1, <2>3, <2>4
    <2>5. CASE row[o].status = "pending" /\ create[o] \in {"created", "marking"}
        BY <2>4, <2>5, PendingStep
    <2>6. CASE row[o].status = "pending" /\ create[o] \notin {"created", "marking"}
        BY <2>2, <2>3, <2>4, <2>6, PendingStep, HistoryStep
           DEF PendingExplained
    <2> QED BY <2>4, <2>5, <2>6, PendingStep
<1>4. CompletionAnnounced'
    <2> SUFFICES ASSUME driver' # "mysql", NEW c \in Calls,
                        at'[c] = "returned", req'[c].want = "completed"
                 PROVE  \E e \in events' : e.type = "transaction_completed"
                                           /\ e.order = req'[c].order
        BY DEF CompletionAnnounced
    <2>1. driver # "mysql" /\ events \subseteq events'
        BY HistoryStep
    <2>2. CASE at[c] = "returned"
        BY <2>1, <2>2, AskStep DEF CompletionAnnounced
    <2>3. at[c] # "check"
        BY AskStep DEF AskInv
    <2>4. CASE EmitUpdate(c)
        <3>1. got[c] = "completed" /\ req'[c] = req[c]
            BY <2>1, <2>4 DEF EmitUpdate, AnswerInv
        <3> DEFINE told == [type |-> "transaction_completed",
                            order |-> req[c].order, proc |-> req[c].proc,
                            status |-> "completed"]
        <3>2. told \in events'
            BY <2>4, <3>1 DEF EmitUpdate, Emit, EventOf
        <3> QED BY <3>1, <3>2
    <2> QED BY <2>2, <2>3, <2>4, AskStep
<1> QED BY <1>1, <1>2, <1>3, <1>4

\* The promises hold in every reachable state.
THEOREM PromisesHold == Spec => []PromiseInv
<1>1. Init => PromiseInv
    BY DEF Init, PromiseInv, AskInv, AnswerInv, PendingExplained,
           CompletionAnnounced
<1>2. IInv /\ PromiseInv /\ [Next]_vars => PromiseInv'
    BY PromiseStep DEF IInv
<1> QED BY <1>1, <1>2, Invariance, PTL DEF Spec

\* An order stays pending only behind a createOrder that a fault has ended, or
\* because a webhook said so.
THEOREM PendingIsExplained == Spec => []PendingExplained
<1>1. PromiseInv => PendingExplained
    BY DEF PromiseInv
<1> QED BY <1>1, PromisesHold, PTL

\* A webhook that completed an order and was answered has announced it, on
\* every driver that hands back the row it wrote.
THEOREM CompletionIsAnnounced == Spec => []CompletionAnnounced
<1>1. PromiseInv => CompletionAnnounced
    BY DEF PromiseInv
<1> QED BY <1>1, PromisesHold, PTL
=============================================================================
