------------------------------- MODULE Orders -------------------------------
(***************************************************************************)
(* The life of a store order: TransactionEngine over the transaction rows  *)
(* of the DAL and the in-memory MockGateway of the process that created    *)
(* the payment.                                                            *)
(*                                                                         *)
(* scripts/start.ts runs the bot, the website, the API and the socket      *)
(* server as separate operating-system processes.  Each one imports its    *)
(* own TransactionEngine and its own MockGateway; only the rows are        *)
(* shared.  Every `await` of the code is a point where another call, of    *)
(* this process or of another, may run: an action below is the code        *)
(* between two such points.                                                *)
(*                                                                         *)
(* Validation that throws before anything is written (unknown user or      *)
(* product, wrong amount, malformed payload) changes no state and is not   *)
(* modelled.  A row has the fields the properties tell apart: its status   *)
(* and whether completedAt is set.  Rows are never deleted.                *)
(***************************************************************************)
EXTENDS Naturals

CONSTANTS
    Orders,           \* the order ids createOrder draws (one call each)
    Calls,            \* webhook and cancel requests, one each
    OrderProcs,       \* processes that call createOrder: bot, website
    ApiProcs,         \* processes that serve webhooks and cancels: API
    ListenProcs,      \* processes whose engine has an onEvent callback
    NoProc,           \* "no process yet"
    NoOrder,          \* "no order yet"
    WebhookStatuses,  \* statuses a webhook may carry
    Drivers,          \* database drivers config.database.driver may name
    AutoConfirmOn,    \* mock.enabled and autoConfirmDelay > 0
    MaxFaults         \* bound on crashes plus database errors

Procs == OrderProcs \cup ApiProcs

Statuses == {"pending", "processing", "completed", "failed", "cancelled"}

ASSUME OrdersAssumption ==
    /\ NoProc \notin Procs
    /\ NoOrder \notin Orders
    /\ WebhookStatuses \subseteq Statuses
    /\ Drivers \subseteq {"json", "mongodb", "mysql"}
    /\ AutoConfirmOn \in BOOLEAN
    /\ MaxFaults \in Nat

VARIABLES
    driver,   \* the driver the deployment is configured with
    row,      \* the transaction row of each order
    home,     \* the process whose createOrder made the order
    create,   \* where the order's createOrder call stands
    pay,      \* the order's payment in the gateway of its home process
    timer,    \* orders with an entry in autoConfirmTimers
    req,      \* what each webhook or cancel call was asked
    at,       \* where each call stands
    got,      \* the status of the row the driver returned to each call
    events,   \* the TransactionEvents emitted so far
    faults    \* crashes and database errors so far

vars == <<driver, row, home, create, pay, timer, req, at, got, events, faults>>

calls == <<req, at, got>>

Row == [status : Statuses \cup {"absent"}, completedAt : BOOLEAN]

\* createOrder between its awaits, and how it ended
CreateStates == {"idle", "created", "marking", "reading", "failing",
                 "failreading", "returned", "threw", "crashed"}
Creating == {"created", "marking", "reading", "failing", "failreading"}

PayStates == {"none", "pending", "paid", "expired", "lost"}

CallStates == {"idle", "check", "gateway", "write", "reread", "emit",
               "returned", "threw", "crashed"}
Serving == {"check", "gateway", "write", "reread", "emit"}

Request == [kind : {"none", "webhook", "cancel"},
            proc : ApiProcs \cup {NoProc}, order : Orders \cup {NoOrder},
            want : Statuses]

EventTypes == {"transaction_created", "transaction_updated",
               "transaction_completed", "transaction_failed"}

Event == [type : EventTypes, order : Orders, proc : Procs,
          status : Statuses \cup {"absent"}]

-----------------------------------------------------------------------------
(* Mutations.  Each operator named Bug... is a plausible bug in the         *)
(* definition it stands for; Next uses none of them.  A property that no    *)
(* such bug could break would say nothing about the code.                  *)

\* updateState forgets to stamp completedAt
BugMergedUnstamped(r, s) == [r EXCEPT !.status = s]

\* the update replaces the row instead of spreading over it
BugMergedReplaced(r, s) == [status |-> s, completedAt |-> s = "completed"]

\* the completed branch of updateState's event is lost
BugEventNeverCompleted(s) ==
    IF s = "failed" THEN "transaction_failed" ELSE "transaction_updated"

\* an event type the TransactionEvent union does not have
BugEventCancelled(s) ==
    IF s = "cancelled" THEN "transaction_cancelled" ELSE "transaction_updated"

\* createOrder stores the payment link and leaves the status alone
BugMarkLinkOnly(o) ==
    /\ create[o] = "marking"
    /\ create' = [create EXCEPT ![o] = "reading"]
    /\ UNCHANGED <<driver, row, home, pay, timer, calls, events, faults>>

\* createOrder waits to see its own status before it returns
BugReadBackWaits(o) ==
    /\ create[o] = "reading"
    /\ row[o].status = "processing"
    /\ create' = [create EXCEPT ![o] = "returned"]
    /\ UNCHANGED <<driver, row, home, pay, timer, calls, events, faults>>

\* cancelPayment without clearTimeout
BugCancelKeepsTimer(c) ==
    LET o == req[c].order
    IN  /\ at[c] = "gateway"
        /\ home[o] = req[c].proc /\ pay[o] \in {"pending", "expired"}
        /\ pay' = [pay EXCEPT ![o] = "expired"]
        /\ at' = [at EXCEPT ![c] = "write"]
        /\ UNCHANGED <<driver, row, home, create, timer, req, got, events, faults>>

-----------------------------------------------------------------------------
(* What the code's helpers do to the state.                                *)

\* updateState: the row keeps every field the update does not give, and
\* completedAt is added when the update completes the order
Merged(r, s) == [status |-> s,
                 completedAt |-> r.completedAt \/ s = "completed"]

WriteRow(o, s) == row' = [row EXCEPT ![o] = Merged(row[o], s)]

Emit(t, o, p, s) ==
    events' = events \cup {[type |-> t, order |-> o, proc |-> p, status |-> s]}

\* updateState chooses the event by the status of the row the driver returned
EventOf(s) ==
    IF s = "completed" THEN "transaction_completed"
    ELSE IF s = "failed" THEN "transaction_failed"
    ELSE "transaction_updated"

\* what reaches the Socket.IO clients: events emitted in a process whose
\* RealtimeServer registered itself with onEvent
Broadcast == {e \in events : e.proc \in ListenProcs}

Fault == faults < MaxFaults /\ faults' = faults + 1

\* a payment of this process's gateway, as `payments.find(orderId)` finds it
PaymentAt(p, o) == home[o] = p /\ pay[o] \in {"pending", "paid", "expired"}

-----------------------------------------------------------------------------
Init ==
    /\ driver \in Drivers
    /\ row = [o \in Orders |-> [status |-> "absent", completedAt |-> FALSE]]
    /\ home = [o \in Orders |-> NoProc]
    /\ create = [o \in Orders |-> "idle"]
    /\ pay = [o \in Orders |-> "none"]
    /\ timer = {}
    /\ req = [c \in Calls |-> [kind |-> "none", proc |-> NoProc,
                               order |-> NoOrder, want |-> "cancelled"]]
    /\ at = [c \in Calls |-> "idle"]
    /\ got = [c \in Calls |-> "absent"]
    /\ events = {}
    /\ faults = 0

-----------------------------------------------------------------------------
(* createOrder, in the bot or the website.                                 *)

\* the checks, then dal.transactions.create: the row is in the shared store
\* before the payment exists
CreateOrder(p, o) ==
    /\ create[o] = "idle"
    /\ row' = [row EXCEPT ![o] = [status |-> "pending", completedAt |-> FALSE]]
    /\ home' = [home EXCEPT ![o] = p]
    /\ create' = [create EXCEPT ![o] = "created"]
    /\ UNCHANGED <<driver, pay, timer, calls, events, faults>>

\* the insert throws to the caller, executed or not; json stores nothing then
CreateOrderFails(p, o) ==
    /\ create[o] = "idle"
    /\ Fault
    /\ \/ UNCHANGED row
       \/ /\ driver # "json"
          /\ row' = [row EXCEPT ![o] = [status |-> "pending", completedAt |-> FALSE]]
    /\ home' = [home EXCEPT ![o] = p]
    /\ create' = [create EXCEPT ![o] = "threw"]
    /\ UNCHANGED <<driver, pay, timer, calls, events>>

\* emits transaction_created, then MockGateway.createPayment, which stores
\* the payment and starts its auto-confirm timer without suspending
StartPayment(o) ==
    /\ create[o] = "created"
    /\ Emit("transaction_created", o, home[o], "pending")
    /\ pay' = [pay EXCEPT ![o] = "pending"]
    /\ timer' = IF AutoConfirmOn THEN timer \cup {o} ELSE timer
    /\ create' = [create EXCEPT ![o] = "marking"]
    /\ UNCHANGED <<driver, row, home, calls, faults>>

\* dal.transactions.updateState(id, processing): by id, whatever the row's
\* status has become meanwhile
MarkProcessing(o) ==
    /\ create[o] = "marking"
    /\ WriteRow(o, "processing")
    /\ create' = [create EXCEPT ![o] = "reading"]
    /\ UNCHANGED <<driver, home, pay, timer, calls, events, faults>>

\* the update throws: nothing was written, or the server wrote the row and the
\* answer (or mysql's SELECT after it) was lost.  The catch block runs next.
MarkProcessingFails(o) ==
    /\ create[o] = "marking"
    /\ Fault
    /\ \/ UNCHANGED row
       \/ driver # "json" /\ WriteRow(o, "processing")
    /\ create' = [create EXCEPT ![o] = "failing"]
    /\ UNCHANGED <<driver, home, pay, timer, calls, events>>

\* reads the row back and emits it, in whatever state it is by now
ReadBack(o) ==
    /\ create[o] = "reading"
    /\ Emit("transaction_updated", o, home[o], row[o].status)
    /\ create' = [create EXCEPT ![o] = "returned"]
    /\ UNCHANGED <<driver, row, home, pay, timer, calls, faults>>

\* json: readCollection swallows the error, nothing is found, nothing is
\* emitted and createOrder still returns; the other drivers throw into catch
ReadBackFails(o) ==
    /\ create[o] = "reading"
    /\ Fault
    /\ create' = [create EXCEPT
                    ![o] = IF driver = "json" THEN "returned" ELSE "failing"]
    /\ UNCHANGED <<driver, row, home, pay, timer, calls, events>>

\* the catch block: the row is marked failed; the payment is left as it is
MarkFailed(o) ==
    /\ create[o] = "failing"
    /\ WriteRow(o, "failed")
    /\ create' = [create EXCEPT ![o] = "failreading"]
    /\ UNCHANGED <<driver, home, pay, timer, calls, events, faults>>

\* the catch block's own update throws: no event; the row may be written again
MarkFailedFails(o) ==
    /\ create[o] = "failing"
    /\ Fault
    /\ \/ UNCHANGED row
       \/ driver # "json" /\ WriteRow(o, "failed")
    /\ create' = [create EXCEPT ![o] = "threw"]
    /\ UNCHANGED <<driver, home, pay, timer, calls, events>>

\* the failed order is read back for its event, then createOrder throws
EmitFailed(o) ==
    /\ create[o] = "failreading"
    /\ Emit("transaction_failed", o, home[o], row[o].status)
    /\ create' = [create EXCEPT ![o] = "threw"]
    /\ UNCHANGED <<driver, row, home, pay, timer, calls, faults>>

EmitFailedFails(o) ==
    /\ create[o] = "failreading"
    /\ Fault
    /\ create' = [create EXCEPT ![o] = "threw"]
    /\ UNCHANGED <<driver, row, home, pay, timer, calls, events>>

-----------------------------------------------------------------------------
(* The gateway's timers and its operations that no route calls.            *)

\* the timer callback: a pending payment becomes paid; triggerWebhook only
\* logs, so neither the row nor another process hears of it
AutoConfirm(o) ==
    /\ o \in timer
    /\ pay' = [pay EXCEPT ![o] = IF @ = "pending" THEN "paid" ELSE @]
    /\ timer' = timer \ {o}
    /\ UNCHANGED <<driver, row, home, create, calls, events, faults>>

\* manualConfirm refuses a paid payment and confirms an expired one
ManualConfirm(o) ==
    /\ pay[o] \in {"pending", "expired"}
    /\ pay' = [pay EXCEPT ![o] = "paid"]
    /\ timer' = timer \ {o}
    /\ UNCHANGED <<driver, row, home, create, calls, events, faults>>

\* cleanup: every timer of the process is cleared, its payments stay
Cleanup(p) ==
    /\ \E o \in timer : home[o] = p
    /\ timer' = {o \in timer : home[o] # p}
    /\ UNCHANGED <<driver, row, home, create, pay, calls, events, faults>>

-----------------------------------------------------------------------------
(* handleWebhook and cancelTransaction, in the API process.                *)

Goto(c, there) == at' = [at EXCEPT ![c] = there]

\* POST /internal/mock-webhook: verifyWebhook accepts every payload
Webhook(c, p, o, s) ==
    /\ at[c] = "idle"
    /\ req' = [req EXCEPT ![c] = [kind |-> "webhook", proc |-> p,
                                  order |-> o, want |-> s]]
    /\ Goto(c, "write")
    /\ UNCHANGED <<driver, row, home, create, pay, timer, got, events, faults>>

\* POST /:orderId/cancel
Cancel(c, p, o) ==
    /\ at[c] = "idle"
    /\ req' = [req EXCEPT ![c] = [kind |-> "cancel", proc |-> p,
                                  order |-> o, want |-> "cancelled"]]
    /\ Goto(c, "check")
    /\ UNCHANGED <<driver, row, home, create, pay, timer, got, events, faults>>

\* cancelTransaction reads the row once and decides on that reading
CheckCancel(c) ==
    /\ at[c] = "check"
    /\ LET s == row[req[c].order].status
       IN  \/ s \in {"absent", "completed"} /\ Goto(c, "threw")
           \/ s = "cancelled" /\ Goto(c, "returned")
           \/ s \in {"pending", "processing", "failed"} /\ Goto(c, "gateway")
    /\ UNCHANGED <<driver, row, home, create, pay, timer, req, got, events, faults>>

\* MockGateway.cancelPayment of this process: unknown or paid payments throw
CancelPayment(c) ==
    LET o == req[c].order
    IN  /\ at[c] = "gateway"
        /\ PaymentAt(req[c].proc, o)
        /\ pay[o] # "paid"
        /\ pay' = [pay EXCEPT ![o] = "expired"]
        /\ timer' = timer \ {o}
        /\ Goto(c, "write")
        /\ UNCHANGED <<driver, row, home, create, req, got, events, faults>>

RefuseCancel(c) ==
    LET o == req[c].order
    IN  /\ at[c] = "gateway"
        /\ ~PaymentAt(req[c].proc, o) \/ pay[o] = "paid"
        /\ Goto(c, "threw")
        /\ UNCHANGED <<driver, row, home, create, pay, timer, req, got, events, faults>>

\* updateState: findByOrderId, then the driver's update by id.  No rule says
\* which status may follow which.  json and mongodb hand back the row they
\* wrote; mysql hands back a later SELECT.
UpdateState(c) ==
    LET o == req[c].order
    IN  /\ at[c] = "write"
        /\ row[o].status # "absent"
        /\ WriteRow(o, req[c].want)
        /\ Goto(c, IF driver = "mysql" THEN "reread" ELSE "emit")
        /\ got' = [got EXCEPT ![c] = req[c].want]
        /\ UNCHANGED <<driver, home, create, pay, timer, req, events, faults>>

UpdateStateNotFound(c) ==
    /\ at[c] = "write"
    /\ row[req[c].order].status = "absent"
    /\ Goto(c, "threw")
    /\ UNCHANGED <<driver, row, home, create, pay, timer, req, got, events, faults>>

\* mysql updateTransaction: the SELECT that follows the UPDATE
Reread(c) ==
    /\ at[c] = "reread"
    /\ Goto(c, "emit")
    /\ got' = [got EXCEPT ![c] = row[req[c].order].status]
    /\ UNCHANGED <<driver, row, home, create, pay, timer, req, events, faults>>

\* back in updateState: the event for the returned row
EmitUpdate(c) ==
    /\ at[c] = "emit"
    /\ Emit(EventOf(got[c]), req[c].order, req[c].proc, got[c])
    /\ Goto(c, "returned")
    /\ UNCHANGED <<driver, row, home, create, pay, timer, req, got, faults>>

\* the server wrote the row and its answer was lost: the call throws, and
\* nobody is told of the new status
UpdateUnanswered(c) ==
    LET o == req[c].order
    IN  /\ at[c] = "write"
        /\ driver # "json"
        /\ row[o].status # "absent"
        /\ Fault
        /\ WriteRow(o, req[c].want)
        /\ Goto(c, "threw")
        /\ UNCHANGED <<driver, home, create, pay, timer, req, got, events>>

\* a database error in a read or an update: the call throws to its route
CallFails(c) ==
    /\ at[c] \in {"check", "write", "reread"}
    /\ Fault
    /\ Goto(c, "threw")
    /\ UNCHANGED <<driver, row, home, create, pay, timer, req, got, events>>

-----------------------------------------------------------------------------
\* A process stops and is started again: its payments, timers and running
\* calls are gone; the rows stay.
Crash(p) ==
    /\ Fault
    /\ pay' = [o \in Orders |->
                 IF home[o] = p /\ pay[o] # "none" THEN "lost" ELSE pay[o]]
    /\ timer' = {o \in timer : home[o] # p}
    /\ create' = [o \in Orders |->
                    IF home[o] = p /\ create[o] \in Creating
                    THEN "crashed" ELSE create[o]]
    /\ at' = [c \in Calls |->
                IF req[c].proc = p /\ at[c] \in Serving
                THEN "crashed" ELSE at[c]]
    /\ UNCHANGED <<driver, row, home, req, got, events>>

-----------------------------------------------------------------------------
CreateStep(o) ==
    \/ StartPayment(o)
    \/ MarkProcessing(o) \/ MarkProcessingFails(o)
    \/ ReadBack(o) \/ ReadBackFails(o)
    \/ MarkFailed(o) \/ MarkFailedFails(o)
    \/ EmitFailed(o) \/ EmitFailedFails(o)

CallStep(c) ==
    \/ CheckCancel(c)
    \/ CancelPayment(c) \/ RefuseCancel(c)
    \/ UpdateState(c) \/ UpdateStateNotFound(c)
    \/ Reread(c) \/ EmitUpdate(c)
    \/ UpdateUnanswered(c) \/ CallFails(c)

Next ==
    \/ \E p \in OrderProcs, o \in Orders :
          CreateOrder(p, o) \/ CreateOrderFails(p, o)
    \/ \E o \in Orders : CreateStep(o) \/ AutoConfirm(o) \/ ManualConfirm(o)
    \/ \E p \in OrderProcs : Cleanup(p)
    \/ \E c \in Calls, p \in ApiProcs, o \in Orders, s \in WebhookStatuses :
          Webhook(c, p, o, s)
    \/ \E c \in Calls, p \in ApiProcs, o \in Orders : Cancel(c, p, o)
    \/ \E c \in Calls : CallStep(c)
    \/ \E p \in Procs : Crash(p)

\* A promise that was started settles and a timer that is due fires: the
\* event loop of a running process is fair.  Nothing is assumed about users,
\* webhooks or faults.
Fairness ==
    /\ \A o \in Orders : WF_vars(CreateStep(o)) /\ WF_vars(AutoConfirm(o))
    /\ \A c \in Calls : WF_vars(CallStep(c))

Spec == Init /\ [][Next]_vars

FairSpec == Spec /\ Fairness

-----------------------------------------------------------------------------
(* Properties.                                                             *)

\* Type invariant: rows, payments, timers, calls and events stay in range.
TypeOK ==
    /\ driver \in Drivers
    /\ row \in [Orders -> Row]
    /\ home \in [Orders -> OrderProcs \cup {NoProc}]
    /\ create \in [Orders -> CreateStates]
    /\ pay \in [Orders -> PayStates]
    /\ timer \subseteq Orders
    /\ req \in [Calls -> Request]
    /\ at \in [Calls -> CallStates]
    /\ got \in [Calls -> Statuses \cup {"absent"}]
    /\ events \subseteq Event
    /\ faults \in 0 .. MaxFaults

\* A cancel past MockGateway.cancelPayment
Cancelling(c) == /\ req[c].kind = "cancel"
                 /\ \/ at[c] \in {"write", "reread", "emit"}
                    \/ at[c] = "returned" /\ got[c] # "absent"

\* Once a cancel has gone through the gateway (cancelTransaction to
\* cancelPayment), no timer can still confirm that payment: it is not pending
\* and no auto-confirm entry is left behind, also while the row is being
\* updated and after the answer.
CancelSettlesPayment ==
    \A c \in Calls : Cancelling(c) =>
        pay[req[c].order] # "pending" /\ req[c].order \notin timer

\* cancelTransaction acts on an order only in the process whose createOrder
\* made the payment: anywhere else cancelPayment finds none and throws.
RemoteCancelRefused ==
    \A c \in Calls : Cancelling(c) => home[req[c].order] = req[c].proc

\* An order is pending while its createOrder is on its way, after one that a
\* fault has ended in a throw or with its process, or because a webhook said
\* so.  Whatever fails, a createOrder that returned a payment link has taken
\* its order out of pending, and so has one that reached the end of its catch
\* block.
PendingExplained ==
    \A o \in Orders : row[o].status = "pending" =>
        \/ create[o] \in {"created", "marking"}
        \/ create[o] \in {"failing", "threw", "crashed"} /\ faults > 0
        \/ \E c \in Calls : req[c].order = o /\ req[c].kind = "webhook"
                                              /\ req[c].want = "pending"

\* transaction_completed is emitted only for an order whose completedAt is
\* set, whatever overwrote its status since.
CompletedEventTrue ==
    \A e \in events :
        e.type = "transaction_completed" => row[e.order].completedAt

\* A webhook that completed an order and was answered has announced it, with
\* every driver that returns the row it wrote (mysql's updateTransaction
\* selects the row again and may announce another writer's status instead).
CompletionAnnounced ==
    driver # "mysql" =>
        \A c \in Calls :
            (at[c] = "returned" /\ req[c].want = "completed") =>
                \E e \in events : e.type = "transaction_completed"
                                  /\ e.order = req[c].order

\* completedAt, once set by updateState, is never cleared: not by a later
\* webhook, by createOrder marking the order processing late, or by a cancel.
CompletionKept ==
    [][\A o \in Orders : row[o].completedAt => row'[o].completedAt]_vars

\* A payment the buyer has made never expires: a cancel that lost the race
\* with the timer or with manualConfirm throws instead.
PaidNeverExpired ==
    [][\A o \in Orders : pay[o] = "paid" => pay'[o] \in {"paid", "lost"}]_vars

\* createOrder always ends: in a payment link, in a throw, or with its process.
CreateSettles ==
    \A o \in Orders : create[o] \in Creating ~>
                      create[o] \in {"returned", "threw", "crashed"}

\* README, Transaction Flow, steps 6 and 7: an auto-confirmed payment updates
\* its order through the webhook.  Refuted: triggerWebhook only logs.
ConfirmReachesOrder ==
    \A o \in Orders : pay[o] = "paid" ~> row[o].status = "completed"

\* The guard "Cannot cancel a completed transaction" and the test "should fail
\* to cancel a completed transaction": no cancel turns a completed order into
\* a cancelled one.  Refuted: the guard reads the row before cancelPayment.
CompletedNeverCancelled ==
    [][\A o \in Orders : row[o].status = "completed"
                         => row'[o].status # "cancelled"]_vars
=============================================================================
