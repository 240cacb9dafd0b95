------------------------------- MODULE Database -------------------------------
(***************************************************************************)
(* The data access layer over a MySQL or a MongoDB driver: its life cycle, *)
(* and calls about one user, one order, one balance, one setting and one   *)
(* admin.  The database executes a statement in one step; a call may need  *)
(* two.  A row is known by the call that created it and holds the calls    *)
(* whose fields it carries.  When a connection breaks, a statement has     *)
(* been executed or not, and the call throws either way.                   *)
(***************************************************************************)
EXTENDS Integers, FiniteSets

CONSTANTS
    Drivers,       \* the drivers the configuration may name
    MaxCalls,      \* bound on calls of the layer
    Asked,         \* what each call may be
    MaxInitialized, \* bound on drivers connected at a time
    MaxDbFaults    \* bound on broken connections and failed index builds

Tables == {"users", "transactions", "balances", "settings", "admins"}

\* what a call of the layer does to which table
Creates == {"users", "transactions", "admins"}
Updates == {"users", "transactions"}
Upserts == {"balances", "settings"}
CallKinds == ({"create"} \X Creates) \cup ({"update"} \X Updates)
             \cup ({"upsert"} \X Upserts) \cup ({"find"} \X Tables)
             \cup {<<"getOrCreate", "users">>}

\* calls are numbered in the order they are made
Calls == 1 .. MaxCalls

ASSUME DatabaseAssumption ==
    /\ Drivers \subseteq {"mysql", "mongodb"}
    /\ Asked \in [Calls -> SUBSET CallKinds]
    /\ MaxCalls \in Nat /\ MaxInitialized \in Nat /\ MaxDbFaults \in Nat

NoCall == <<"none", "users">>

VARIABLES
    driver,     \* the driver configured, "none" before initialize
    rows,       \* of each table
    unique,     \* the tables with their unique index
    layer,      \* of the DAL, by its driver: none, connecting, ready, refused, down
    opened,     \* connects under way or done, of drivers not disconnected
    what,       \* what each call is
    step,       \* how far it is
    result,     \* ids of the row it returned
    dbFaults

dbVars == <<driver, rows, unique, layer, opened, what, step, result, dbFaults>>

Steps == {"idle", "asked", "missing", "written", "returned", "thrown"}

Row == [id : Calls, by : SUBSET Calls]

-----------------------------------------------------------------------------
(* Mutations: plausible bugs in the definitions below; DbNext uses none.   *)

\* the users' Discord ids are indexed, but not uniquely
BugConstraints == Tables \ {"users"}

-----------------------------------------------------------------------------
\* CREATE TABLE IF NOT EXISTS: primary keys and UNIQUE columns
Constraints == Tables

DbInit ==
    /\ driver = "none"
    /\ rows = [t \in Tables |-> {}]
    /\ unique = {}
    /\ layer = "none" /\ opened = 0
    /\ what = [c \in Calls |-> NoCall]
    /\ step = [c \in Calls |-> "idle"]
    /\ result = [c \in Calls |-> {}]
    /\ dbFaults = 0

Is(c, kind, t) == what[c] = <<kind, t>>

Returns(c, ids) ==
    /\ step' = [step EXCEPT ![c] = "returned"]
    /\ result' = [result EXCEPT ![c] = ids]

Throws(c) ==
    /\ step' = [step EXCEPT ![c] = "thrown"]
    /\ UNCHANGED result

\* some connection is open or being opened, and for MySQL the tables are there
Reachable == opened > 0 /\ (driver = "mysql" => unique = Constraints)

Ids(t) == {r.id : r \in rows[t]}

-----------------------------------------------------------------------------
(* The layer's life.                                                       *)

\* a second initialize is only refused once the first has connected
Initialize ==
    /\ layer \in {"none", "connecting", "refused", "down"} /\ opened < MaxInitialized
    /\ driver' \in IF driver = "none" THEN Drivers ELSE {driver}
    /\ layer' = "connecting" /\ opened' = opened + 1
    /\ UNCHANGED <<rows, unique, what, step, result, dbFaults>>

\* MySQL: a connection and the tables
SqlConnect ==
    /\ driver = "mysql" /\ layer = "connecting"
    /\ layer' = "ready" /\ unique' = Constraints
    /\ UNCHANGED <<driver, rows, opened, what, step, result, dbFaults>>

\* MongoDB: createIndex fails on duplicates, or for other reasons, which is
\* only logged; the indexes are then as they were
MongoConnect ==
    /\ driver = "mongodb" /\ layer = "connecting"
    /\ layer' = "ready"
    /\ \/ unique' = {t \in Constraints : Cardinality(rows[t]) <= 1}
          /\ UNCHANGED dbFaults
       \/ /\ dbFaults < MaxDbFaults /\ dbFaults' = dbFaults + 1
          /\ UNCHANGED unique
    /\ UNCHANGED <<driver, rows, opened, what, step, result>>

\* a connection is refused: initialize throws, the driver stays, and with MySQL
\* its pool, which connects anew for a later statement
ConnectFails ==
    /\ layer = "connecting" /\ dbFaults < MaxDbFaults
    /\ layer' = "refused" /\ dbFaults' = dbFaults + 1
    /\ UNCHANGED <<driver, rows, unique, opened, what, step, result>>

\* the driver is kept: later calls reach a closed connection.  A driver that a
\* second initialize replaced stays open
Shutdown ==
    /\ layer \in {"ready", "refused"} /\ opened > 0
    /\ layer' = "down" /\ opened' = opened - 1
    /\ UNCHANGED <<driver, rows, unique, what, step, result, dbFaults>>

-----------------------------------------------------------------------------
(* Calls: ensureDriver and the statements.                                 *)

\* ensureDriver asks for a driver only: while it connects, a statement may get
\* through to the pool or the client it has, or throw (CallOnClosed)
Call(c, kind) ==
    /\ step[c] = "idle" /\ \A before \in 1 .. c - 1 : step[before] # "idle"
    /\ what' = [what EXCEPT ![c] = kind]
    /\ IF layer \in {"none", "down"} THEN Throws(c)
       ELSE step' = [step EXCEPT ![c] = "asked"] /\ UNCHANGED result
    /\ UNCHANGED <<driver, rows, unique, layer, opened, dbFaults>>

\* a SELECT or a find: null, a row, or all rows
Find(c, t) ==
    /\ Is(c, "find", t) /\ step[c] = "asked" /\ Reachable
    /\ Returns(c, Ids(t))
    /\ UNCHANGED <<driver, rows, unique, layer, opened, what, dbFaults>>

FindUser(c) == Find(c, "users")
FindTransaction(c) == Find(c, "transactions")
FindBalance(c) == Find(c, "balances")
FindSetting(c) == Find(c, "settings")
FindAdmin(c) == Find(c, "admins")

\* users.getOrCreate: found, or to be created with the next statement
GetOrFindNone(c) ==
    /\ Is(c, "getOrCreate", "users") /\ step[c] = "asked" /\ Reachable
    /\ IF rows["users"] = {}
       THEN step' = [step EXCEPT ![c] = "missing"] /\ UNCHANGED result
       ELSE \E r \in rows["users"] : Returns(c, {r.id})
    /\ UNCHANGED <<driver, rows, unique, layer, opened, what, dbFaults>>

\* c's new row breaks no unique index
Fits(t) == t \in unique => rows[t] = {}

NewRow(c) == [id |-> c, by |-> {c}]

\* MySQL checks the references to users
RefersTo(t) ==
    driver = "mysql" /\ t \in {"transactions", "balances"} => rows["users"] # {}

\* INSERT or insertOne
Insert(c, t) ==
    /\ Reachable
    /\ IF Fits(t) /\ RefersTo(t)
       THEN rows' = [rows EXCEPT ![t] = @ \cup {NewRow(c)}] /\ Returns(c, {c})
       ELSE Throws(c) /\ UNCHANGED rows
    /\ UNCHANGED <<driver, unique, layer, opened, what, dbFaults>>

CreateUser(c) ==
    /\ \/ Is(c, "create", "users") /\ step[c] = "asked"
       \/ step[c] = "missing"
    /\ Insert(c, "users")

CreateTransaction(c) ==
    Is(c, "create", "transactions") /\ step[c] = "asked" /\ Insert(c, "transactions")

CreateAdmin(c) ==
    Is(c, "create", "admins") /\ step[c] = "asked" /\ Insert(c, "admins")

\* the fields a call gives are set, the others stay
Touch(c, t, r) ==
    rows' = [rows EXCEPT ![t] = (@ \ {r}) \cup {[r EXCEPT !.by = @ \cup {c}]}]

\* MySQL: UPDATE first, of nothing perhaps, and a SELECT of its own after it
SqlUpdate(c, t) ==
    /\ driver = "mysql" /\ Is(c, "update", t) /\ step[c] = "asked" /\ Reachable
    /\ IF rows[t] = {} THEN UNCHANGED rows ELSE \E r \in rows[t] : Touch(c, t, r)
    /\ step' = [step EXCEPT ![c] = "written"]
    /\ UNCHANGED <<driver, unique, layer, opened, what, result, dbFaults>>

SqlUpdateUser(c) == SqlUpdate(c, "users")
SqlUpdateTransaction(c) == SqlUpdate(c, "transactions")

SqlReadBack(c) ==
    /\ step[c] = "written" /\ Reachable
    /\ LET t == what[c][2]
       IN  IF rows[t] = {} THEN Throws(c) ELSE Returns(c, Ids(t))
    /\ UNCHANGED <<driver, rows, unique, layer, opened, what, dbFaults>>

\* MongoDB: findOneAndUpdate
MongoUpdate(c, t) ==
    /\ driver = "mongodb" /\ Is(c, "update", t) /\ step[c] = "asked" /\ Reachable
    /\ IF rows[t] = {} THEN Throws(c) /\ UNCHANGED rows
       ELSE \E r \in rows[t] : Touch(c, t, r) /\ Returns(c, {r.id})
    /\ UNCHANGED <<driver, unique, layer, opened, what, dbFaults>>

MongoUpdateUser(c) == MongoUpdate(c, "users")
MongoUpdateTransaction(c) == MongoUpdate(c, "transactions")

\* INSERT ... ON DUPLICATE KEY UPDATE, or updateOne with upsert: all fields
Put(c, t) ==
    IF rows[t] = {} THEN rows' = [rows EXCEPT ![t] = {NewRow(c)}]
    ELSE \E r \in rows[t] :
             rows' = [rows EXCEPT ![t] = (@ \ {r}) \cup {[r EXCEPT !.by = {c}]}]

Upsert(c, t) ==
    /\ Is(c, "upsert", t) /\ step[c] = "asked" /\ Reachable
    /\ IF RefersTo(t) THEN Put(c, t) /\ Returns(c, {c})
       ELSE Throws(c) /\ UNCHANGED rows
    /\ UNCHANGED <<driver, unique, layer, opened, what, dbFaults>>

UpsertBalance(c) == Upsert(c, "balances")
SetSetting(c) == Upsert(c, "settings")

\* the connection is closed under the call, or not open yet
CallOnClosed(c) ==
    /\ step[c] \in {"asked", "missing", "written"} /\ layer # "ready"
    /\ Throws(c)
    /\ UNCHANGED <<driver, rows, unique, layer, opened, what, dbFaults>>

\* the connection breaks before or after the statement: a write that is
\* reported as failed may have been made
ConnectionBreaks(c) ==
    /\ step[c] \in {"asked", "missing", "written"} /\ Reachable
    /\ dbFaults < MaxDbFaults /\ dbFaults' = dbFaults + 1
    /\ LET t == what[c][2]
       IN  \/ UNCHANGED rows
           \/ /\ step[c] = "missing" \/ Is(c, "create", t)
              /\ Fits(t) /\ RefersTo(t)
              /\ rows' = [rows EXCEPT ![t] = @ \cup {NewRow(c)}]
           \/ /\ step[c] = "asked" /\ Is(c, "update", t)
              /\ \E r \in rows[t] : Touch(c, t, r)
           \/ Is(c, "upsert", t) /\ RefersTo(t) /\ Put(c, t)
    /\ Throws(c)
    /\ UNCHANGED <<driver, unique, layer, opened, what>>

DbNext ==
    \/ Initialize \/ SqlConnect \/ MongoConnect \/ ConnectFails \/ Shutdown
    \/ \E c \in Calls :
           \/ \E kind \in Asked[c] : Call(c, kind)
           \/ FindUser(c) \/ FindTransaction(c) \/ FindBalance(c)
           \/ FindSetting(c) \/ FindAdmin(c)
           \/ GetOrFindNone(c)
           \/ CreateUser(c) \/ CreateTransaction(c) \/ CreateAdmin(c)
           \/ SqlUpdateUser(c) \/ SqlUpdateTransaction(c) \/ SqlReadBack(c)
           \/ MongoUpdateUser(c) \/ MongoUpdateTransaction(c)
           \/ UpsertBalance(c) \/ SetSetting(c)
           \/ CallOnClosed(c) \/ ConnectionBreaks(c)

DbSpec == DbInit /\ [][DbNext]_dbVars

-----------------------------------------------------------------------------
DbTypeOK ==
    /\ driver \in Drivers \cup {"none"}
    /\ rows \in [Tables -> SUBSET Row]
    /\ unique \subseteq Tables
    /\ layer \in {"none", "connecting", "ready", "refused", "down"}
    /\ opened \in 0 .. MaxInitialized
    /\ what \in [Calls -> CallKinds \cup {NoCall}]
    /\ step \in [Calls -> Steps]
    /\ result \in [Calls -> SUBSET Calls]
    /\ dbFaults \in 0 .. MaxDbFaults

\* On MySQL all calls of getOrCreate for one Discord user that return, return
\* the same user: of two that both find none, one fails, by the unique column
\* and nothing else.  The MongoDB driver goes on when it could not build that
\* index.  DAL.users.getOrCreate, MySQLDriver.createTables.
OneUserEach ==
    \A c, d \in Calls :
        /\ driver = "mysql"
        /\ Is(c, "getOrCreate", "users") /\ step[c] = "returned"
        /\ Is(d, "getOrCreate", "users") /\ step[d] = "returned"
        => result[c] = result[d]
=============================================================================
