------------------------------ MODULE DataProofs ------------------------------
(***************************************************************************)
(* What the two places outside the process that hold data give for any     *)
(* number of callers: a Discord user is one row of MySQL (first part), and *)
(* the message broker's map agrees with what Redis has it subscribed to    *)
(* (second part).                                                          *)
(***************************************************************************)
EXTENDS Database, MessageBroker, SequenceTheorems, TLAPS

-----------------------------------------------------------------------------
(* On MySQL a Discord user is one row, for any number of calls, overlapping *)
(* and interrupted as they may be.                                         *)
(*                                                                         *)
(* No lock and no transaction spans the two statements of getOrCreate: that *)
(* a statement only gets through to a table with its unique column leaves  *)
(* at most one row (OneRowInv), and its id, which no update changes, is    *)
(* what every call got that returned (SameInv).                            *)
\* Without a driver there is no connection and no user.
BeforeInv ==
    driver = "none" => layer = "none" /\ opened = 0 /\ rows["users"] = {}

\* What a call that waits for its second statement is.
WaitInv ==
    \A c \in Calls :
        /\ step[c] = "missing" => Is(c, "getOrCreate", "users")
        /\ step[c] = "written" => \E t \in Updates : Is(c, "update", t)
        /\ driver = "none" => step[c] \in {"idle", "thrown"}

\* All rows of users are one.
OneRowInv == driver = "mysql" => \A r, s \in rows["users"] : r = s

\* What getOrCreate returned is the id of that row.
SameInv ==
    driver = "mysql" =>
        \A c \in Calls :
            Is(c, "getOrCreate", "users") /\ step[c] = "returned" =>
                \E r \in rows["users"] : result[c] = {r.id}

UsersInv == BeforeInv /\ WaitInv /\ OneRowInv /\ SameInv

-----------------------------------------------------------------------------
\* An update keeps the id of a row and puts the call down in it.
LEMMA TouchTyped ==
    ASSUME DbTypeOK, NEW c \in Calls, NEW t \in Tables, NEW r \in rows[t],
           Touch(c, t, r)
    PROVE  /\ rows' \in [Tables -> SUBSET Row]
           /\ [r EXCEPT !.by = @ \cup {c}] \in Row
           /\ [r EXCEPT !.by = @ \cup {c}].id = r.id
<1>1. r \in Row
  BY DEF DbTypeOK
<1>2. /\ [r EXCEPT !.by = @ \cup {c}] \in Row
      /\ [r EXCEPT !.by = @ \cup {c}].id = r.id
  BY <1>1 DEF Row
<1>. QED BY <1>2 DEF Touch, DbTypeOK

\* So does an upsert, or it is the first to make one.
LEMMA PutTyped ==
    ASSUME DbTypeOK, NEW c \in Calls, NEW t \in Tables, Put(c, t)
    PROVE  rows' \in [Tables -> SUBSET Row]
<1>1. NewRow(c) \in Row
  BY DEF NewRow, Row
<1>2. ASSUME NEW r \in rows[t] PROVE [r EXCEPT !.by = {c}] \in Row
  BY DEF DbTypeOK, Row
<1>. QED BY <1>1, <1>2 DEF Put, DbTypeOK

\* An insertion adds a row of its own.
LEMMA InsertTyped ==
    ASSUME DbTypeOK, NEW c \in Calls, NEW t \in Tables, Insert(c, t)
    PROVE  DbTypeOK'
<1>1. NewRow(c) \in Row
  BY DEF NewRow, Row
<1>. QED BY <1>1 DEF Insert, Returns, Throws, DbTypeOK, Steps

\* The ids of a table are those of calls.
LEMMA IdsTyped == ASSUME DbTypeOK, NEW t \in Tables PROVE Ids(t) \subseteq Calls
BY DEF Ids, DbTypeOK, Row

\* Every step keeps the shape of the tables, the layer and the calls.
LEMMA DbTypeStep == DbTypeOK /\ WaitInv /\ [DbNext]_dbVars => DbTypeOK'
<1>. SUFFICES ASSUME DbTypeOK, WaitInv, [DbNext]_dbVars PROVE DbTypeOK'
  OBVIOUS
<1>. USE DatabaseAssumption
<1>1. CASE Initialize \/ SqlConnect \/ MongoConnect \/ ConnectFails \/ Shutdown
  BY <1>1 DEF Initialize, SqlConnect, MongoConnect, ConnectFails, Shutdown,
    Constraints, DbTypeOK
<1>2. ASSUME NEW c \in Calls, NEW kind \in Asked[c], Call(c, kind) PROVE DbTypeOK'
  <2>1. kind \in CallKinds
    BY <1>2
  <2>. QED BY <1>2, <2>1 DEF Call, Throws, DbTypeOK, Steps
<1>3. ASSUME NEW c \in Calls, NEW t \in Tables, Find(c, t) PROVE DbTypeOK'
  BY <1>3, IdsTyped DEF Find, Returns, DbTypeOK, Steps
<1>4. ASSUME NEW c \in Calls, GetOrFindNone(c) PROVE DbTypeOK'
  BY <1>4 DEF GetOrFindNone, Returns, DbTypeOK, Steps, Tables, Row
<1>5. ASSUME NEW c \in Calls, CreateUser(c) \/ CreateTransaction(c) \/ CreateAdmin(c)
      PROVE  DbTypeOK'
  BY <1>5, InsertTyped DEF CreateUser, CreateTransaction, CreateAdmin, Tables
<1>6. ASSUME NEW c \in Calls, NEW t \in Tables, SqlUpdate(c, t) PROVE DbTypeOK'
  BY <1>6, TouchTyped DEF SqlUpdate, DbTypeOK, Steps
<1>7. ASSUME NEW c \in Calls, SqlReadBack(c) PROVE DbTypeOK'
  <2>1. what[c][2] \in Tables
    BY <1>7 DEF SqlReadBack, WaitInv, Is, Updates, Tables
  <2>. QED BY <1>7, <2>1, IdsTyped DEF SqlReadBack, Returns, Throws, DbTypeOK, Steps
<1>8. ASSUME NEW c \in Calls, NEW t \in Tables, MongoUpdate(c, t) PROVE DbTypeOK'
  <2>1. rows' \in [Tables -> SUBSET Row]
    BY <1>8, TouchTyped DEF MongoUpdate, DbTypeOK
  <2>2. step' \in [Calls -> Steps] /\ result' \in [Calls -> SUBSET Calls]
    <3>1. \A r \in rows[t] : {r.id} \in SUBSET Calls
      BY DEF DbTypeOK, Row
    <3>. QED BY <1>8, <3>1 DEF MongoUpdate, Returns, Throws, DbTypeOK, Steps
  <2>. QED BY <1>8, <2>1, <2>2 DEF MongoUpdate, DbTypeOK
<1>9. ASSUME NEW c \in Calls, NEW t \in Tables, Upsert(c, t) PROVE DbTypeOK'
  BY <1>9, PutTyped DEF Upsert, Returns, Throws, DbTypeOK, Steps
<1>10. ASSUME NEW c \in Calls, CallOnClosed(c) PROVE DbTypeOK'
  BY <1>10 DEF CallOnClosed, Throws, DbTypeOK, Steps
<1>11. ASSUME NEW c \in Calls, ConnectionBreaks(c) PROVE DbTypeOK'
  <2>1. what[c][2] \in Tables
    BY DEF DbTypeOK, CallKinds, NoCall, Creates, Updates, Upserts, Tables
  <2>2. NewRow(c) \in Row
    BY DEF NewRow, Row
  <2>3. rows' \in [Tables -> SUBSET Row]
    <3>. DEFINE t == what[c][2]
    <3>1. CASE \E r \in rows[t] : Touch(c, t, r)
      BY <2>1, <3>1, TouchTyped
    <3>2. CASE Put(c, t)
      BY <2>1, <3>2, PutTyped
    <3>3. CASE UNCHANGED rows \/ rows' = [rows EXCEPT ![t] = @ \cup {NewRow(c)}]
      BY <2>1, <2>2, <3>3 DEF DbTypeOK
    <3>. QED BY <1>11, <3>1, <3>2, <3>3 DEF ConnectionBreaks
  <2>. QED BY <1>11, <2>3 DEF ConnectionBreaks, Throws, DbTypeOK, Steps
<1>12. CASE UNCHANGED dbVars
  BY <1>12 DEF dbVars, DbTypeOK
<1>. QED BY <1>1, <1>2, <1>3, <1>4, <1>5, <1>6, <1>7, <1>8, <1>9, <1>10, <1>11, <1>12
  DEF DbNext, FindUser, FindTransaction, FindBalance, FindSetting, FindAdmin,
  SqlUpdateUser, SqlUpdateTransaction, MongoUpdateUser, MongoUpdateTransaction,
  UpsertBalance, SetSetting, Tables

-----------------------------------------------------------------------------
\* Before initialize there is no driver, no row and no call.
LEMMA InitUsers == DbInit => DbTypeOK /\ UsersInv
BY DatabaseAssumption DEF DbInit, DbTypeOK, Steps, NoCall, UsersInv, BeforeInv, WaitInv,
  OneRowInv, SameInv, Is, Tables

\* A connection is a driver's.
LEMMA BeforeStep ==
    ASSUME DbTypeOK, BeforeInv, WaitInv, [DbNext]_dbVars
    PROVE  BeforeInv'
<1>. USE DEF BeforeInv, DbTypeOK
<1>1. CASE Initialize \/ SqlConnect \/ MongoConnect \/ ConnectFails \/ Shutdown
  BY <1>1, DatabaseAssumption DEF Initialize, SqlConnect, MongoConnect, ConnectFails,
    Shutdown, Constraints, Tables
<1>2. CASE UNCHANGED dbVars
  BY <1>2 DEF dbVars
<1>3. ASSUME NEW c \in Calls, (\E kind \in Asked[c] : Call(c, kind)) \/ CallOnClosed(c)
      PROVE  UNCHANGED <<driver, rows, layer, opened>>
  BY <1>3 DEF Call, CallOnClosed
<1>4. ASSUME NEW c \in Calls,
             \/ FindUser(c) \/ FindTransaction(c) \/ FindBalance(c)
             \/ FindSetting(c) \/ FindAdmin(c)
             \/ GetOrFindNone(c)
             \/ CreateUser(c) \/ CreateTransaction(c) \/ CreateAdmin(c)
             \/ SqlUpdateUser(c) \/ SqlUpdateTransaction(c) \/ SqlReadBack(c)
             \/ MongoUpdateUser(c) \/ MongoUpdateTransaction(c)
             \/ UpsertBalance(c) \/ SetSetting(c) \/ ConnectionBreaks(c)
      PROVE  Reachable /\ UNCHANGED <<driver, layer, opened>>
  BY <1>4 DEF FindUser, FindTransaction, FindBalance, FindSetting, FindAdmin, Find,
    GetOrFindNone, CreateUser, CreateTransaction, CreateAdmin, Insert,
    SqlUpdateUser, SqlUpdateTransaction, SqlUpdate, SqlReadBack, MongoUpdateUser,
    MongoUpdateTransaction, MongoUpdate, UpsertBalance, SetSetting, Upsert,
    ConnectionBreaks
<1>. QED BY <1>1, <1>2, <1>3, <1>4 DEF DbNext, Reachable

\* A call keeps its kind from when it is made, and waits as that kind does.
LEMMA WaitStep ==
    ASSUME DbTypeOK, BeforeInv, WaitInv, [DbNext]_dbVars
    PROVE  WaitInv'
<1>. USE DEF WaitInv, DbTypeOK, Is, Throws, Returns
<1>1. CASE Initialize \/ SqlConnect \/ MongoConnect \/ ConnectFails \/ Shutdown
  BY <1>1, DatabaseAssumption DEF Initialize, SqlConnect, MongoConnect, ConnectFails,
    Shutdown
<1>2. CASE UNCHANGED dbVars
  BY <1>2 DEF dbVars
<1>3. ASSUME NEW c \in Calls, NEW kind \in Asked[c], Call(c, kind) PROVE WaitInv'
  BY <1>3 DEF Call, Reachable, BeforeInv
<1>4. ASSUME NEW c \in Calls, NEW t \in Tables, Find(c, t) PROVE WaitInv'
  BY <1>4 DEF Find, Reachable, BeforeInv
<1>5. ASSUME NEW c \in Calls, GetOrFindNone(c) PROVE WaitInv'
  BY <1>5 DEF GetOrFindNone, Reachable, BeforeInv
<1>6. ASSUME NEW c \in Calls, NEW t \in Tables, Insert(c, t) PROVE WaitInv'
  BY <1>6 DEF Insert, Reachable, BeforeInv
<1>7. ASSUME NEW c \in Calls, NEW t \in Updates, SqlUpdate(c, t) PROVE WaitInv'
  BY <1>7 DEF SqlUpdate, Reachable, BeforeInv
<1>8. ASSUME NEW c \in Calls, SqlReadBack(c) PROVE WaitInv'
  BY <1>8 DEF SqlReadBack, Reachable, BeforeInv
<1>9. ASSUME NEW c \in Calls, NEW t \in Updates, MongoUpdate(c, t) PROVE WaitInv'
  BY <1>9 DEF MongoUpdate, Reachable, BeforeInv
<1>10. ASSUME NEW c \in Calls, NEW t \in Tables, Upsert(c, t) PROVE WaitInv'
  BY <1>10 DEF Upsert, Reachable, BeforeInv
<1>11. ASSUME NEW c \in Calls, CallOnClosed(c) \/ ConnectionBreaks(c) PROVE WaitInv'
  BY <1>11 DEF CallOnClosed, ConnectionBreaks
<1>. QED BY <1>1, <1>2, <1>3, <1>4, <1>5, <1>6, <1>7, <1>8, <1>9, <1>10, <1>11
  DEF DbNext, FindUser, FindTransaction, FindBalance, FindSetting, FindAdmin,
  CreateUser, CreateTransaction, CreateAdmin, SqlUpdateUser, SqlUpdateTransaction,
  MongoUpdateUser, MongoUpdateTransaction, UpsertBalance, SetSetting, Tables, Updates

-----------------------------------------------------------------------------
(* The row of the user.                                                    *)

\* The row is there for good once it is, with the id it got.
RowKept ==
    /\ \A r \in rows["users"] : \E s \in rows'["users"] : s.id = r.id
    /\ \A r, s \in rows'["users"] : r = s

\* An update changes no id and makes no second row.
LEMMA TouchKeeps ==
    ASSUME DbTypeOK, OneRowInv, driver = "mysql", NEW c \in Calls, NEW t \in Tables,
           NEW r \in rows[t], Touch(c, t, r)
    PROVE  RowKept
<1>1. CASE t = "users"
  <2>1. rows["users"] = {r}
    BY <1>1 DEF OneRowInv
  <2>2. rows'["users"] = {[r EXCEPT !.by = @ \cup {c}]}
    BY <1>1, <2>1 DEF Touch, DbTypeOK, Tables
  <2>. QED BY <2>1, <2>2, TouchTyped DEF RowKept
<1>2. CASE t # "users"
  <2>1. rows'["users"] = rows["users"]
    BY <1>2 DEF Touch, DbTypeOK, Tables
  <2>. QED BY <2>1 DEF RowKept, OneRowInv
<1>. QED BY <1>1, <1>2

\* An insertion that the index lets through is the first.
LEMMA InsertKeeps ==
    ASSUME DbTypeOK, BeforeInv, OneRowInv, driver = "mysql", Reachable, NEW c \in Calls,
           NEW t \in Tables, Fits(t), rows' = [rows EXCEPT ![t] = @ \cup {NewRow(c)}]
    PROVE  /\ RowKept
           /\ t = "users" => rows["users"] = {} /\ rows'["users"] = {NewRow(c)}
<1>1. CASE t = "users"
  <2>1. rows["users"] = {}
    BY <1>1 DEF Fits, Reachable, Constraints, Tables
  <2>2. rows'["users"] = {NewRow(c)}
    BY <1>1, <2>1 DEF DbTypeOK, Tables
  <2>. QED BY <2>1, <2>2 DEF RowKept
<1>2. CASE t # "users"
  <2>1. rows'["users"] = rows["users"]
    BY <1>2 DEF DbTypeOK, Tables
  <2>. QED BY <1>2, <2>1 DEF RowKept, OneRowInv
<1>. QED BY <1>1, <1>2

\* As long as the row is kept, what was returned of it stays right; a call
\* that returns now must have the row of now.
LEMMA SameKept ==
    ASSUME SameInv, driver = "mysql", RowKept, NEW c \in Calls,
           \A d \in Calls \ {c} : /\ what'[d] = what[d] /\ step'[d] = step[d]
                                  /\ result'[d] = result[d],
           Is(c, "getOrCreate", "users")' /\ step'[c] = "returned" =>
               \E r \in rows'["users"] : result'[c] = {r.id}
    PROVE  OneRowInv' /\ SameInv'
<1>1. OneRowInv'
  BY DEF RowKept, OneRowInv
<1>2. ASSUME NEW d \in Calls, Is(d, "getOrCreate", "users")', step'[d] = "returned"
      PROVE  \E r \in rows'["users"] : result'[d] = {r.id}
  <2>1. CASE d = c
    BY <1>2, <2>1
  <2>2. CASE d # c
    <3>1. PICK r \in rows["users"] : result[d] = {r.id}
      BY <1>2, <2>2 DEF Is, SameInv
    <3>2. PICK s \in rows'["users"] : s.id = r.id
      BY <3>1 DEF RowKept
    <3>. QED BY <2>2, <3>1, <3>2
  <2>. QED BY <2>1, <2>2
<1>. QED BY <1>1, <1>2 DEF SameInv

\* Every step leaves one row of the user and everybody with its id.
LEMMA SameStep ==
    ASSUME DbTypeOK, UsersInv, [DbNext]_dbVars
    PROVE  OneRowInv' /\ SameInv'
<1>. SUFFICES ASSUME driver' = "mysql" PROVE OneRowInv' /\ SameInv'
  BY DEF OneRowInv, SameInv
<1>. USE DEF UsersInv
<1>1. CASE Initialize \/ SqlConnect \/ MongoConnect \/ ConnectFails \/ Shutdown
           \/ UNCHANGED dbVars
  <2>1. UNCHANGED <<rows, what, step, result>> /\ driver \in {"none", "mysql"}
    BY <1>1 DEF Initialize, SqlConnect, MongoConnect, ConnectFails, Shutdown, dbVars
  <2>2. CASE driver = "mysql"
    BY <2>1, <2>2 DEF OneRowInv, SameInv, Is
  <2>3. CASE driver = "none"
    BY <2>1, <2>3 DEF OneRowInv, SameInv, BeforeInv, WaitInv
  <2>. QED BY <2>1, <2>2, <2>3
<1>2. ASSUME NEW c \in Calls, (\E kind \in Asked[c] : Call(c, kind)) \/ CallOnClosed(c)
      PROVE  OneRowInv' /\ SameInv'
  <2>1. driver = "mysql" /\ UNCHANGED rows /\ step'[c] # "returned"
    BY <1>2 DEF Call, CallOnClosed, Throws, DbTypeOK
  <2>2. RowKept
    BY <2>1 DEF RowKept, OneRowInv
  <2>3. \A d \in Calls \ {c} : /\ what'[d] = what[d] /\ step'[d] = step[d]
                               /\ result'[d] = result[d]
    BY <1>2 DEF Call, CallOnClosed, Throws, DbTypeOK
  <2>. QED BY <2>1, <2>2, <2>3, SameKept
<1>3. ASSUME NEW c \in Calls,
             \/ FindUser(c) \/ FindTransaction(c) \/ FindBalance(c)
             \/ FindSetting(c) \/ FindAdmin(c)
             \/ GetOrFindNone(c)
             \/ CreateUser(c) \/ CreateTransaction(c) \/ CreateAdmin(c)
             \/ SqlUpdateUser(c) \/ SqlUpdateTransaction(c) \/ SqlReadBack(c)
             \/ UpsertBalance(c) \/ SetSetting(c) \/ ConnectionBreaks(c)
      PROVE  OneRowInv' /\ SameInv'
  <2>1. driver = "mysql" /\ Reachable /\ what' = what
    BY <1>3 DEF FindUser, FindTransaction, FindBalance, FindSetting, FindAdmin, Find,
      GetOrFindNone, CreateUser, CreateTransaction, CreateAdmin, Insert, SqlUpdateUser,
      SqlUpdateTransaction, SqlUpdate, SqlReadBack, UpsertBalance, SetSetting, Upsert,
      ConnectionBreaks
  <2>2. \A d \in Calls \ {c} : step'[d] = step[d] /\ result'[d] = result[d]
    BY <1>3 DEF FindUser, FindTransaction, FindBalance, FindSetting, FindAdmin, Find,
      GetOrFindNone, CreateUser, CreateTransaction, CreateAdmin, Insert, SqlUpdateUser,
      SqlUpdateTransaction, SqlUpdate, SqlReadBack, UpsertBalance, SetSetting, Upsert,
      ConnectionBreaks, Returns, Throws, DbTypeOK
  <2>. SUFFICES /\ RowKept
                /\ Is(c, "getOrCreate", "users") /\ step'[c] = "returned" =>
                       \E r \in rows'["users"] : result'[c] = {r.id}
    <3>1. Is(c, "getOrCreate", "users")' <=> Is(c, "getOrCreate", "users")
      BY <2>1 DEF Is
    <3>. QED BY <2>1, <2>2, <3>1, SameKept
  <2>3. UNCHANGED rows => RowKept
    BY <2>1 DEF RowKept, OneRowInv
  <2>4. CASE FindUser(c) \/ FindTransaction(c) \/ FindBalance(c) \/ FindSetting(c)
             \/ FindAdmin(c) \/ SqlReadBack(c)
    BY <2>3, <2>4 DEF FindUser, FindTransaction, FindBalance, FindSetting, FindAdmin,
      Find, SqlReadBack, WaitInv, Is
  <2>5. CASE GetOrFindNone(c)
    BY <2>3, <2>5 DEF GetOrFindNone, Returns, DbTypeOK
  <2>6. CASE CreateUser(c) \/ CreateTransaction(c) \/ CreateAdmin(c)
    <3>1. PICK t \in Tables :
                 Insert(c, t) /\ (Is(c, "getOrCreate", "users") => t = "users")
      BY <2>6 DEF CreateUser, CreateTransaction, CreateAdmin, Tables, Is
    <3>2. CASE step'[c] = "thrown" /\ UNCHANGED rows
      BY <2>3, <3>2
    <3>3. CASE /\ Fits(t) /\ rows' = [rows EXCEPT ![t] = @ \cup {NewRow(c)}]
               /\ result'[c] = {c}
      <4>1. NewRow(c).id = c
        BY DEF NewRow
      <4>. QED BY <2>1, <3>1, <3>3, <4>1, InsertKeeps
    <3>. QED BY <3>1, <3>2, <3>3 DEF Insert, Returns, Throws, DbTypeOK
  <2>7. CASE SqlUpdateUser(c) \/ SqlUpdateTransaction(c)
    <3>1. PICK t \in Tables : SqlUpdate(c, t)
      BY <2>7 DEF SqlUpdateUser, SqlUpdateTransaction, Tables
    <3>2. step'[c] = "written"
      BY <3>1 DEF SqlUpdate, DbTypeOK
    <3>3. RowKept
      BY <2>1, <2>3, <3>1, TouchKeeps DEF SqlUpdate
    <3>. QED BY <3>2, <3>3
  <2>8. CASE UpsertBalance(c) \/ SetSetting(c)
    <3>1. rows'["users"] = rows["users"]
      BY <2>8 DEF UpsertBalance, SetSetting, Upsert, Put, DbTypeOK, Tables
    <3>2. ~Is(c, "getOrCreate", "users")
      BY <2>8 DEF UpsertBalance, SetSetting, Upsert, Is
    <3>. QED BY <2>1, <3>1, <3>2 DEF RowKept, OneRowInv
  <2>9. CASE ConnectionBreaks(c)
    <3>. DEFINE t == what[c][2]
    <3>1. t \in Tables /\ step'[c] = "thrown" /\ (Is(c, "upsert", t) => t # "users")
      BY <2>9 DEF ConnectionBreaks, Throws, Is, DbTypeOK, CallKinds, NoCall, Creates,
        Updates, Upserts, Tables
    <3>2. CASE \E r \in rows[t] : Touch(c, t, r)
      BY <2>1, <3>1, <3>2, TouchKeeps
    <3>3. CASE Fits(t) /\ rows' = [rows EXCEPT ![t] = @ \cup {NewRow(c)}]
      BY <2>1, <3>1, <3>3, InsertKeeps
    <3>4. CASE Is(c, "upsert", t) /\ Put(c, t)
      <4>1. rows'["users"] = rows["users"]
        BY <3>1, <3>4 DEF Put, DbTypeOK, Tables
      <4>. QED BY <2>1, <3>1, <4>1 DEF RowKept, OneRowInv
    <3>. QED BY <2>3, <2>9, <3>1, <3>2, <3>3, <3>4 DEF ConnectionBreaks
  <2>. QED BY <1>3, <2>4, <2>5, <2>6, <2>7, <2>8, <2>9
<1>4. ASSUME NEW c \in Calls, MongoUpdateUser(c) \/ MongoUpdateTransaction(c)
      PROVE  FALSE
  BY <1>4 DEF MongoUpdateUser, MongoUpdateTransaction, MongoUpdate
<1>. QED BY <1>1, <1>2, <1>3, <1>4 DEF DbNext

\* The tables, their index, the calls and the user's row together.
THEOREM DatabaseInvariance == DbSpec => [](DbTypeOK /\ UsersInv)
<1>1. DbInit => DbTypeOK /\ UsersInv
  BY InitUsers
<1>2. DbTypeOK /\ UsersInv /\ [DbNext]_dbVars => (DbTypeOK /\ UsersInv)'
  BY DbTypeStep, BeforeStep, WaitStep, SameStep DEF UsersInv
<1>. QED BY <1>1, <1>2, PTL DEF DbSpec

\* users.getOrCreate on MySQL: whoever gets a user gets the same one.
THEOREM OneUserForAll == DbSpec => []OneUserEach
<1>1. DbTypeOK /\ UsersInv => OneUserEach
  BY DEF UsersInv, SameInv, OneRowInv, OneUserEach
<1>. QED BY <1>1, DatabaseInvariance, PTL

-----------------------------------------------------------------------------
(* The map of handlers and Redis agree once all is answered, for any number *)
(* of subscribers, messages and calls that overlap.                        *)
(*                                                                         *)
(* Commands are executed and answered in the order they were sent, and a   *)
(* SUBSCRIBE is only sent where the map had no entry, an UNSUBSCRIBE where *)
(* it had one.  So the commands on the wire lead from what Redis has to    *)
(* what the map has, and the replies to read lead from what the list of    *)
(* channels shows to what Redis has (Path).                                *)
\* How often a subscription is there, before and after a command or a message
Turn(verb, before, after) ==
    \/ verb = "SUBSCRIBE" /\ before = 0 /\ after = 1
    \/ verb = "UNSUBSCRIBE" /\ before = 1 /\ after = 0
    \/ verb \in {"own", "message"} /\ before = after

\* Read in order, queue leads from one count of subscriptions to another.
Path(queue, from, to) ==
    \E count \in [0 .. Len(queue) -> {0, 1}] :
        /\ count[0] = from /\ count[Len(queue)] = to
        /\ \A i \in 1 .. Len(queue) : Turn(queue[i][2], count[i - 1], count[i])

\* A subscription there is, and an entry
InRedis == IF subscribed THEN 1 ELSE 0
InMap == IF entry = 0 THEN 0 ELSE 1

OrderInv ==
    brokerFaults = 0 => Path(wire, InRedis, InMap) /\ Path(inbox, channels, InRedis)

\* A SUBSCRIBE and its reply belong to a call with a handler.
HandlerInv ==
    /\ \A i \in DOMAIN wire :
           wire[i][2] = "SUBSCRIBE" => handler[wire[i][1]] \in Handlers
    /\ \A i \in DOMAIN inbox :
           inbox[i][2] = "SUBSCRIBE" => handler[inbox[i][1]] \in Handlers

-----------------------------------------------------------------------------
(* Queues.                                                                 *)

\* Of an empty queue both ends are the same.
LEMMA PathEmpty ==
    ASSUME NEW from, NEW to
    PROVE  Path(<<>>, from, to) <=> from = to /\ from \in {0, 1}
<1>1. ASSUME Path(<<>>, from, to) PROVE from = to /\ from \in {0, 1}
  BY <1>1 DEF Path
<1>2. ASSUME from = to, from \in {0, 1} PROVE Path(<<>>, from, to)
  <2>. DEFINE count == [i \in 0 .. 0 |-> from]
  <2>1. Len(<<>>) = 0 /\ 0 .. 0 = {0}
    OBVIOUS
  <2>2. count \in [0 .. 0 -> {0, 1}] /\ count[0] = from
    BY <1>2, <2>1
  <2>. HIDE DEF count
  <2>3. \A i \in 1 .. Len(<<>>) : Turn(<<>>[i][2], count[i - 1], count[i])
    BY <2>1
  <2>4. count \in [0 .. Len(<<>>) -> {0, 1}] /\ count[0] = from /\ count[Len(<<>>)] = to
    BY <1>2, <2>1, <2>2
  <2>. QED BY <2>3, <2>4 DEF Path
<1>. QED BY <1>1, <1>2

\* One more command leads on from where the queue led.
LEMMA PathAppend ==
    ASSUME NEW T, NEW queue \in Seq(T), NEW from, NEW mid, NEW to \in {0, 1},
           NEW x \in T, Path(queue, from, mid), Turn(x[2], mid, to)
    PROVE  Path(Append(queue, x), from, to)
<1>. DEFINE n == Len(queue)
            longer == Append(queue, x)
<1>1. PICK count \in [0 .. n -> {0, 1}] :
          /\ count[0] = from /\ count[n] = mid
          /\ \A i \in 1 .. n : Turn(queue[i][2], count[i - 1], count[i])
  BY DEF Path
<1>2. n \in Nat /\ Len(longer) = n + 1 /\ longer[n + 1] = x
      /\ \A i \in 1 .. n : longer[i] = queue[i]
  OBVIOUS
<1>. DEFINE on == [i \in 0 .. n + 1 |-> IF i = n + 1 THEN to ELSE count[i]]
<1>3. /\ on \in [0 .. n + 1 -> {0, 1}] /\ on[0] = from /\ on[n + 1] = to
      /\ on[n] = mid
  BY <1>1, <1>2
<1>4. ASSUME NEW i \in 1 .. n + 1 PROVE Turn(longer[i][2], on[i - 1], on[i])
  <2>1. CASE i = n + 1
    BY <1>2, <1>3, <2>1
  <2>2. CASE i \in 1 .. n
    BY <1>1, <1>2, <2>2
  <2>. QED BY <1>2, <2>1, <2>2
<1>. QED BY <1>2, <1>3, <1>4 DEF Path

\* Without its first command a queue leads on from where that led.
LEMMA PathTail ==
    ASSUME NEW T, NEW queue \in Seq(T), queue # <<>>, NEW from, NEW to,
           Path(queue, from, to)
    PROVE  \E mid \in {0, 1} : Turn(Head(queue)[2], from, mid) /\ Path(Tail(queue), mid, to)
<1>. DEFINE n == Len(queue)
            rest == Tail(queue)
<1>1. PICK count \in [0 .. n -> {0, 1}] :
          /\ count[0] = from /\ count[n] = to
          /\ \A i \in 1 .. n : Turn(queue[i][2], count[i - 1], count[i])
  BY DEF Path
<1>2. n \in Nat /\ n >= 1 /\ Len(rest) = n - 1 /\ Head(queue) = queue[1]
      /\ \A i \in 1 .. n - 1 : rest[i] = queue[i + 1]
  OBVIOUS
<1>. DEFINE on == [i \in 0 .. n - 1 |-> count[i + 1]]
<1>3. on \in [0 .. n - 1 -> {0, 1}] /\ on[0] = count[1] /\ on[n - 1] = to
  BY <1>1, <1>2
<1>4. ASSUME NEW i \in 1 .. n - 1 PROVE Turn(rest[i][2], on[i - 1], on[i])
  <2>1. i + 1 \in 1 .. n /\ i - 1 \in 0 .. n - 1 /\ i \in 0 .. n - 1 /\ i - 1 + 1 = i
        /\ i + 1 - 1 = i
    BY <1>2
  <2>2. on[i - 1] = count[i] /\ on[i] = count[i + 1] /\ rest[i] = queue[i + 1]
    BY <1>2, <2>1
  <2>3. Turn(queue[i + 1][2], count[i + 1 - 1], count[i + 1])
    BY <1>1, <2>1
  <2>. QED BY <2>1, <2>2, <2>3
<1>5. Path(rest, count[1], to)
  BY <1>2, <1>3, <1>4 DEF Path
<1>6. Turn(Head(queue)[2], from, count[1]) /\ count[1] \in {0, 1}
  <2>1. 1 \in 1 .. n /\ 1 \in 0 .. n /\ 1 - 1 = 0
    BY <1>2
  <2>. QED BY <1>1, <1>2, <2>1
<1>. QED BY <1>5, <1>6

-----------------------------------------------------------------------------
\* Nothing is sent, executed or heard before the first call.
LEMMA InitBroker == BrokerInit => BrokerTypeOK /\ HandlerInv /\ OrderInv
<1>. SUFFICES ASSUME BrokerInit PROVE BrokerTypeOK /\ HandlerInv /\ OrderInv
  OBVIOUS
<1>1. BrokerTypeOK /\ HandlerInv
  <2>1. 0 \in 0 .. MaxBrokerCalls /\ 0 \in 0 .. MaxMessages /\ 0 \in 0 .. MaxBrokerFaults
    BY BrokerAssumption
  <2>2. <<>> \in Seq(BrokerCalls \X Verbs)
        /\ <<>> \in Seq((0 .. MaxBrokerCalls) \X (Verbs \cup {"own", "message"}))
        /\ DOMAIN <<>> = {}
    OBVIOUS
  <2>. QED BY <2>1, <2>2 DEF BrokerInit, BrokerTypeOK, HandlerInv
<1>2. Path(<<>>, 0, 0)
  BY PathEmpty
<1>. QED BY <1>1, <1>2 DEF BrokerInit, OrderInv, InRedis, InMap

\* Every step keeps the shape of the map, the wire, the inbox and the calls.
LEMMA BrokerTypeStep ==
    BrokerTypeOK /\ HandlerInv /\ [BrokerNext]_brokerVars => BrokerTypeOK'
<1>. SUFFICES ASSUME BrokerTypeOK, HandlerInv, [BrokerNext]_brokerVars
              PROVE  BrokerTypeOK'
  OBVIOUS
<1>. USE BrokerAssumption DEF BrokerTypeOK, BrokerCalls
<1>1. ASSUME NEW c \in BrokerCalls, NEW h \in Handlers, Subscribe(c, h)
      PROVE  BrokerTypeOK'
  BY <1>1 DEF Subscribe, Send, Verbs
<1>2. ASSUME NEW c \in BrokerCalls, NEW h \in Handlers, Join(c, h)
      PROVE  BrokerTypeOK'
  BY <1>2 DEF Join, Ends
<1>3. ASSUME NEW c \in BrokerCalls, NEW h \in Handlers, Leave(c, h)
      PROVE  BrokerTypeOK'
  <2>1. members' \in [BrokerCalls -> SUBSET Handlers]
    BY <1>3 DEF Leave
  <2>2. CASE Forget(c) /\ Send(c, "UNSUBSCRIBE")
    BY <1>3, <2>1, <2>2 DEF Leave, Forget, Send, Verbs
  <2>3. CASE Ends(c) /\ UNCHANGED <<entry, wire>>
    BY <1>3, <2>1, <2>3 DEF Leave, Ends
  <2>. QED BY <1>3, <2>2, <2>3 DEF Leave
<1>4. ASSUME NEW c \in BrokerCalls, LeaveAll(c) PROVE BrokerTypeOK'
  BY <1>4 DEF LeaveAll, Forget, Send, Verbs
<1>5. CASE Execute
  <2>1. Head(wire) \in BrokerCalls \X Verbs /\ Tail(wire) \in Seq(BrokerCalls \X Verbs)
    BY <1>5 DEF Execute
  <2>2. Head(wire) \in (0 .. MaxBrokerCalls) \X (Verbs \cup {"own", "message"})
    BY <2>1
  <2>. QED BY <1>5, <2>1, <2>2 DEF Execute
<1>6. CASE Reject
  <2>1. Tail(wire) \in Seq(BrokerCalls \X Verbs)
    BY <1>6 DEF Reject
  <2>. QED BY <1>6, <2>1 DEF Reject
<1>7. CASE ReadReply
  <2>. DEFINE c == Head(inbox)[1]
  <2>1. inbox # <<>> /\ Head(inbox) = inbox[1] /\ 1 \in DOMAIN inbox
        /\ inbox' = Tail(inbox)
        /\ Tail(inbox) \in Seq((0 .. MaxBrokerCalls) \X (Verbs \cup {"own", "message"}))
    BY <1>7 DEF ReadReply
  <2>2. Head(inbox)[2] = "SUBSCRIBE" => handler[c] \in Handlers
    BY <2>1 DEF HandlerInv
  <2>3. members' \in [BrokerCalls -> SUBSET Handlers] /\ channels' \in Nat
    <3>1. CASE Head(inbox)[2] = "SUBSCRIBE" /\ Subscribed(c)
      <4>1. members' = [members EXCEPT ![c] = @ \cup {handler[c]}] /\ channels' = channels + 1
        BY <3>1 DEF Subscribed
      <4>. DEFINE h == handler[c]
      <4>2. h \in Handlers /\ members' = [members EXCEPT ![c] = @ \cup {h}]
        BY <2>2, <3>1, <4>1
      <4>. HIDE DEF h
      <4>3. members' \in [BrokerCalls -> SUBSET Handlers]
        BY <4>2
      <4>. QED BY <4>1, <4>3
    <3>2. CASE Unsubscribed(c)
      BY <3>2 DEF Unsubscribed
    <3>. QED BY <1>7, <3>1, <3>2 DEF ReadReply
  <2>. QED BY <1>7, <2>1, <2>3 DEF ReadReply, Ends
<1>8. CASE HandleMessage
  <2>1. Tail(inbox) \in Seq((0 .. MaxBrokerCalls) \X (Verbs \cup {"own", "message"}))
    BY <1>8 DEF HandleMessage
  <2>2. reached' \subseteq Handlers
    BY <1>8 DEF HandleMessage
  <2>. QED BY <1>8, <2>1, <2>2 DEF HandleMessage
<1>9. ASSUME NEW own \in BOOLEAN, Publish(own) PROVE BrokerTypeOK'
  <2>1. <<0, IF own THEN "own" ELSE "message">>
            \in (0 .. MaxBrokerCalls) \X (Verbs \cup {"own", "message"})
    OBVIOUS
  <2>. QED BY <1>9, <2>1 DEF Publish
<1>10. CASE UNCHANGED brokerVars
  BY <1>10 DEF brokerVars
<1>. QED BY <1>1, <1>2, <1>3, <1>4, <1>5, <1>6, <1>7, <1>8, <1>9, <1>10 DEF BrokerNext

-----------------------------------------------------------------------------
\* The handler of a call is there from its SUBSCRIBE on.
LEMMA HandlerStep ==
    BrokerTypeOK /\ HandlerInv /\ [BrokerNext]_brokerVars => HandlerInv'
<1>. SUFFICES ASSUME BrokerTypeOK, HandlerInv, [BrokerNext]_brokerVars
              PROVE  HandlerInv'
  OBVIOUS
<1>. DEFINE Item == (0 .. MaxBrokerCalls) \X (Verbs \cup {"own", "message"})
<1>0. /\ wire \in Seq(BrokerCalls \X Verbs) /\ inbox \in Seq(Item)
      /\ handler \in [BrokerCalls -> Handlers \cup {NoHandler}]
  BY DEF BrokerTypeOK
<1>1. ASSUME NEW c \in BrokerCalls, NEW h \in Handlers, Subscribe(c, h)
      PROVE  HandlerInv'
  <2>1. /\ handler' = [handler EXCEPT ![c] = h]
        /\ wire' = Append(wire, <<c, "SUBSCRIBE">>) /\ inbox' = inbox
    BY <1>1 DEF Subscribe, Send
  <2>2. \A d : handler[d] \in Handlers /\ d \in BrokerCalls => handler'[d] \in Handlers
    BY <1>0, <2>1
  <2>3. \A d : handler[d] \in Handlers /\ d \notin BrokerCalls => handler'[d] \in Handlers
    BY <1>0, <2>1
  <2>4. handler'[c] \in Handlers
    BY <1>0, <2>1
  <2>5. \A i \in DOMAIN wire' : /\ i \in DOMAIN wire /\ wire'[i] = wire[i]
                                \/ wire'[i] = <<c, "SUBSCRIBE">>
    BY <1>0, <2>1
  <2>. QED BY <2>1, <2>2, <2>3, <2>4, <2>5 DEF HandlerInv
<1>2. ASSUME NEW c \in BrokerCalls, Send(c, "UNSUBSCRIBE"), UNCHANGED <<inbox, handler>>
      PROVE  HandlerInv'
  <2>1. wire' = Append(wire, <<c, "UNSUBSCRIBE">>)
    BY <1>2 DEF Send
  <2>2. \A i \in DOMAIN wire' : /\ i \in DOMAIN wire /\ wire'[i] = wire[i]
                                \/ wire'[i] = <<c, "UNSUBSCRIBE">>
    BY <1>0, <2>1
  <2>. QED BY <1>2, <2>2 DEF HandlerInv
<1>3. CASE UNCHANGED <<wire, inbox, handler>>
  BY <1>3 DEF HandlerInv
<1>4. CASE Execute
  <2>1. /\ wire # <<>> /\ wire' = Tail(wire) /\ inbox' = Append(inbox, Head(wire))
        /\ handler' = handler
    BY <1>4 DEF Execute
  <2>2. \A i \in DOMAIN wire' : i + 1 \in DOMAIN wire /\ wire'[i] = wire[i + 1]
    BY <1>0, <2>1
  <2>3. Head(wire) = wire[1] /\ 1 \in DOMAIN wire /\ Head(wire) \in BrokerCalls \X Verbs
    BY <1>0, <2>1
  <2>4. Head(wire) \in Item
    BY <2>3 DEF BrokerCalls
  <2>5. \A i \in DOMAIN inbox' : /\ i \in DOMAIN inbox /\ inbox'[i] = inbox[i]
                                 \/ inbox'[i] = wire[1]
    BY <1>0, <2>1, <2>3, <2>4
  <2>. QED BY <2>1, <2>2, <2>3, <2>5 DEF HandlerInv
<1>5. CASE Reject
  <2>1. wire # <<>> /\ wire' = Tail(wire) /\ UNCHANGED <<inbox, handler>>
    BY <1>5 DEF Reject
  <2>2. \A i \in DOMAIN wire' : i + 1 \in DOMAIN wire /\ wire'[i] = wire[i + 1]
    BY <1>0, <2>1
  <2>. QED BY <2>1, <2>2 DEF HandlerInv
<1>6. CASE ReadReply \/ HandleMessage
  <2>1. inbox # <<>> /\ inbox' = Tail(inbox) /\ UNCHANGED <<wire, handler>>
    BY <1>6 DEF ReadReply, HandleMessage
  <2>2. \A i \in DOMAIN inbox' : i + 1 \in DOMAIN inbox /\ inbox'[i] = inbox[i + 1]
    BY <1>0, <2>1
  <2>. QED BY <2>1, <2>2 DEF HandlerInv
<1>7. ASSUME NEW own \in BOOLEAN, Publish(own) PROVE HandlerInv'
  <2>. DEFINE x == <<0, IF own THEN "own" ELSE "message">>
  <2>1. inbox' = Append(inbox, x) /\ UNCHANGED <<wire, handler>>
    BY <1>7 DEF Publish
  <2>2. x[2] # "SUBSCRIBE" /\ x \in Item
    BY BrokerAssumption
  <2>. HIDE DEF x
  <2>3. \A i \in DOMAIN inbox' : /\ i \in DOMAIN inbox /\ inbox'[i] = inbox[i]
                                 \/ inbox'[i] = x
    BY <1>0, <2>1, <2>2
  <2>. QED BY <2>1, <2>2, <2>3 DEF HandlerInv
<1>. QED BY <1>1, <1>2, <1>3, <1>4, <1>5, <1>6, <1>7 DEF BrokerNext, brokerVars, Join,
  Leave, LeaveAll

-----------------------------------------------------------------------------
\* Commands are sent, executed and answered in order.
LEMMA OrderStep ==
    BrokerTypeOK /\ OrderInv /\ [BrokerNext]_brokerVars => OrderInv'
<1>. SUFFICES ASSUME BrokerTypeOK, OrderInv, [BrokerNext]_brokerVars, brokerFaults' = 0
              PROVE  Path(wire, InRedis, InMap)' /\ Path(inbox, channels, InRedis)'
  BY DEF OrderInv
<1>. DEFINE Item == (0 .. MaxBrokerCalls) \X (Verbs \cup {"own", "message"})
<1>0. /\ wire \in Seq(BrokerCalls \X Verbs) /\ inbox \in Seq(Item)
      /\ channels \in Nat /\ entry \in 0 .. MaxBrokerCalls /\ subscribed \in BOOLEAN
      /\ brokerFaults \in Nat
  BY BrokerAssumption DEF BrokerTypeOK
<1>n. brokerFaults = 0
  BY <1>0 DEF BrokerNext, Subscribe, Join, Leave, LeaveAll, Execute, Reject, ReadReply,
    HandleMessage, Publish, brokerVars
<1>p. Path(wire, InRedis, InMap) /\ Path(inbox, channels, InRedis)
  BY <1>n DEF OrderInv
<1>c. \A c \in BrokerCalls : c # 0
  BY DEF BrokerCalls
<1>1. ASSUME NEW c \in BrokerCalls, NEW h \in Handlers, Subscribe(c, h)
      PROVE  Path(wire, InRedis, InMap)' /\ Path(inbox, channels, InRedis)'
  <2>1. /\ wire' = Append(wire, <<c, "SUBSCRIBE">>) /\ entry = 0 /\ entry' = c
        /\ UNCHANGED <<inbox, channels, subscribed>>
    BY <1>1 DEF Subscribe, Send
  <2>2. InMap = 0 /\ InMap' = 1 /\ InRedis' = InRedis
    BY <1>c, <2>1 DEF InMap, InRedis
  <2>3. Turn(<<c, "SUBSCRIBE">>[2], 0, 1) /\ <<c, "SUBSCRIBE">> \in BrokerCalls \X Verbs
    BY DEF Turn, Verbs
  <2>4. Path(Append(wire, <<c, "SUBSCRIBE">>), InRedis, 1)
    BY <1>0, <1>p, <2>2, <2>3, PathAppend
  <2>. QED BY <1>p, <2>1, <2>2, <2>4
<1>2. ASSUME NEW c \in BrokerCalls, entry # 0, Forget(c), Send(c, "UNSUBSCRIBE"),
             UNCHANGED <<inbox, channels, subscribed>>
      PROVE  Path(wire, InRedis, InMap)' /\ Path(inbox, channels, InRedis)'
  <2>1. wire' = Append(wire, <<c, "UNSUBSCRIBE">>) /\ entry' = 0
    BY <1>2 DEF Send, Forget
  <2>2. InMap = 1 /\ InMap' = 0 /\ InRedis' = InRedis
    BY <1>2, <2>1 DEF InMap, InRedis
  <2>3. Turn(<<c, "UNSUBSCRIBE">>[2], 1, 0) /\ <<c, "UNSUBSCRIBE">> \in BrokerCalls \X Verbs
    BY DEF Turn, Verbs
  <2>4. Path(Append(wire, <<c, "UNSUBSCRIBE">>), InRedis, 0)
    BY <1>0, <1>p, <2>2, <2>3, PathAppend
  <2>. QED BY <1>2, <1>p, <2>1, <2>2, <2>4
<1>3. CASE UNCHANGED <<wire, inbox, channels, subscribed, entry>>
  <2>1. InMap' = InMap /\ InRedis' = InRedis
    BY <1>3 DEF InMap, InRedis
  <2>. QED BY <1>3, <1>p, <2>1
<1>4. CASE Execute
  <2>1. /\ wire # <<>> /\ wire' = Tail(wire) /\ inbox' = Append(inbox, Head(wire))
        /\ subscribed' = (Head(wire)[2] = "SUBSCRIBE") /\ UNCHANGED <<entry, channels>>
    BY <1>4 DEF Execute
  <2>2. PICK mid \in {0, 1} : Turn(Head(wire)[2], InRedis, mid) /\ Path(Tail(wire), mid, InMap)
    BY <1>0, <1>p, <2>1, PathTail
  <2>3. Head(wire) \in BrokerCalls \X Verbs
    BY <1>0, <2>1
  <2>4. Head(wire) \in Item /\ Head(wire)[2] \in Verbs
    BY <2>3 DEF BrokerCalls
  <2>5. InRedis' = mid /\ InMap' = InMap
    BY <2>1, <2>2, <2>4 DEF InRedis, InMap, Turn, Verbs
  <2>6. Path(Append(inbox, Head(wire)), channels, mid)
    BY <1>0, <1>p, <2>2, <2>4, PathAppend
  <2>. QED BY <2>1, <2>2, <2>5, <2>6
<1>5. ASSUME Reject PROVE FALSE
  BY <1>0, <1>5 DEF Reject
<1>6. CASE ReadReply \/ HandleMessage
  <2>1. inbox # <<>> /\ inbox' = Tail(inbox) /\ UNCHANGED <<wire, entry, subscribed>>
    BY <1>6 DEF ReadReply, HandleMessage
  <2>2. PICK mid \in {0, 1} : Turn(Head(inbox)[2], channels, mid)
                              /\ Path(Tail(inbox), mid, InRedis)
    BY <1>0, <1>p, <2>1, PathTail
  <2>3. channels' = mid
    BY <1>6, <2>2 DEF ReadReply, HandleMessage, Subscribed, Unsubscribed, Turn, Verbs
  <2>4. InMap' = InMap /\ InRedis' = InRedis
    BY <2>1 DEF InMap, InRedis
  <2>. QED BY <1>p, <2>1, <2>2, <2>3, <2>4
<1>7. ASSUME NEW own \in BOOLEAN, Publish(own)
      PROVE  Path(wire, InRedis, InMap)' /\ Path(inbox, channels, InRedis)'
  <2>. DEFINE x == <<0, IF own THEN "own" ELSE "message">>
  <2>1. inbox' = Append(inbox, x) /\ UNCHANGED <<wire, entry, subscribed, channels>>
    BY <1>7 DEF Publish
  <2>2. InMap' = InMap /\ InRedis' = InRedis /\ InRedis \in {0, 1}
    BY <2>1 DEF InMap, InRedis
  <2>3. x[2] \in {"own", "message"} /\ x \in Item
    BY BrokerAssumption
  <2>. HIDE DEF x
  <2>4. Turn(x[2], InRedis, InRedis)
    BY <2>3 DEF Turn
  <2>5. Path(Append(inbox, x), channels, InRedis)
    BY <1>0, <1>p, <2>2, <2>3, <2>4, PathAppend
  <2>. QED BY <1>p, <2>1, <2>2, <2>5
<1>. QED BY <1>1, <1>2, <1>3, <1>4, <1>5, <1>6, <1>7 DEF BrokerNext, brokerVars, Join,
  Leave, LeaveAll

\* The shape, the handlers and the order of commands and replies together.
THEOREM BrokerInvariance == BrokerSpec => [](BrokerTypeOK /\ HandlerInv /\ OrderInv)
<1>1. BrokerInit => BrokerTypeOK /\ HandlerInv /\ OrderInv
  BY InitBroker
<1>2. BrokerTypeOK /\ HandlerInv /\ OrderInv /\ [BrokerNext]_brokerVars
          => (BrokerTypeOK /\ HandlerInv /\ OrderInv)'
  BY BrokerTypeStep, HandlerStep, OrderStep
<1>. QED BY <1>1, <1>2, PTL DEF BrokerSpec

\* MessageBroker.subscribe, unsubscribe: once all is answered and nothing was
\* rejected, the map, Redis and the list of channels agree.
THEOREM MapAgrees == BrokerSpec => []MapFollowsRedis
<1>1. BrokerTypeOK /\ OrderInv => MapFollowsRedis
  <2>. SUFFICES ASSUME BrokerTypeOK, OrderInv, wire = <<>>, inbox = <<>>, brokerFaults = 0
                PROVE  /\ subscribed <=> entry # 0
                       /\ channels = IF subscribed THEN 1 ELSE 0
    BY DEF MapFollowsRedis
  <2>1. InRedis = InMap /\ channels = InRedis
    BY PathEmpty DEF OrderInv
  <2>. QED BY <2>1 DEF InRedis, InMap
<1>. QED BY <1>1, BrokerInvariance, PTL
=============================================================================
