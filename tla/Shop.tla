--------------------------------- MODULE Shop ---------------------------------
(***************************************************************************)
(* The wallet shop of the Discord bot started from index.js: buyers keep a  *)
(* balance, products have a price and a stock of items, and every slash     *)
(* command, modal and donation log is a handler of one Node process over a  *)
(* shared Mongo database.  A handler is a sequence of awaits; handlers of   *)
(* different interactions interleave at each of them.                      *)
(*                                                                         *)
(* A call is one interaction.  An amount n counts halves, because the buy   *)
(* modal accepts a fractional amount: it charges n halves of the price and  *)
(* takes n/2 items, rounded up.  A price is the price of half an item.  The *)
(* buyers have accounts and the testimonial channel is set; whether         *)
(* maintenance mode is on is left open.                                    *)
(***************************************************************************)
EXTENDS Integers, FiniteSets

CONSTANTS Calls,       \* the interactions
          Users,       \* the buyers
          Codes,       \* product codes
          Items,       \* the pieces of stock
          Requests,    \* what may be asked for
          InitList, InitPrices, InitShop, InitBalance,  \* the database at start
          Ids,         \* identities of product and price documents
          MaxFaults    \* bound on failed Mongo and Discord requests and crashes

Kinds == {"buy", "send", "checkstock", "addstock", "addproduct", "removeproduct",
          "changetype", "changecode", "setprice", "credit", "removebalance"}

\* /addbalance and the three donation logs; /removebalance
Money == {"credit", "removebalance"}

Types == {"yes", "script"}

Request == [kind : Kinds, user : Users, code : Codes, new : Codes, type : Types,
            n : Nat \ {0}]

Product == [id : Ids, code : Codes, type : Types]

PriceDoc == [id : Ids, code : Codes, price : Nat \ {0}]

\* where a piece of stock can be besides under a code of the collection
Places == Codes \cup {"unused", "out"}

ASSUME ShopAssumption ==
    /\ Requests \subseteq Request /\ Requests # {}
    /\ IsFiniteSet(Items)
    /\ Codes \cap {"unused", "out"} = {}
    /\ InitList \subseteq Product
    /\ InitPrices \subseteq PriceDoc
    /\ InitShop \in [Items -> Codes \cup {"unused"}]
    /\ InitBalance \in [Users -> Nat]
    /\ MaxFaults \in Nat

VARIABLES
    list,     \* the product collection
    prices,   \* the price collection
    shop,     \* where each piece of stock is
    balance,  \* the Balance of each account
    deposit,  \* its Deposit
    orderNo,  \* the order counter
    req,      \* what each call asks for
    at,       \* where each call stands
    type,     \* the product type a call read
    wallet,   \* the balance a purchase read
    cost,     \* what it will charge, 0 if the product has no price
    left,     \* items still to take, put back or insert
    num,      \* its order number
    got,      \* the items it holds
    paid,     \* whether it has changed the account
    to,       \* who was sent the items
    faults

data == <<list, prices, shop>>
books == <<balance, deposit>>
call == <<req, at, type, wallet, cost, left, num, got, paid, to>>
vars == <<data, books, orderNo, call, faults>>

Final == {"refused", "done", "threw", "crashed"}

Steps == {"idle", "maintenance", "list", "wallet", "price", "count",
                 "recheck", "number", "charge", "reply", "take", "putback",
                 "deliver", "follow", "testimonial", "apology", "write",
                 "writeprice", "writestock"} \cup Final

Running(c) == at[c] \notin {"idle"} \cup Final

Goto(c, there) == at' = [at EXCEPT ![c] = there]

Fault == faults < MaxFaults /\ faults' = faults + 1

\* the documents of a collection findOne may return
Found(collection, code) == {d \in collection : d.code = code}

InStock(code) == {i \in Items : shop[i] = code}

\* turns of `for (let i = 0; i < howmuch; i++)`
Turns(n) == (n + 1) \div 2

-----------------------------------------------------------------------------
(* Mutations: plausible bugs in the definition each Bug... stands for; Next *)
(* uses none of them.                                                      *)

\* findOne instead of findOneAndDelete
BugTakeReadsOnly(c) ==
    /\ at[c] = "take" /\ (req[c].kind = "checkstock" \/ type[c] # "script")
    /\ \E i \in InStock(req[c].code) : got' = [got EXCEPT ![c] = @ \cup {i}]
    /\ left' = [left EXCEPT ![c] = @ - 1]
    /\ Goto(c, IF left[c] = 1 THEN "deliver" ELSE "take")
    /\ UNCHANGED <<data, books, orderNo, req, type, wallet, cost, num, paid, to, faults>>

\* /checkstock lists the stock it deleted and does not save it again
BugPutBackForgets(c) ==
    /\ at[c] = "putback"
    /\ got' = [got EXCEPT ![c] = {}]
    /\ left' = [left EXCEPT ![c] = @ - 1]
    /\ Goto(c, IF left[c] = 1 THEN "done" ELSE "take")
    /\ UNCHANGED <<data, books, orderNo, req, type, wallet, cost, num, paid, to, faults>>

\* the balance is set from the wallet read before, not decremented
BugChargeStale(c) ==
    /\ at[c] = "charge"
    /\ balance' = [balance EXCEPT ![req[c].user] = wallet[c] - cost[c]]
    /\ paid' = [paid EXCEPT ![c] = TRUE]
    /\ Goto(c, "reply")
    /\ UNCHANGED <<data, deposit, orderNo, req, type, wallet, cost, left,
                   num, got, to, faults>>

\* the wallet is not compared with the price
BugMayBuyOnCredit(c) == cost[c] # 0

\* the stock is not compared with the amount
BugEnoughIfAny(c) == InStock(req[c].code) # {}

\* no inner try: the error ends the handler
BugWhenOutThrows(c) == "threw"

\* waiting for stock instead of failing
BugWhenOutWaits(c) == "take"

-----------------------------------------------------------------------------
Init ==
    /\ list = InitList
    /\ prices = InitPrices
    /\ shop = InitShop
    /\ balance = InitBalance
    /\ deposit = InitBalance
    /\ orderNo = 0
    /\ req = [c \in Calls |-> CHOOSE r \in Requests : TRUE]
    /\ at = [c \in Calls |-> "idle"]
    /\ type = [c \in Calls |-> "yes"]
    /\ wallet = [c \in Calls |-> 0]
    /\ cost = [c \in Calls |-> 0]
    /\ left = [c \in Calls |-> 0]
    /\ num = [c \in Calls |-> 0]
    /\ got = [c \in Calls |-> {}]
    /\ paid = [c \in Calls |-> FALSE]
    /\ to = [c \in Calls |-> {}]
    /\ faults = 0

Ask(c, r) ==
    /\ at[c] = "idle"
    /\ req' = [req EXCEPT ![c] = r]
    /\ Goto(c, IF r.kind = "send" THEN "maintenance"
               ELSE IF r.kind \in Money THEN "wallet" ELSE "list")
    /\ UNCHANGED <<data, books, orderNo, type, wallet, cost, left, num, got,
                   paid, to, faults>>

\* only /send asks for the maintenance flag that /setmt toggles
CheckMaintenance(c) ==
    /\ at[c] = "maintenance"
    /\ \E there \in {"list", "refused"} : Goto(c, there)
    /\ UNCHANGED <<data, books, orderNo, req, type, wallet, cost, left, num, got,
                   paid, to, faults>>

AfterList(c) ==
    IF req[c].kind = "buy" THEN "wallet"
    ELSE IF req[c].kind = "send" THEN "price"
    ELSE IF req[c].kind = "checkstock" THEN "count"
    ELSE IF req[c].kind = "addstock" THEN "reply" ELSE "write"

FindProduct(c) ==
    /\ at[c] = "list"
    /\ req[c].kind # "addproduct"
    /\ \E d \in Found(list, req[c].code) : type' = [type EXCEPT ![c] = d.type]
    /\ left' = [left EXCEPT ![c] = IF req[c].kind = "addstock" THEN req[c].n ELSE 0]
    /\ Goto(c, AfterList(c))
    /\ UNCHANGED <<data, books, orderNo, req, wallet, cost, num, got, paid, to,
                   faults>>

\* /addproduct goes on when the code is free, the others when it is taken
FindNoProduct(c) ==
    /\ at[c] = "list"
    /\ Found(list, req[c].code) = {}
    /\ Goto(c, IF req[c].kind = "addproduct" THEN "write" ELSE "refused")
    /\ UNCHANGED <<data, books, orderNo, req, type, wallet, cost, left, num, got,
                   paid, to, faults>>

CodeTaken(c) ==
    /\ at[c] = "list"
    /\ req[c].kind = "addproduct"
    /\ Found(list, req[c].code) # {}
    /\ Goto(c, "refused")
    /\ UNCHANGED <<data, books, orderNo, req, type, wallet, cost, left, num, got,
                   paid, to, faults>>

FindWallet(c) ==
    /\ at[c] = "wallet"
    /\ wallet' = [wallet EXCEPT ![c] = balance[req[c].user]]
    /\ Goto(c, IF req[c].kind = "buy" THEN "price" ELSE "write")
    /\ UNCHANGED <<data, books, orderNo, req, type, cost, left, num, got, paid, to, faults>>

FindPrice(c) ==
    /\ at[c] = "price"
    /\ \E d \in Found(prices, req[c].code) :
           cost' = [cost EXCEPT ![c] = d.price * req[c].n]
    /\ Goto(c, "count")
    /\ UNCHANGED <<data, books, orderNo, req, type, wallet, left, num, got, paid, to, faults>>

\* a purchase refuses after it has counted the stock, /send at once
FindNoPrice(c) ==
    /\ at[c] = "price"
    /\ Found(prices, req[c].code) = {}
    /\ Goto(c, IF req[c].kind = "buy" THEN "count" ELSE "refused")
    /\ UNCHANGED <<data, books, orderNo, req, type, wallet, cost, left, num, got,
                   paid, to, faults>>

Enough(c) ==
    /\ InStock(req[c].code) # {}
    /\ req[c].kind # "checkstock" => 2 * Cardinality(InStock(req[c].code)) >= req[c].n

MayBuy(c) == cost[c] # 0 /\ wallet[c] >= cost[c]

Accepted(c) == Enough(c) /\ (req[c].kind = "buy" => MayBuy(c))

CountStock(c) ==
    /\ at[c] = "count"
    /\ Accepted(c)
    /\ left' = [left EXCEPT ![c] = IF req[c].kind = "checkstock"
                                   THEN Cardinality(InStock(req[c].code))
                                   ELSE Turns(req[c].n)]
    /\ Goto(c, IF req[c].kind = "buy" THEN "number"
               ELSE IF req[c].kind = "send" THEN "recheck" ELSE "reply")
    /\ UNCHANGED <<data, books, orderNo, req, type, wallet, cost, num, got, paid, to, faults>>

Refuse(c) ==
    /\ at[c] = "count"
    /\ ~Accepted(c)
    /\ Goto(c, "refused")
    /\ UNCHANGED <<data, books, orderNo, req, type, wallet, cost, left, num, got,
                   paid, to, faults>>

\* /send reads the type again; without a product `typo.includes` throws
Recheck(c) ==
    /\ at[c] = "recheck"
    /\ \/ /\ \E d \in Found(list, req[c].code) : type' = [type EXCEPT ![c] = d.type]
          /\ Goto(c, "reply")
       \/ /\ Found(list, req[c].code) = {}
          /\ Goto(c, "threw")
          /\ UNCHANGED type
    /\ UNCHANGED <<data, books, orderNo, req, wallet, cost, left, num, got, paid, to, faults>>

\* findOneAndUpdate({}, {$inc: {Order: 1}}, {upsert, new})
NextNumber(c) ==
    /\ at[c] = "number"
    /\ orderNo' = orderNo + 1
    /\ num' = [num EXCEPT ![c] = orderNo']
    /\ Goto(c, IF req[c].kind = "buy" THEN "charge" ELSE "testimonial")
    /\ UNCHANGED <<data, books, req, type, wallet, cost, left, got, paid, to,
                   faults>>

\* What a statement does to the account of a call: updateOne({DiscordID},
\* {$inc}).  /removebalance adds to Deposit what it takes from Balance.
Booked(c) ==
    /\ paid' = [paid EXCEPT ![c] = TRUE]
    /\ \/ /\ req[c].kind = "buy"
          /\ balance' = [balance EXCEPT ![req[c].user] = @ - cost[c]]
          /\ UNCHANGED deposit
       \/ /\ req[c].kind = "credit"
          /\ balance' = [balance EXCEPT ![req[c].user] = @ + req[c].n]
          /\ deposit' = [deposit EXCEPT ![req[c].user] = @ + req[c].n]
       \/ /\ req[c].kind = "removebalance"
          /\ balance' = [balance EXCEPT ![req[c].user] = @ - req[c].n]
          /\ deposit' = [deposit EXCEPT ![req[c].user] = @ + req[c].n]

Charge(c) ==
    /\ at[c] = "charge"
    /\ Booked(c)
    /\ Goto(c, "reply")
    /\ UNCHANGED <<data, orderNo, req, type, wallet, cost, left, num, got, to, faults>>

Reply(c) ==
    /\ at[c] = "reply"
    /\ Goto(c, IF req[c].kind = "addstock" THEN "writestock" ELSE "take")
    /\ UNCHANGED <<data, books, orderNo, req, type, wallet, cost, left, num, got,
                   paid, to, faults>>

\* findOneAndDelete
Take(c) ==
    /\ at[c] = "take"
    /\ req[c].kind = "checkstock" \/ type[c] # "script"
    /\ \E i \in InStock(req[c].code) :
           /\ shop' = [shop EXCEPT ![i] = "out"]
           /\ got' = [got EXCEPT ![c] = @ \cup {i}]
    /\ IF req[c].kind = "checkstock"
       THEN Goto(c, "putback") /\ UNCHANGED left
       ELSE /\ left' = [left EXCEPT ![c] = @ - 1]
            /\ Goto(c, IF left[c] = 1 THEN "deliver" ELSE "take")
    /\ UNCHANGED <<list, prices, books, orderNo, req, type, wallet, cost, num, paid,
                   to, faults>>

\* a script is read, not deleted, and sent once whatever the amount
TakeScript(c) ==
    /\ at[c] = "take"
    /\ req[c].kind # "checkstock" /\ type[c] = "script"
    /\ \E i \in InStock(req[c].code) : got' = [got EXCEPT ![c] = {i}]
    /\ Goto(c, "deliver")
    /\ UNCHANGED <<data, books, orderNo, req, type, wallet, cost, left, num, paid, to, faults>>

\* `send.data` of nothing throws: only a purchase catches it
WhenOut(c) == IF req[c].kind = "buy" THEN "apology" ELSE "threw"

FindNothing(c) ==
    /\ at[c] = "take"
    /\ InStock(req[c].code) = {}
    /\ Goto(c, WhenOut(c))
    /\ UNCHANGED <<data, books, orderNo, req, type, wallet, cost, left, num, got,
                   paid, to, faults>>

\* /checkstock saves what it has just deleted
PutBack(c) ==
    /\ at[c] = "putback"
    /\ shop' = [i \in Items |-> IF i \in got[c] THEN req[c].code ELSE shop[i]]
    /\ got' = [got EXCEPT ![c] = {}]
    /\ left' = [left EXCEPT ![c] = @ - 1]
    /\ Goto(c, IF left[c] = 1 THEN "done" ELSE "take")
    /\ UNCHANGED <<list, prices, books, orderNo, req, type, wallet, cost, num, paid,
                   to, faults>>

\* user.send is not awaited: the buyer gets the file or nobody notices
Deliver(c) ==
    /\ at[c] = "deliver"
    /\ \E dm \in {{}, {"buyer"}} :
           to' = [to EXCEPT ![c] = dm \cup IF req[c].kind = "send" THEN {"owner"} ELSE {}]
    /\ Goto(c, "follow")
    /\ UNCHANGED <<data, books, orderNo, req, type, wallet, cost, left, num, got,
                   paid, faults>>

FollowUp(c) ==
    /\ at[c] = "follow"
    /\ to' = [to EXCEPT ![c] = @ \cup {"owner"}]
    /\ Goto(c, IF req[c].kind = "buy" THEN "testimonial" ELSE "number")
    /\ UNCHANGED <<data, books, orderNo, req, type, wallet, cost, left, num, got,
                   paid, faults>>

Testimonial(c) ==
    /\ at[c] = "testimonial"
    /\ Goto(c, "done")
    /\ UNCHANGED <<data, books, orderNo, req, type, wallet, cost, left, num, got,
                   paid, to, faults>>

\* the catch of a purchase: the owner gets what was taken
Apologise(c) ==
    /\ at[c] = "apology"
    /\ to' = [to EXCEPT ![c] = @ \cup {"owner"}]
    /\ Goto(c, "done")
    /\ UNCHANGED <<data, books, orderNo, req, type, wallet, cost, left, num, got,
                   paid, faults>>

-----------------------------------------------------------------------------
AddProduct(c) ==
    /\ at[c] = "write" /\ req[c].kind = "addproduct"
    /\ \E id \in Ids \ {d.id : d \in list} :
           list' = list \cup {[id |-> id, code |-> req[c].code, type |-> req[c].type]}
    /\ Goto(c, "done")
    /\ UNCHANGED <<prices, shop, books, orderNo, req, type, wallet, cost, left, num,
                   got, paid, to, faults>>

\* deleteOne; the price and the stock stay
RemoveProduct(c) ==
    /\ at[c] = "write" /\ req[c].kind = "removeproduct"
    /\ \E d \in Found(list, req[c].code) : list' = list \ {d}
    /\ Goto(c, "done")
    /\ UNCHANGED <<prices, shop, books, orderNo, req, type, wallet, cost, left, num,
                   got, paid, to, faults>>

ChangeType(c) ==
    /\ at[c] = "write" /\ req[c].kind = "changetype"
    /\ \E d \in Found(list, req[c].code) :
           list' = (list \ {d}) \cup {[id |-> d.id, code |-> d.code, type |-> req[c].type]}
    /\ Goto(c, "done")
    /\ UNCHANGED <<prices, shop, books, orderNo, req, type, wallet, cost, left, num,
                   got, paid, to, faults>>

\* findOneAndUpdate({code}, {price}, {upsert})
SetPrice(c) ==
    /\ at[c] = "write" /\ req[c].kind = "setprice"
    /\ \/ \E d \in Found(prices, req[c].code) :
              prices' = (prices \ {d}) \cup
                  {[id |-> d.id, code |-> d.code, price |-> req[c].n]}
       \/ /\ Found(prices, req[c].code) = {}
          /\ \E id \in Ids \ {d.id : d \in prices} :
                 prices' = prices \cup
                     {[id |-> id, code |-> req[c].code, price |-> req[c].n]}
    /\ Goto(c, "done")
    /\ UNCHANGED <<list, shop, books, orderNo, req, type, wallet, cost, left, num,
                   got, paid, to, faults>>

\* three updateOne, each on one document
ChangeCode(c) ==
    /\ at[c] = "write" /\ req[c].kind = "changecode"
    /\ \E d \in Found(list, req[c].code) :
           list' = (list \ {d}) \cup {[id |-> d.id, code |-> req[c].new, type |-> d.type]}
    /\ Goto(c, "writeprice")
    /\ UNCHANGED <<prices, shop, books, orderNo, req, type, wallet, cost, left, num,
                   got, paid, to, faults>>

ChangePriceCode(c) ==
    /\ at[c] = "writeprice"
    /\ \E d \in Found(prices, req[c].code) :
           prices' = (prices \ {d}) \cup
               {[id |-> d.id, code |-> req[c].new, price |-> d.price]}
    /\ Goto(c, "writestock")
    /\ UNCHANGED <<list, shop, books, orderNo, req, type, wallet, cost, left, num,
                   got, paid, to, faults>>

ChangeStockCode(c) ==
    /\ at[c] = "writestock" /\ req[c].kind = "changecode"
    /\ \E i \in InStock(req[c].code) : shop' = [shop EXCEPT ![i] = req[c].new]
    /\ Goto(c, "done")
    /\ UNCHANGED <<list, prices, books, orderNo, req, type, wallet, cost, left, num,
                   got, paid, to, faults>>

\* the awaits of a command that writes follow each other whatever they yield
AfterWrite(c) ==
    IF req[c].kind # "changecode" \/ at[c] = "writestock" THEN "done"
    ELSE IF at[c] = "write" THEN "writeprice" ELSE "writestock"

\* an update or a deletion that matches no document
WriteNothing(c) ==
    /\ \/ /\ at[c] = "write"
          /\ req[c].kind \in {"removeproduct", "changetype", "changecode"}
          /\ Found(list, req[c].code) = {}
       \/ at[c] = "writeprice" /\ Found(prices, req[c].code) = {}
       \/ /\ at[c] = "writestock" /\ req[c].kind = "changecode"
          /\ InStock(req[c].code) = {}
    /\ Goto(c, AfterWrite(c))
    /\ UNCHANGED <<data, books, orderNo, req, type, wallet, cost, left, num, got,
                   paid, to, faults>>

\* /addstock saves its items one after another
AddStock(c) ==
    /\ at[c] = "writestock" /\ req[c].kind = "addstock"
    /\ \E i \in InStock("unused") : shop' = [shop EXCEPT ![i] = req[c].code]
    /\ left' = [left EXCEPT ![c] = @ - 1]
    /\ Goto(c, IF left[c] = 1 THEN "done" ELSE "writestock")
    /\ UNCHANGED <<list, prices, books, orderNo, req, type, wallet, cost, num, got,
                   paid, to, faults>>

-----------------------------------------------------------------------------
Credit(c) ==
    /\ at[c] = "write" /\ req[c].kind = "credit"
    /\ Booked(c)
    /\ Goto(c, "done")
    /\ UNCHANGED <<data, orderNo, req, type, wallet, cost, left, num, got, to, faults>>

RemoveBalance(c) ==
    /\ at[c] = "write" /\ req[c].kind = "removebalance"
    /\ Booked(c)
    /\ Goto(c, "done")
    /\ UNCHANGED <<data, orderNo, req, type, wallet, cost, left, num, got, to, faults>>

-----------------------------------------------------------------------------
(* Failures.  A request that fails has been executed or not.  After one     *)
(* whose error is swallowed (PutBackFails, WriteFails) the call goes on as   *)
(* after a success, so that an executed one is the success itself.         *)

\* a failed read is caught and yields undefined
WhenUnread(c) ==
    IF at[c] \in {"count", "recheck"} THEN "threw"
    ELSE IF at[c] = "list" /\ req[c].kind = "addproduct" THEN "write"
    ELSE IF at[c] = "price" /\ req[c].kind = "buy" THEN "count" ELSE "refused"

ReadFails(c) ==
    /\ at[c] \in {"list", "wallet", "price", "count", "recheck"}
    /\ Fault
    /\ Goto(c, WhenUnread(c))
    /\ UNCHANGED <<data, books, orderNo, req, type, wallet, cost, left, num, got,
                   paid, to>>

\* without a number the order is number 1
NumberFails(c) ==
    /\ at[c] = "number"
    /\ Fault
    /\ orderNo' \in {orderNo, orderNo + 1}
    /\ num' = [num EXCEPT ![c] = 1]
    /\ Goto(c, IF req[c].kind = "buy" THEN "charge" ELSE "testimonial")
    /\ UNCHANGED <<data, books, req, type, wallet, cost, left, got, paid, to>>

ChargeFails(c) ==
    /\ at[c] = "charge" \/ (at[c] = "write" /\ req[c].kind \in Money)
    /\ Fault
    /\ Booked(c) \/ UNCHANGED <<books, paid>>
    /\ Goto(c, "threw")
    /\ UNCHANGED <<data, orderNo, req, type, wallet, cost, left, num, got, to>>

\* a deletion without an answer: nobody has the item
TakeFails(c) ==
    /\ at[c] = "take"
    /\ Fault
    /\ \/ /\ req[c].kind = "checkstock" \/ type[c] # "script"
          /\ \E i \in InStock(req[c].code) : shop' = [shop EXCEPT ![i] = "out"]
       \/ UNCHANGED shop
    /\ Goto(c, WhenOut(c))
    /\ UNCHANGED <<list, prices, books, orderNo, req, type, wallet, cost, left, num,
                   got, paid, to>>

PutBackFails(c) ==
    /\ at[c] = "putback"
    /\ Fault
    /\ got' = [got EXCEPT ![c] = {}]
    /\ left' = [left EXCEPT ![c] = @ - 1]
    /\ Goto(c, IF left[c] = 1 THEN "done" ELSE "take")
    /\ UNCHANGED <<data, books, orderNo, req, type, wallet, cost, num, paid, to>>

WriteFails(c) ==
    /\ at[c] \in {"write", "writeprice", "writestock"} /\ req[c].kind \notin Money
    /\ Fault
    /\ IF at[c] = "writestock" /\ req[c].kind = "addstock"
       THEN /\ left' = [left EXCEPT ![c] = @ - 1]
            /\ Goto(c, IF left[c] = 1 THEN "done" ELSE "writestock")
       ELSE Goto(c, AfterWrite(c)) /\ UNCHANGED left
    /\ UNCHANGED <<data, books, orderNo, req, type, wallet, cost, num, got, paid, to>>

\* reply, followUp and channel.send may fail
DiscordFails(c) ==
    /\ at[c] \in {"reply", "follow", "testimonial", "apology"}
    /\ Fault
    /\ Goto(c, IF at[c] \in {"reply", "apology"} THEN "threw"
               ELSE IF req[c].kind = "buy" THEN "apology" ELSE "done")
    /\ UNCHANGED <<data, books, orderNo, req, type, wallet, cost, left, num, got,
                   paid, to>>

\* the process dies; Discord does not deliver its interactions again
Crash ==
    /\ Fault
    /\ \E c \in Calls : Running(c)
    /\ at' = [c \in Calls |-> IF Running(c) THEN "crashed" ELSE at[c]]
    /\ UNCHANGED <<data, books, orderNo, req, type, wallet, cost, left, num, got,
                   paid, to>>

-----------------------------------------------------------------------------
Step(c) ==
    \/ CheckMaintenance(c) \/ FindProduct(c) \/ FindNoProduct(c) \/ CodeTaken(c)
    \/ FindWallet(c) \/ FindPrice(c) \/ FindNoPrice(c) \/ CountStock(c) \/ Refuse(c)
    \/ Recheck(c) \/ NextNumber(c) \/ Charge(c) \/ Reply(c) \/ Take(c)
    \/ TakeScript(c) \/ FindNothing(c) \/ PutBack(c) \/ Deliver(c) \/ FollowUp(c)
    \/ Testimonial(c) \/ Apologise(c) \/ AddProduct(c) \/ RemoveProduct(c)
    \/ ChangeType(c) \/ SetPrice(c) \/ ChangeCode(c) \/ ChangePriceCode(c)
    \/ ChangeStockCode(c) \/ WriteNothing(c) \/ AddStock(c) \/ Credit(c)
    \/ RemoveBalance(c)

Fails(c) ==
    \/ ReadFails(c) \/ NumberFails(c) \/ ChargeFails(c) \/ TakeFails(c)
    \/ PutBackFails(c) \/ WriteFails(c) \/ DiscordFails(c)

Next ==
    \/ \E c \in Calls : (\E r \in Requests : Ask(c, r)) \/ Step(c) \/ Fails(c)
    \/ Crash

Spec == Init /\ [][Next]_vars

\* Mongo and Discord answer, and the event loop resumes each handler
FairSpec == Spec /\ \A c \in Calls : WF_vars(Step(c))

-----------------------------------------------------------------------------
(* Type invariant: what the collections, the accounts and the calls hold.   *)
TypeOK ==
    /\ list \subseteq Product
    /\ prices \subseteq PriceDoc
    /\ shop \in [Items -> Places]
    /\ balance \in [Users -> Int]
    /\ deposit \in [Users -> Nat]
    /\ orderNo \in Nat
    /\ req \in [Calls -> Request]
    /\ at \in [Calls -> Steps]
    /\ type \in [Calls -> Types]
    /\ wallet \in [Calls -> Int]
    /\ cost \in [Calls -> Nat]
    /\ left \in [Calls -> Nat]
    /\ num \in [Calls -> Nat]
    /\ got \in [Calls -> SUBSET Items]
    /\ paid \in [Calls -> BOOLEAN]
    /\ to \in [Calls -> SUBSET {"buyer", "owner"}]
    /\ faults \in 0 .. MaxFaults

\* a call that deletes what it sends
Exclusive(c) == req[c].kind = "checkstock" \/ type[c] # "script"

\* No piece of stock is handed to two calls: what a purchase, a /send or a
\* /checkstock holds is neither in stock nor with another of them, whatever
\* else runs between the awaits of its loop.
NeverSoldTwice ==
    \A c \in Calls : Exclusive(c) =>
        /\ \A i \in got[c] : shop[i] = "out"
        /\ \A d \in Calls \ {c} : Exclusive(d) => got[c] \cap got[d] = {}

Untraced ==
    {i \in Items : shop[i] = "out" /\ \A c \in Calls : Exclusive(c) => i \notin got[c]}

\* An item that left the collection can be traced to the call that took it,
\* but for one item for each request that failed: the loops, the save of
\* /checkstock and what overlaps with them lose none by themselves.
Traced == Cardinality(Untraced) <= faults

Of(kind, u, S) == {c \in S : paid[c] /\ req[c].kind = kind /\ req[c].user = u}

\* What the calls of S charge or remove, counted coin by coin: a sum without
\* recursion, about which facts on cardinalities can be proved.
Coins(price, S) == UNION {{c} \X (1 .. price[c]) : c \in S}

Total(price, S) == Cardinality(Coins(price, S))

Spent(u, S) == Total(cost, Of("buy", u, S))

Removed(u) == Total([c \in Calls |-> req[c].n], Of("removebalance", u, Calls))

\* The books of an account: what it was given is what it has, what its
\* purchases charged and twice what admins removed (/removebalance raises
\* Deposit).  Updates that cross are not lost.
BooksBalance ==
    \A u \in Users : deposit[u] - balance[u] = Spent(u, Calls) + 2 * Removed(u)

\* A purchase checks the wallet before it charges, so an account is overdrawn
\* by no more than what other purchases and removals took meanwhile.
OverdraftBounded ==
    \A u \in Users : \A c \in Of("buy", u, Calls) :
        balance[u] + Spent(u, Calls \ {c}) + Removed(u) >= 0

\* A purchase that charged, and any call that took items from the stock, ends
\* with a file to the owner, in full or in part, unless Mongo or Discord failed;
\* except a /send that ran out of stock half way, whose error ends it first.
PaidIsServed ==
    \A c \in Calls :
        /\ at[c] \in Final /\ faults = 0
        /\ got[c] # {} \/ (req[c].kind = "buy" /\ paid[c])
        => "owner" \in to[c] \/ (req[c].kind = "send" /\ at[c] = "threw")

Took(c) == req[c].kind \in {"buy", "send", "checkstock", "changecode"}

\* A purchase counted enough stock before it charged: it is served short only
\* when another call took or recoded stock of the product, or a read failed.
ShortExplained ==
    \A c \in Calls :
        /\ req[c].kind = "buy" /\ Exclusive(c) /\ at[c] = "done" /\ faults = 0
        /\ Cardinality(got[c]) < Turns(req[c].n)
        => \E d \in Calls \ {c} : /\ Took(d) /\ at[d] \notin {"idle", "refused"}
                                  /\ req[d].code = req[c].code

\* Every call ends: no loop over the stock runs for ever.
CallsEnd == \A c \in Calls : Running(c) ~> at[c] \in Final

\* "Ur Money Is Less": a purchase charges only what the account has.
NeverOverdrawn ==
    [][\A c \in Calls : req[c].kind = "buy" /\ paid[c] # paid'[c]
                           => balance'[req[c].user] >= 0]_vars
=============================================================================
